---------------------------- MODULE BankingProofs ----------------------------
(***************************************************************************)
(* Proofs about the banking API: what a request meets before and around    *)
(* its handler (ApiRequests), the money that enters and leaves accounts    *)
(* and wallets (ProviderInbound, WalletApprovals), the transaction a       *)
(* command is (UnitOfWork), and the bank's books under all its products    *)
(* and the sandbox builder (BankProducts, BuilderProjects).                *)
(***************************************************************************)
EXTENDS ProviderInbound, BuilderProjects, ApiRequests, UnitOfWork, SumTheorems, SequenceTheorems

LEMMA Appended ==
  ASSUME NEW S, NEW list \in Seq(S), NEW e \in S
  PROVE  /\ Append(list, e) \in Seq(S)
         /\ Len(list) \in Nat
         /\ DOMAIN list = 1 .. Len(list)
         /\ DOMAIN Append(list, e) = 1 .. Len(list) + 1
         /\ Append(list, e)[Len(list) + 1] = e
         /\ \A i \in 1 .. Len(list) : Append(list, e)[i] = list[i] /\ list[i] \in S
OBVIOUS

-----------------------------------------------------------------------------
(***************************************************************************)
(* Commands under idempotency keys. What is kept for a slot is the answer  *)
(* of its last command, and names it exactly; so a command that runs again *)
(* does so because that one is forgotten.                                  *)
(***************************************************************************)
Row == [request : Request, at : Nat]
LogTyped == log \in Seq(Row)
LogPast == \A i \in DOMAIN log : log[i].at <= now

Kind == [command : Nat, fingerprint : Bodies, until : Nat]
StoredTyped == stored \in [Slots -> Kind \cup {Nothing}]

Tells(s) ==
  /\ stored[s].command \in DOMAIN log
  /\ Slot(log[stored[s].command].request) = s
  /\ stored[s].fingerprint = Fingerprint(log[stored[s].command].request)
  /\ stored[s].until = log[stored[s].command].at + IdempotencyLife
StoredTells == \A s \in Slots : stored[s] # Nothing => Tells(s)

KeptSince(i) ==
  LET s == Slot(log[i].request)
  IN  stored[s] # Nothing /\ log[i].at <= log[stored[s].command].at
LogKept == \A i \in DOMAIN log : log[i].request.header # NoHeader => KeptSince(i)

AnswerTyped ==
  answer.command # 0 => answer.command \in DOMAIN log /\ answer.request \in Request

CommandInv ==
  /\ LogTyped /\ LogPast /\ StoredTyped /\ StoredTells /\ LogKept /\ AnswerTyped
  /\ AnsweredOnce

LEMMA Element == ASSUME NEW S, NEW list \in Seq(S), NEW i \in DOMAIN list PROVE list[i] \in S
OBVIOUS

LEMMA RowIs == ASSUME NEW r \in Row PROVE r.request \in Request /\ r.at \in Nat
BY DEF Row

LEMMA CommandInitial == ASSUME CommandInit, now = 0 PROVE CommandInv
<1>1. LogTyped /\ DOMAIN log = {}
  BY DEF CommandInit, LogTyped
<1>2. StoredTyped /\ StoredTells
  BY DEF CommandInit, StoredTyped, StoredTells
<1>3. LogPast /\ LogKept /\ AnswerTyped /\ RunOnce /\ ToldTheirOwn
  BY <1>1 DEF CommandInit, LogPast, LogKept, AnswerTyped, RunOnce, ToldTheirOwn
<1> QED BY <1>1, <1>2, <1>3 DEF CommandInv, AnsweredOnce

(* Nothing but the clock moved.                                            *)
LEMMA CommandIdle ==
  ASSUME CommandInv, now \in Nat, now' \in Nat, now' >= now, UNCHANGED <<log, stored, answer>>
  PROVE  CommandInv'
<1>1. LogPast'
  <2>1. ASSUME NEW i \in DOMAIN log PROVE log[i].at \in Nat /\ log[i].at <= now
    <3>1. log[i] \in Row
      BY Element DEF CommandInv, LogTyped
    <3> QED BY <3>1, RowIs DEF CommandInv, LogPast
  <2>2. ASSUME NEW i \in DOMAIN log PROVE log[i].at <= now'
    BY <2>1
  <2>3. log' = log
    OBVIOUS
  <2> QED BY <2>2, <2>3 DEF LogPast
<1>2. LogTyped' /\ StoredTyped'
  BY DEF CommandInv, LogTyped, StoredTyped
<1>3. StoredTells'
  BY DEF CommandInv, StoredTells, Tells
<1>4. LogKept'
  BY DEF CommandInv, LogKept, KeptSince
<1>5. AnswerTyped' /\ RunOnce' /\ ToldTheirOwn'
  BY DEF CommandInv, AnsweredOnce, AnswerTyped, RunOnce, ToldTheirOwn
<1> QED BY <1>1, <1>2, <1>3, <1>4, <1>5 DEF CommandInv, AnsweredOnce

(* An answer that tells of a command of the same tenant, operation and body. *)
LEMMA CommandTold ==
  ASSUME CommandInv, UNCHANGED <<now, log, stored>>,
         AnswerTyped', ToldTheirOwn'
  PROVE  CommandInv'
<1>2. LogTyped' /\ StoredTyped' /\ LogPast'
  BY DEF CommandInv, LogTyped, StoredTyped, LogPast
<1>3. StoredTells'
  BY DEF CommandInv, StoredTells, Tells
<1>4. LogKept'
  BY DEF CommandInv, LogKept, KeptSince
<1>5. RunOnce'
  BY DEF CommandInv, AnsweredOnce, RunOnce
<1> QED BY <1>2, <1>3, <1>4, <1>5 DEF CommandInv, AnsweredOnce

LEMMA SlotOf ==
  ASSUME NEW q \in Request, q.header # NoHeader PROVE Slot(q) \in Slots
BY DEF Request, Slot, Slots

LEMMA CommandRefused == ASSUME CommandInv, Refuse, UNCHANGED now PROVE CommandInv'
<1>1. AnswerTyped' /\ ToldTheirOwn'
  BY DEF Refuse, AnswerTyped, ToldTheirOwn
<1> QED BY <1>1, CommandTold DEF Refuse

LEMMA CommandReplayed ==
  ASSUME CommandInv, NEW q \in Request, Known(q), SameParameters(q), ReplayAnswer(q), UNCHANGED now
  PROVE  CommandInv'
<1>1. Slot(q) \in Slots
  BY SlotOf DEF Known
<1>2. Tells(Slot(q))
  BY <1>1 DEF CommandInv, StoredTells, Known
<1>3. answer' = [request |-> q, command |-> stored[Slot(q)].command]
  BY DEF ReplayAnswer, Answered
<1>4. answer'.command \in DOMAIN log /\ answer'.request = q
  BY <1>2, <1>3 DEF Tells
<1>5. AnswerTyped'
  BY <1>4 DEF AnswerTyped, ReplayAnswer
<1>6. PICK done : done = log[answer'.command].request
  OBVIOUS
<1>7. Slot(done) = Slot(q) /\ Fingerprint(done) = Fingerprint(q)
  BY <1>2, <1>3, <1>6 DEF Tells, SameParameters
<1>8. done.tenant = q.tenant /\ done.op = q.op /\ done.body = q.body
  BY <1>7 DEF Slot, Fingerprint
<1>9. ToldTheirOwn'
  BY <1>4, <1>6, <1>8 DEF ToldTheirOwn, ReplayAnswer
<1> QED BY <1>5, <1>9, CommandTold DEF ReplayAnswer

LEMMA CommandRun ==
  ASSUME CommandInv, RequestsAssumption, now \in Nat, NEW q \in Request, Run(q), ~Known(q),
         UNCHANGED now
  PROVE  CommandInv'
<1> DEFINE n == Len(log) + 1
           e == [request |-> q, at |-> now]
<1>1. log \in Seq(Row) /\ e \in Row
  BY DEF CommandInv, LogTyped, Row
<1>2. log' = Append(log, e)
  BY DEF Run
<1>3. /\ log' \in Seq(Row) /\ Len(log) \in Nat
      /\ DOMAIN log = 1 .. Len(log) /\ DOMAIN log' = 1 .. n
      /\ log'[n] = e
      /\ \A i \in DOMAIN log : log'[i] = log[i] /\ log[i] \in Row
  <2> HIDE DEF e
  <2>1. PICK m : m = Len(log)
    OBVIOUS
  <2> QED BY <1>1, <1>2, <2>1, Appended
<1>4. e.request = q /\ e.at = now
  OBVIOUS
<1>5. n \in Nat /\ n # 0 /\ n \notin DOMAIN log /\ n \in DOMAIN log'
      /\ DOMAIN log \subseteq DOMAIN log' /\ DOMAIN log' \subseteq DOMAIN log \cup {n}
  BY <1>3
<1> DEFINE kept == [command |-> n, fingerprint |-> Fingerprint(q), until |-> now + IdempotencyLife]
<1>6. IF q.header = NoHeader THEN stored' = stored
      ELSE stored' = [stored EXCEPT ![Slot(q)] = kept]
  BY DEF Run
<1>7. kept # Nothing /\ kept.command = n /\ kept.fingerprint = Fingerprint(q)
      /\ kept.until = now + IdempotencyLife
  BY <1>5 DEF Nothing
<1>8. now + IdempotencyLife \in Nat /\ kept \in Kind
  BY <1>5 DEF RequestsAssumption, Kind, Request, Fingerprint
<1>9. answer' = [request |-> q, command |-> n]
  BY DEF Run, Answered
<1> HIDE DEF n, e, kept
<1>10. q.header # NoHeader => Slot(q) \in Slots
  BY SlotOf
<1>11. StoredTyped'
  BY <1>6, <1>8, <1>10 DEF CommandInv, StoredTyped
<1>12. LogTyped' /\ LogPast'
  <2>1. LogTyped'
    BY <1>3 DEF LogTyped
  <2>2. ASSUME NEW i \in DOMAIN log' PROVE log'[i].at <= now
    BY <1>3, <1>4, <1>5 DEF CommandInv, LogPast
  <2> QED BY <2>1, <2>2 DEF LogPast
<1>13. \A s \in Slots : stored'[s] = IF q.header # NoHeader /\ s = Slot(q) THEN kept ELSE stored[s]
  BY <1>6, <1>10 DEF CommandInv, StoredTyped
<1>14. StoredTells'
  <2>1. ASSUME NEW s \in Slots, stored'[s] # Nothing PROVE Tells(s)'
    <3>1. CASE q.header # NoHeader /\ s = Slot(q)
      <4>1. stored'[s] = kept
        BY <1>13, <3>1
      <4> QED BY <1>3, <1>4, <1>5, <1>7, <3>1, <4>1 DEF Tells
    <3>2. CASE ~(q.header # NoHeader /\ s = Slot(q))
      <4>1. stored'[s] = stored[s]
        BY <1>13, <3>2
      <4>2. Tells(s)
        BY <2>1, <4>1 DEF CommandInv, StoredTells
      <4> QED BY <1>3, <1>5, <4>1, <4>2 DEF Tells
    <3> QED BY <3>1, <3>2
  <2> QED BY <2>1 DEF StoredTells
<1>15. LogKept'
  <2>1. ASSUME NEW i \in DOMAIN log', log'[i].request.header # NoHeader PROVE KeptSince(i)'
    <3> DEFINE s == Slot(log'[i].request)
    <3>0. log'[i] \in Row
      BY <1>3, Element
    <3>1. log'[i].at \in Nat /\ log'[i].at <= now
      BY <1>12, <3>0, RowIs DEF LogPast
    <3>2. log'[i].request \in Request
      BY <3>0, RowIs
    <3>3. s \in Slots
      BY <2>1, <3>2, SlotOf
    <3> HIDE DEF s
    <3>4. CASE q.header # NoHeader /\ s = Slot(q)
      <4>1. stored'[s] = kept /\ log'[stored'[s].command] = e
        BY <1>3, <1>7, <1>13, <3>3, <3>4
      <4> QED BY <1>4, <1>7, <3>1, <4>1 DEF KeptSince, s
    <3>5. CASE ~(q.header # NoHeader /\ s = Slot(q))
      <4>1. i # n
        BY <1>3, <1>4, <2>1, <3>5 DEF s
      <4>2. i \in DOMAIN log /\ log'[i] = log[i]
        BY <1>3, <1>5, <4>1
      <4>3. KeptSince(i)
        BY <2>1, <4>2 DEF CommandInv, LogKept
      <4>4. stored'[s] = stored[s] /\ stored[s] # Nothing
        BY <1>13, <3>3, <3>5, <4>2, <4>3 DEF KeptSince, s
      <4>5. stored[s].command \in DOMAIN log
        BY <3>3, <4>4 DEF CommandInv, StoredTells, Tells
      <4> QED BY <1>3, <4>2, <4>3, <4>4, <4>5 DEF KeptSince, s
    <3> QED BY <3>4, <3>5
  <2> QED BY <2>1 DEF LogKept
<1>16. AnswerTyped' /\ ToldTheirOwn'
  BY <1>3, <1>4, <1>5, <1>9 DEF AnswerTyped, ToldTheirOwn
<1>17. RunOnce'
  <2> SUFFICES ASSUME NEW i \in DOMAIN log', NEW j \in DOMAIN log', i < j,
                      log'[i].request.header # NoHeader,
                      Slot(log'[i].request) = Slot(log'[j].request)
               PROVE  log'[j].at - log'[i].at >= IdempotencyLife
    BY DEF RunOnce
  <2>1. i \in DOMAIN log /\ log'[i] = log[i]
    BY <1>3 DEF n
  <2>2. CASE j # n
    <3>1. j \in DOMAIN log /\ log'[j] = log[j]
      BY <1>3, <1>5, <2>2
    <3>2. log[j].at - log[i].at >= IdempotencyLife
      BY <2>1, <3>1 DEF CommandInv, AnsweredOnce, RunOnce
    <3> QED BY <2>1, <3>1, <3>2
  <2>3. CASE j = n
    <3>1. log'[j].request = q /\ log'[j].at = now
      BY <1>3, <1>4, <2>3
    <3>2. Slot(log[i].request) = Slot(q) /\ KeptSince(i)
      BY <2>1, <3>1 DEF CommandInv, LogKept
    <3>3. q.header # NoHeader
      BY <2>1, <3>2 DEF Slot
    <3>4. Slot(q) \in Slots /\ stored[Slot(q)] # Nothing
          /\ log[i].at <= log[stored[Slot(q)].command].at
      BY <1>10, <3>2, <3>3 DEF KeptSince
    <3>5. Tells(Slot(q))
      BY <3>4 DEF CommandInv, StoredTells
    <3>6. PICK m \in DOMAIN log : m = stored[Slot(q)].command
      BY <3>5 DEF Tells
    <3>7. stored[Slot(q)].until = log[m].at + IdempotencyLife
      BY <3>5, <3>6 DEF Tells
    <3>8. log[i].at \in Nat /\ log[m].at \in Nat
      BY <1>3, <2>1, <3>6, RowIs
    <3>9. ~(now < stored[Slot(q)].until)
      BY <3>3, <3>4 DEF Known
    <3>10. log[i].at <= log[m].at
      BY <3>4, <3>6
    <3>11. now - log[i].at >= IdempotencyLife
      BY <3>7, <3>8, <3>9, <3>10 DEF RequestsAssumption
    <3> QED BY <2>1, <3>1, <3>11
  <2> QED BY <2>2, <2>3
<1> QED BY <1>11, <1>12, <1>14, <1>15, <1>16, <1>17 DEF CommandInv, AnsweredOnce

LEMMA CommandHandled ==
  ASSUME CommandInv, RequestsAssumption, now \in Nat, UNCHANGED now, CommandNext
  PROVE  CommandInv'
<1>1. CASE Restart
  BY <1>1, CommandIdle DEF Restart
<1>2. ASSUME NEW q \in Request, Handle(q) PROVE CommandInv'
  <2>1. CASE ~Within(q.tenant) \/ ~Preflight(q)
    BY <1>2, <2>1, CommandRefused DEF Handle
  <2>2. CASE Within(q.tenant) /\ Preflight(q) /\ Known(q)
    <3>1. CASE SameParameters(q)
      BY <1>2, <2>2, <3>1, CommandReplayed DEF Handle
    <3>2. CASE ~SameParameters(q)
      BY <1>2, <2>2, <3>2, CommandRefused DEF Handle
    <3> QED BY <3>1, <3>2
  <2>3. CASE Within(q.tenant) /\ Preflight(q) /\ ~Known(q)
    <3>1. Run(q) \/ Refuse
      BY <1>2, <2>3 DEF Handle
    <3>2. CASE Run(q)
      BY <2>3, <3>2, CommandRun
    <3>3. CASE Refuse
      BY <3>3, CommandRefused
    <3> QED BY <3>1, <3>2, <3>3
  <2> QED BY <2>1, <2>2, <2>3
<1> QED BY <1>1, <1>2 DEF CommandNext

-----------------------------------------------------------------------------
(***************************************************************************)
(* The gate. What a tenant's quota has counted in its window are turns its *)
(* own keys had since the window began, so one that is held back was       *)
(* preceded by as many of them.                                            *)
(***************************************************************************)
GateTurn == [path : DOMAIN Paths, with : Asks, at : Nat, outcome : {"refused", "limited", "ran"},
         named : Patrons \cup {Operator, Newcomer, Nameless}]
Meter == [count : Nat, resetAt : Nat]
GateTyped ==
  /\ turns \in Seq(GateTurn)
  /\ spent \in [Patrons -> Meter]
  /\ revokedAt \in [Credentials -> Nat]
  /\ waiting \in [Connections -> [path : DOMAIN Paths, with : Asks] \cup {Idle}]

CountedFor(p) ==
  {j \in DOMAIN turns : /\ turns[j].with \in Credentials /\ turns[j].named = p
                        /\ turns[j].at + GateWindow >= spent[p].resetAt}
QuotaTrue(p) ==
  spent[p].resetAt <= now + GateWindow /\ spent[p].count <= Cardinality(CountedFor(p))

WithKeys ==
  \A i \in DOMAIN turns :
    turns[i].outcome = "ran" /\ Access(turns[i].path) = "tenant" => turns[i].with \in Credentials

GateInv == GateTyped /\ WithKeys /\ GateKept /\ \A p \in Patrons : QuotaTrue(p)

LEMMA TurnIs ==
  ASSUME NEW r \in GateTurn
  PROVE  r.path \in DOMAIN Paths /\ r.with \in Asks /\ r.at \in Nat
         /\ r.outcome \in {"refused", "limited", "ran"}
BY DEF GateTurn

LEMMA MeterIs == ASSUME NEW m \in Meter PROVE m.count \in Nat /\ m.resetAt \in Nat
BY DEF Meter

LEMMA Indices ==
  ASSUME NEW n \in Nat, NEW T \in SUBSET (1 .. n)
  PROVE  IsFiniteSet(T) /\ Cardinality(T) \in Nat
<1>1. IsFiniteSet(1 .. n)
  BY FS_Interval
<1> QED BY <1>1, FS_Subset, FS_CardinalityType

LEMMA FewerIndices ==
  ASSUME NEW n \in Nat, NEW T \in SUBSET (1 .. n), NEW U \in SUBSET T
  PROVE  Cardinality(U) <= Cardinality(T)
BY Indices, FS_Subset

LEMMA GateInitial == ASSUME GateInit, RequestsAssumption, now = 0 PROVE GateInv
<1>1. turns = <<>> /\ DOMAIN turns = {}
  BY DEF GateInit
<1>2. GateTyped
  BY <1>1 DEF GateInit, GateTyped, Uncharged, Meter
<1>3. GateKept /\ WithKeys
  BY <1>1 DEF GateKept, WithKeys
<1>4. ASSUME NEW p \in Patrons PROVE QuotaTrue(p)
  <2>1. spent[p].count = 0 /\ spent[p].resetAt = 0
    BY DEF GateInit, Uncharged
  <2>2. CountedFor(p) = {}
    BY <1>1 DEF CountedFor
  <2> QED BY <2>1, <2>2, FS_EmptySet DEF QuotaTrue, RequestsAssumption
<1> QED BY <1>2, <1>3, <1>4 DEF GateInv

(* Nothing that the invariant looks at changed but the clock and who       *)
(* waits.                                                                  *)
LEMMA GateIdle ==
  ASSUME GateInv, RequestsAssumption, now \in Nat, now' \in Nat, now' >= now,
         UNCHANGED <<setting, spent, revokedAt, turns>>,
         waiting' \in [Connections -> [path : DOMAIN Paths, with : Asks] \cup {Idle}]
  PROVE  GateInv'
<1>1. GateTyped' /\ WithKeys'
  BY DEF GateInv, GateTyped, WithKeys
<1>2. GateKept'
  BY DEF GateInv, GateKept, RightToRun, OwnBefore
<1>3. ASSUME NEW p \in Patrons PROVE QuotaTrue(p)'
  <2>1. CountedFor(p)' = CountedFor(p) /\ spent' = spent
    BY DEF CountedFor
  <2>2. spent[p].resetAt \in Nat
    BY MeterIs DEF GateInv, GateTyped
  <2>3. QuotaTrue(p)
    BY DEF GateInv
  <2>4. spent[p].resetAt <= now' + GateWindow
    BY <2>2, <2>3 DEF QuotaTrue, RequestsAssumption
  <2> QED BY <2>1, <2>3, <2>4 DEF QuotaTrue
<1> QED BY <1>1, <1>2, <1>3 DEF GateInv

LEMMA GateRevoked ==
  ASSUME GateInv, RequestsAssumption, NEW k \in Credentials, RevokeCredential(k), UNCHANGED now
  PROVE  GateInv'
<1>1. Len(turns) \in Nat /\ DOMAIN turns = 1 .. Len(turns)
  BY DEF GateInv, GateTyped
<1>2. GateTyped' /\ WithKeys'
  BY <1>1 DEF GateInv, GateTyped, WithKeys, RevokeCredential
<1>3. turns' = turns /\ setting' = setting /\ spent' = spent
  BY DEF RevokeCredential
<1>4. GateKept'
  <2>1. ASSUME NEW i \in DOMAIN turns, turns[i].outcome = "ran" PROVE RightToRun(i)'
    <3>1. RightToRun(i)
      BY <2>1 DEF GateInv, GateKept
    <3>2. i < Len(turns) + 1 /\ Len(turns) + 1 # 0
      BY <1>1
    <3>3. revokedAt'[k] = Len(turns) + 1
      BY DEF GateInv, GateTyped, RevokeCredential
    <3>4. \A w \in Credentials : w # k => revokedAt'[w] = revokedAt[w]
      BY DEF GateInv, GateTyped, RevokeCredential
    <3>5. Access(turns[i].path) = "tenant" => turns[i].with \in Credentials
      BY <2>1 DEF GateInv, WithKeys
    <3>6. Access(turns[i].path) = "tenant" =>
             (revokedAt[turns[i].with] = 0 \/ i < revokedAt[turns[i].with])'
      BY <1>3, <3>1, <3>2, <3>3, <3>4, <3>5 DEF RightToRun
    <3> QED BY <1>3, <3>1, <3>6 DEF RightToRun
  <2>2. ASSUME NEW i \in DOMAIN turns, turns[i].outcome = "limited"
        PROVE  (Cardinality(OwnBefore(i)) >= PatronLimit)'
    <3>1. OwnBefore(i)' = OwnBefore(i)
      BY <1>3 DEF OwnBefore
    <3> QED BY <2>2, <3>1 DEF GateInv, GateKept
  <2> QED BY <1>3, <2>1, <2>2 DEF GateKept
<1>5. \A p \in Patrons : QuotaTrue(p)'
  BY <1>3 DEF GateInv, QuotaTrue, CountedFor
<1> QED BY <1>2, <1>4, <1>5 DEF GateInv

(* A turn is taken.                                                        *)
LEMMA Charged ==
  ASSUME NEW m \in Meter, RequestsAssumption, now \in Nat, m.resetAt <= now + GateWindow
  PROVE  LET after == Charge(m, PatronLimit) IN
         /\ after \in Meter /\ after.resetAt <= now + GateWindow
         /\ m.resetAt <= now => after.count = 1 /\ after.resetAt = now + GateWindow
         /\ ~(m.resetAt <= now) =>
              /\ after.resetAt = m.resetAt /\ after.count <= m.count + 1
              /\ after.count > PatronLimit => m.count >= PatronLimit
<1>1. m.count \in Nat /\ m.resetAt \in Nat /\ PatronLimit \in Nat /\ GateWindow \in Nat
  BY MeterIs DEF RequestsAssumption
<1>2. CASE m.resetAt <= now
  <2>1. Charge(m, PatronLimit) = [count |-> 1, resetAt |-> now + GateWindow]
    BY <1>2 DEF Charge
  <2> QED BY <1>1, <1>2, <2>1 DEF Meter
<1>3. CASE ~(m.resetAt <= now)
  <2>1. Charge(m, PatronLimit) =
          [m EXCEPT !.count = IF m.count > PatronLimit THEN m.count ELSE m.count + 1]
    BY <1>3 DEF Charge
  <2>2. m = [count |-> m.count, resetAt |-> m.resetAt]
    BY DEF Meter
  <2>3. PICK n \in Nat : n = IF m.count > PatronLimit THEN m.count ELSE m.count + 1
    BY <1>1
  <2>4. Charge(m, PatronLimit) = [count |-> n, resetAt |-> m.resetAt]
    BY <2>1, <2>2, <2>3
  <2>5. n <= m.count + 1 /\ (n > PatronLimit => m.count >= PatronLimit)
    BY <1>1, <2>3
  <2> QED BY <1>1, <1>3, <2>4, <2>5 DEF Meter
<1> QED BY <1>2, <1>3

LEMMA NameOfTurn ==
  ASSUME RequestsAssumption, NEW q, q.with \in Asks, NEW outcome
  PROVE  Named(q, outcome) \in Patrons \cup {Operator, Newcomer, Nameless}
<1>1. CASE Access(q.path) = "public"
  BY <1>1 DEF Named
<1>2. CASE Access(q.path) # "public" /\ ~Authenticated(q)
  BY <1>2 DEF Named
<1>3. CASE Access(q.path) # "public" /\ Authenticated(q)
  <2>1. q.with = Operator \/ q.with \in Credentials
    BY <1>3 DEF Authenticated
  <2> QED BY <1>3, <2>1 DEF Named, RequestsAssumption
<1> QED BY <1>1, <1>2, <1>3

LEMMA GateTaken ==
  ASSUME GateInv, RequestsAssumption, now \in Nat, UNCHANGED now,
         NEW c \in Connections, TakeTurn(c)
  PROVE  GateInv'
<1>1. PICK q : q = waiting[c]
  OBVIOUS
<1>2. q.path \in DOMAIN Paths /\ q.with \in Asks
  BY <1>1 DEF GateInv, GateTyped, TakeTurn
<1>3. PICK outcome \in Verdicts(q) : turns' = Append(turns, Concluded(q, outcome))
  BY <1>1 DEF TakeTurn
<1>4. spent' = IF Charges(q) THEN [spent EXCEPT ![HolderKey[q.with]] = AfterCharge(q)] ELSE spent
  BY <1>1 DEF TakeTurn
<1>5. waiting' = [waiting EXCEPT ![c] = Idle] /\ UNCHANGED <<setting, revokedAt>>
  BY DEF TakeTurn
<1>6. outcome \in {"refused", "limited", "ran"}
  BY DEF Verdicts
<1>7. PICK r : r = Concluded(q, outcome)
  OBVIOUS
<1>8. r.path = q.path /\ r.with = q.with /\ r.at = now /\ r.outcome = outcome
      /\ r.named = Named(q, outcome)
  BY <1>7 DEF Concluded
<1>9. r \in GateTurn
  BY <1>2, <1>6, <1>7, NameOfTurn DEF Concluded, GateTurn
<1>10. PICK n \in Nat : n = Len(turns)
  BY DEF GateInv, GateTyped
<1>11. /\ turns' \in Seq(GateTurn) /\ DOMAIN turns = 1 .. n /\ DOMAIN turns' = 1 .. n + 1
       /\ turns'[n + 1] = r
       /\ \A i \in 1 .. n : turns'[i] = turns[i] /\ turns[i] \in GateTurn
  BY <1>3, <1>7, <1>9, <1>10, Appended DEF GateInv, GateTyped
<1>12. Charges(q) => q.with \in Credentials /\ Access(q.path) = "tenant" /\ Authenticated(q)
  BY DEF Charges, Authenticated
<1>13. Charges(q) => HolderKey[q.with] \in Patrons
  BY <1>12 DEF RequestsAssumption
<1>14. \A p \in Patrons : spent[p] \in Meter /\ QuotaTrue(p)
  BY DEF GateInv, GateTyped
<1>15. ASSUME Charges(q)
       PROVE  LET m == spent[HolderKey[q.with]]
                  after == AfterCharge(q)
              IN  /\ after \in Meter /\ after.resetAt <= now + GateWindow
                  /\ m.resetAt <= now => after.count = 1 /\ after.resetAt = now + GateWindow
                  /\ ~(m.resetAt <= now) =>
                       /\ after.resetAt = m.resetAt /\ after.count <= m.count + 1
                       /\ after.count > PatronLimit => m.count >= PatronLimit
  <2>1. PICK m : m = spent[HolderKey[q.with]]
    OBVIOUS
  <2>2. m \in Meter /\ m.resetAt <= now + GateWindow
    BY <1>13, <1>14, <1>15, <2>1 DEF QuotaTrue
  <2> QED BY <2>1, <2>2, Charged DEF AfterCharge
<1>16. GateTyped'
  BY <1>4, <1>5, <1>11, <1>13, <1>15 DEF GateInv, GateTyped
<1>17. Charges(q) => r.named = HolderKey[q.with] /\ r.with \in Credentials
  BY <1>8, <1>12 DEF Named, RequestsAssumption
<1>18. ASSUME NEW p \in Patrons
       PROVE  /\ CountedFor(p) \in SUBSET (1 .. n)
              /\ \A j \in CountedFor(p) : turns'[j] = turns[j]
              /\ \A j \in CountedFor(p) :
                   turns[j].with \in Credentials /\ turns[j].named = p /\ turns[j].at \in Nat
                   /\ turns[j].at + GateWindow >= spent[p].resetAt
  BY <1>11, TurnIs DEF CountedFor
<1>19. ASSUME NEW p \in Patrons PROVE QuotaTrue(p)'
  <2>1. n + 1 \in Nat /\ CountedFor(p)' \in SUBSET (1 .. n + 1)
    BY <1>11 DEF CountedFor
  <2>2. CASE ~Charges(q) \/ p # HolderKey[q.with]
    <3>1. spent'[p] = spent[p]
      BY <1>4, <1>13, <2>2 DEF GateInv, GateTyped
    <3>2. CountedFor(p) \in SUBSET (CountedFor(p)')
      BY <1>11, <1>18, <3>1 DEF CountedFor
    <3>3. Cardinality(CountedFor(p)) <= Cardinality(CountedFor(p)')
      BY <2>1, <3>2, FewerIndices
    <3>4. Cardinality(CountedFor(p)) \in Nat /\ Cardinality(CountedFor(p)') \in Nat
      BY <1>18, <2>1, Indices
    <3>5. spent[p].count \in Nat
      BY <1>14, MeterIs
    <3> QED BY <1>14, <3>1, <3>3, <3>4, <3>5 DEF QuotaTrue
  <2>3. CASE Charges(q) /\ p = HolderKey[q.with]
    <3>1. spent'[p] = AfterCharge(q)
      BY <1>4, <1>13, <2>3 DEF GateInv, GateTyped
    <3>2. PICK after \in Meter : after = AfterCharge(q)
      BY <1>15, <2>3
    <3>3. /\ after.resetAt <= now + GateWindow /\ spent'[p] = after
          /\ spent[p].resetAt <= now => after.count = 1 /\ after.resetAt = now + GateWindow
          /\ ~(spent[p].resetAt <= now) =>
               after.resetAt = spent[p].resetAt /\ after.count <= spent[p].count + 1
      BY <1>15, <2>3, <3>1, <3>2
    <3>4. now + GateWindow >= after.resetAt
      BY <3>2, <3>3, MeterIs DEF RequestsAssumption
    <3>5. n + 1 \in CountedFor(p)'
      BY <1>8, <1>11, <1>17, <2>3, <3>3, <3>4 DEF CountedFor
    <3>6. Cardinality(CountedFor(p)') \in Nat /\ IsFiniteSet(CountedFor(p)')
      BY <2>1, Indices
    <3>7. CASE spent[p].resetAt <= now
      <4>1. Cardinality(CountedFor(p)') # 0
        BY <3>5, <3>6, FS_EmptySet
      <4> QED BY <3>3, <3>6, <3>7, <4>1 DEF QuotaTrue
    <3>8. CASE ~(spent[p].resetAt <= now)
      <4>1. CountedFor(p) \cup {n + 1} \in SUBSET (CountedFor(p)')
        BY <1>11, <1>18, <3>3, <3>5, <3>8 DEF CountedFor
      <4>2. n + 1 \notin CountedFor(p)
        BY <1>18
      <4>3. IsFiniteSet(CountedFor(p)) /\ Cardinality(CountedFor(p)) \in Nat
        BY <1>18, Indices
      <4>4. Cardinality(CountedFor(p) \cup {n + 1}) = Cardinality(CountedFor(p)) + 1
        BY <4>2, <4>3, FS_AddElement
      <4>5. Cardinality(CountedFor(p) \cup {n + 1}) <= Cardinality(CountedFor(p)')
        BY <2>1, <4>1, FewerIndices
      <4>6. spent[p].count \in Nat /\ after.count \in Nat
        BY <1>14, <3>2, MeterIs
      <4>7. spent[p].count <= Cardinality(CountedFor(p)) /\ after.count <= spent[p].count + 1
        BY <1>14, <3>3, <3>8 DEF QuotaTrue
      <4>8. after.count <= Cardinality(CountedFor(p)')
        BY <3>6, <4>3, <4>4, <4>5, <4>6, <4>7
      <4> QED BY <3>3, <4>8 DEF QuotaTrue
    <3> QED BY <3>7, <3>8
  <2> QED BY <2>2, <2>3
<1>20. ASSUME NEW i \in 1 .. n
       PROVE  /\ turns'[i].outcome = "ran" /\ Access(turns'[i].path) = "tenant" =>
                   turns'[i].with \in Credentials
              /\ turns'[i].outcome = "ran" => RightToRun(i)'
              /\ turns'[i].outcome = "limited" => (Cardinality(OwnBefore(i)) >= PatronLimit)'
  <2>1. turns'[i] = turns[i]
    BY <1>11
  <2>2. RightToRun(i)' <=> RightToRun(i)
    BY <1>5, <2>1 DEF RightToRun
  <2>3. \A j \in 1 .. i - 1 : turns'[j] = turns[j]
    BY <1>11
  <2>4. OwnBefore(i)' = OwnBefore(i)
    BY <2>1, <2>3 DEF OwnBefore
  <2> QED BY <1>11, <2>1, <2>2, <2>4 DEF GateInv, GateKept, WithKeys
<1>21. outcome = "ran" => Authenticated(q) /\ FitsMode(q.path)
  BY DEF Verdicts
<1>22. outcome = "ran" /\ Access(q.path) = "tenant" => q.with \in Credentials /\ revokedAt[q.with] = 0
  BY <1>21 DEF Authenticated, KeyNow
<1>23. ASSUME outcome = "ran" PROVE RightToRun(n + 1)'
  <2>1. Access(q.path) = "tenant" => r.named = HolderKey[q.with]
    BY <1>8, <1>21, <1>22, <1>23 DEF Named, RequestsAssumption
  <2>2. Access(q.path) # "public" \/ Paths[q.path].mutates => r.named # Nameless
    <3>1. CASE Access(q.path) = "public" /\ Paths[q.path].mutates
      <4>1. Audited(q.path)
        BY <3>1 DEF Audited
      <4>2. Named(q, outcome) = Newcomer
        BY <1>23, <3>1, <4>1 DEF Named, Authenticated
      <4> QED BY <1>8, <4>2 DEF RequestsAssumption
    <3>2. CASE Access(q.path) # "public"
      <4>1. q.with = Operator \/ q.with \in Credentials
        BY <1>21, <1>23, <3>2 DEF Authenticated
      <4>2. r.named = IF q.with = Operator THEN Operator ELSE HolderKey[q.with]
        BY <1>8, <1>21, <1>23, <3>2 DEF Named
      <4> QED BY <4>1, <4>2 DEF RequestsAssumption
    <3> QED BY <3>1, <3>2
  <2>3. setting.mode = "production" => ~Paths[q.path].sandbox
    BY <1>21, <1>23 DEF FitsMode
  <2> QED BY <1>5, <1>8, <1>11, <1>22, <1>23, <2>1, <2>2, <2>3 DEF RightToRun
<1>24. ASSUME outcome = "limited" PROVE (Cardinality(OwnBefore(n + 1)) >= PatronLimit)'
  <2>1. Charges(q) /\ ~(AfterCharge(q).count <= PatronLimit)
    BY <1>24 DEF Verdicts, Affords
  <2>2. PICK p \in Patrons : p = HolderKey[q.with]
    BY <1>13, <2>1
  <2>3. OwnBefore(n + 1)' \in SUBSET (1 .. n)
    BY DEF OwnBefore
  <2>4. Cardinality(OwnBefore(n + 1)') \in Nat
    BY <2>3, Indices
  <2>5. AfterCharge(q).count \in Nat /\ PatronLimit \in Nat
    BY <1>15, <2>1, MeterIs DEF RequestsAssumption
  <2>6. CASE spent[p].resetAt <= now
    <3>1. AfterCharge(q).count = 1
      BY <1>15, <2>1, <2>2, <2>6
    <3>2. PatronLimit = 0
      BY <2>1, <2>5, <3>1
    <3> QED BY <2>4, <3>2
  <2>7. CASE ~(spent[p].resetAt <= now)
    <3>1. spent[p].count >= PatronLimit
      BY <1>15, <2>1, <2>2, <2>5, <2>7
    <3>2. spent[p].resetAt \in Nat /\ spent[p].count \in Nat
      BY <1>14, MeterIs
    <3>3. CountedFor(p) \in SUBSET (OwnBefore(n + 1)')
      <4>1. ASSUME NEW j \in CountedFor(p) PROVE j \in OwnBefore(n + 1)'
        <5>1. turns'[n + 1].at = now /\ turns'[n + 1].named = p
          BY <1>8, <1>11, <1>17, <2>1, <2>2
        <5>2. now < turns'[j].at + GateWindow
          BY <1>18, <2>7, <3>2 DEF RequestsAssumption
        <5>3. j \in 1 .. (n + 1) - 1
          BY <1>18
        <5> QED BY <1>18, <5>1, <5>2, <5>3 DEF OwnBefore
      <4> QED BY <4>1
    <3>4. Cardinality(CountedFor(p)) <= Cardinality(OwnBefore(n + 1)')
      BY <2>3, <3>3, FewerIndices
    <3>5. spent[p].count <= Cardinality(CountedFor(p)) /\ Cardinality(CountedFor(p)) \in Nat
      BY <1>14, <1>18, Indices DEF QuotaTrue
    <3> QED BY <2>4, <2>5, <3>1, <3>2, <3>4, <3>5
  <2> QED BY <2>6, <2>7
<1>25. ASSUME NEW i \in DOMAIN turns', i \notin 1 .. n PROVE i = n + 1
  BY <1>11, <1>25
<1>26. WithKeys'
  BY <1>8, <1>11, <1>20, <1>22, <1>25 DEF WithKeys
<1>27. GateKept'
  BY <1>8, <1>11, <1>20, <1>23, <1>24, <1>25 DEF GateKept
<1> QED BY <1>16, <1>19, <1>26, <1>27 DEF GateInv

LEMMA GateStepped ==
  ASSUME GateInv, RequestsAssumption, now \in Nat, UNCHANGED now, GateNext
  PROVE  GateInv'
<1>1. ASSUME NEW a \in Addresses, TurnAway(a) PROVE GateInv'
  BY <1>1, GateIdle DEF TurnAway, GateInv, GateTyped
<1>2. ASSUME NEW c \in Connections, NEW a \in Addresses, NEW path \in DOMAIN Paths,
             NEW with \in Presented(path), Arrive(c, a, path, with)
      PROVE  GateInv'
  <2>1. [path |-> path, with |-> with] \in [path : DOMAIN Paths, with : Asks]
    BY DEF Presented, Asks
  <2>2. waiting' \in [Connections -> [path : DOMAIN Paths, with : Asks] \cup {Idle}]
    BY <1>2, <2>1 DEF Arrive, GateInv, GateTyped
  <2> QED BY <1>2, <2>2, GateIdle DEF Arrive
<1>3. ASSUME NEW c \in Connections, TakeTurn(c) PROVE GateInv'
  BY <1>3, GateTaken
<1>4. ASSUME NEW k \in Credentials, RevokeCredential(k) PROVE GateInv'
  BY <1>4, GateRevoked
<1> QED BY <1>1, <1>2, <1>3, <1>4 DEF GateNext

-----------------------------------------------------------------------------
(***************************************************************************)
(* Keys. A key can do no more than the key that made it; so the keys that  *)
(* can do at least what a key can, for its tenant, are closed under "made  *)
(* by", and hold every key above it.                                       *)
(***************************************************************************)
KeyRow(t, i, p, u, v) ==
  [tenant |-> t, issuer |-> i, permissions |-> p, until |-> u, revoked |-> v]
IsKey(r) == \E t, i, p, u, v : r = KeyRow(t, i, p, u, v)
KeysMade ==
  /\ apiKey = [k \in KeyIds |-> apiKey[k]]
  /\ \A k \in KeyIds : Minted(k) => IsKey(apiKey[k])

(* What no step takes back of a key, and how it stands to its maker.       *)
Narrower(k) ==
  \/ apiKey[k].issuer = Root
  \/ /\ apiKey[k].issuer \in KeyIds /\ Minted(apiKey[k].issuer)
     /\ apiKey[apiKey[k].issuer].tenant = apiKey[k].tenant
     /\ Allowed(k) \subseteq Allowed(apiKey[k].issuer)
KeysNarrow == \A k \in KeyIds : Minted(k) => Narrower(k)

OneProduction ==
  \A t, u \in TenantIds : tenant[t] = "production" /\ tenant[u] = "production" => t = u
TenantsTyped == tenant \in [TenantIds -> Modes \cup {"none"}]

KeyInv ==
  /\ KeysMade /\ TenantsTyped /\ KeysNarrow /\ OneProduction
  /\ runtime = "production" => ~SandboxLeft

(* The keys with at least this authority.                                  *)
Mightier(k) ==
  {a \in KeyIds : Minted(a) /\ apiKey[a].tenant = apiKey[k].tenant /\ Allowed(k) \subseteq Allowed(a)}

LEMMA AuthorityFollows == ASSUME KeyInv PROVE AuthorityKept
<1>1. ASSUME NEW k \in KeyIds, Minted(k), NEW a \in Above(k)
      PROVE  apiKey[a].tenant = apiKey[k].tenant /\ Allowed(k) \subseteq Allowed(a)
  <2>1. Mightier(k) \in SUBSET KeyIds /\ k \in Mightier(k)
    BY <1>1 DEF Mightier
  <2>2. ASSUME NEW m \in Mightier(k) PROVE apiKey[m].issuer \in Mightier(k) \cup {Root}
    <3>1. m \in KeyIds /\ Minted(m) /\ apiKey[m].tenant = apiKey[k].tenant
          /\ Allowed(k) \subseteq Allowed(m)
      BY <2>2 DEF Mightier
    <3>2. Narrower(m)
      BY <3>1 DEF KeyInv, KeysNarrow
    <3> QED BY <3>1, <3>2 DEF Narrower, Mightier
  <2>3. WithIssuers(Mightier(k))
    BY <2>2 DEF WithIssuers
  <2>4. a \in Mightier(k)
    BY <1>1, <2>1, <2>3 DEF Above
  <2> QED BY <2>4 DEF Mightier
<1>2. Cardinality({t \in TenantIds : tenant[t] = "production"}) <= 1
  <2> DEFINE T == {t \in TenantIds : tenant[t] = "production"}
  <2>1. CASE T = {}
    BY <2>1, FS_EmptySet
  <2>2. CASE T # {}
    <3>1. PICK t : t \in T
      BY <2>2
    <3>2. T = {t}
      BY <3>1 DEF KeyInv, OneProduction
    <3>3. Cardinality({t}) = 1
      BY FS_Singleton
    <3> QED BY <3>2, <3>3
  <2> QED BY <2>1, <2>2
<1> QED BY <1>1, <1>2 DEF AuthorityKept, KeyInv

LEMMA KeyIsMade == ASSUME NEW r, IsKey(r) PROVE r # Unissued
BY DEF IsKey, KeyRow, Unissued

LEMMA KeyInitial == ASSUME KeyInit PROVE KeyInv
<1>2. \A k \in KeyIds : ~Minted(k)
  BY DEF KeyInit, Minted
<1>1. KeysMade /\ TenantsTyped
  BY <1>2 DEF KeyInit, KeysMade, TenantsTyped
<1>3. OneProduction
  BY DEF KeyInit, OneProduction
<1> QED BY <1>1, <1>2, <1>3 DEF KeyInv, KeysNarrow, KeyInit

(* What a child may ask for is in its parent's authority.                  *)
LEMMA Inherits ==
  ASSUME NEW have, NEW asked, \A p \in asked : Grants(have, p), NEW r \in Routes, Grants(asked, r)
  PROVE  Grants(have, r)
<1>1. r = <<r[1], r[2]>> /\ r[2] \in {"read", "write"}
  BY DEF Routes
<1>2. CASE Wild \in asked
  <2>1. Grants(have, Wild)
    BY <1>2
  <2>2. Wild[1] = "*" /\ Wild[2] = "*" /\ <<Wild[1], "*">> = Wild /\ Wild[2] # "read"
    BY DEF Wild
  <2>3. Wild \in have
    BY <2>1, <2>2 DEF Grants
  <2> QED BY <2>3 DEF Grants
<1>3. CASE r \in asked
  BY <1>3
<1>4. CASE <<r[1], "*">> \in asked
  <2> DEFINE star == <<r[1], "*">>
  <2>1. Grants(have, star)
    BY <1>4
  <2>2. star[1] = r[1] /\ star[2] = "*"
    OBVIOUS
  <2>3. Wild \in have \/ <<r[1], "*">> \in have
    BY <2>1, <2>2 DEF Grants
  <2> QED BY <2>3 DEF Grants
<1>5. CASE r[2] = "read" /\ <<r[1], "write">> \in asked
  <2> DEFINE w == <<r[1], "write">>
  <2>1. Grants(have, w)
    BY <1>5
  <2>2. w[1] = r[1] /\ w[2] = "write"
    OBVIOUS
  <2>3. Wild \in have \/ <<r[1], "*">> \in have \/ <<r[1], "write">> \in have
    BY <2>1, <2>2 DEF Grants
  <2> QED BY <1>5, <2>3 DEF Grants
<1> QED BY <1>2, <1>3, <1>4, <1>5 DEF Grants

(* A step that changes neither who made a key nor what it may do.          *)
SameKeys ==
  \A k \in KeyIds :
    \/ ~Minted(k) /\ ~Minted(k)'
    \/ /\ Minted(k) /\ Minted(k)'
       /\ apiKey'[k].tenant = apiKey[k].tenant
       /\ apiKey'[k].issuer = apiKey[k].issuer
       /\ apiKey'[k].permissions = apiKey[k].permissions

LEMMA KeysSame == ASSUME KeyInv, SameKeys PROVE KeysNarrow'
<1>1. ASSUME NEW k \in KeyIds, Minted(k)' PROVE Narrower(k)'
  <2>0. /\ Minted(k) /\ apiKey'[k].tenant = apiKey[k].tenant
        /\ apiKey'[k].issuer = apiKey[k].issuer /\ apiKey'[k].permissions = apiKey[k].permissions
    BY <1>1 DEF SameKeys
  <2>1. Minted(k) /\ Narrower(k) /\ Allowed(k)' = Allowed(k)
    BY <2>0 DEF KeyInv, KeysNarrow, Allowed
  <2>2. PICK m : m = apiKey[k].issuer
    OBVIOUS
  <2>3. apiKey'[k].issuer = m /\ apiKey'[k].tenant = apiKey[k].tenant
    BY <2>0, <2>2
  <2>4. CASE m = Root
    BY <2>3, <2>4 DEF Narrower
  <2>5. CASE m # Root
    <3>1. m \in KeyIds /\ Minted(m) /\ apiKey[m].tenant = apiKey[k].tenant
          /\ Allowed(k) \subseteq Allowed(m)
      BY <2>1, <2>2, <2>5 DEF Narrower
    <3>2. /\ Minted(m)' /\ apiKey'[m].tenant = apiKey[m].tenant
          /\ apiKey'[m].permissions = apiKey[m].permissions
      BY <3>1 DEF SameKeys
    <3>3. Allowed(m)' = Allowed(m)
      BY <3>2 DEF Allowed
    <3> QED BY <2>1, <2>3, <3>1, <3>2, <3>3 DEF Narrower
  <2> QED BY <2>4, <2>5
<1> QED BY <1>1 DEF KeysNarrow

(* A step that makes one key, for which the rule holds.                    *)
LEMMA KeyMade ==
  ASSUME KeyInv, NEW k \in KeyIds, ~Minted(k), NEW r, apiKey' = [apiKey EXCEPT ![k] = r],
         IsKey(r), Narrower(k)'
  PROVE  KeysMade' /\ KeysNarrow'
<1>2. \A a \in KeyIds : a # k => apiKey'[a] = apiKey[a]
  BY DEF KeyInv, KeysMade
<1>4. apiKey' = [a \in KeyIds |-> apiKey'[a]] /\ apiKey'[k] = r
  BY DEF KeyInv, KeysMade
<1>5. ASSUME NEW a \in KeyIds, Minted(a)' PROVE IsKey(apiKey'[a])
  BY <1>2, <1>4, <1>5 DEF KeyInv, KeysMade, Minted
<1>1. KeysMade'
  BY <1>4, <1>5 DEF KeysMade
<1>3. ASSUME NEW a \in KeyIds, a # k, Minted(a)' PROVE Narrower(a)'
  <2>1. Minted(a) /\ Narrower(a) /\ apiKey'[a] = apiKey[a] /\ Allowed(a)' = Allowed(a)
    BY <1>2, <1>3 DEF KeyInv, KeysNarrow, Minted, Allowed
  <2>2. PICK m : m = apiKey[a].issuer
    OBVIOUS
  <2>3. CASE m = Root
    BY <2>1, <2>2, <2>3 DEF Narrower
  <2>4. CASE m # Root
    <3>1. m \in KeyIds /\ Minted(m) /\ apiKey[m].tenant = apiKey[a].tenant
          /\ Allowed(a) \subseteq Allowed(m)
      BY <2>1, <2>2, <2>4 DEF Narrower
    <3>2. apiKey'[m] = apiKey[m] /\ Allowed(m)' = Allowed(m) /\ Minted(m)'
      BY <1>2, <3>1 DEF Minted, Allowed
    <3> QED BY <2>1, <2>2, <3>1, <3>2 DEF Narrower
  <2> QED BY <2>3, <2>4
<1> QED BY <1>1, <1>3 DEF KeysNarrow

LEMMA FirstKeyMade ==
  ASSUME KeyInv, NEW k \in KeyIds, ~Minted(k), NEW t, NEW until,
         apiKey' = [apiKey EXCEPT ![k] = FirstKey(t, until)]
  PROVE  KeysMade' /\ KeysNarrow'
<1>1. apiKey'[k] = FirstKey(t, until)
  BY DEF KeyInv, KeysMade
<1>2. Narrower(k)'
  BY <1>1 DEF FirstKey, Narrower
<1>3. PICK r : r = FirstKey(t, until)
  OBVIOUS
<1>4. r = KeyRow(t, Root, {Wild}, until, FALSE)
  BY <1>3 DEF FirstKey, KeyRow
<1>5. IsKey(r)
  BY <1>4 DEF IsKey
<1> QED BY <1>2, <1>3, <1>5, KeyMade

LEMMA ChildMade ==
  ASSUME KeyInv, NEW parent \in KeyIds, NEW k \in KeyIds, NEW requested, NEW life,
         CreateKey(parent, k, requested, life)
  PROVE  KeysMade' /\ KeysNarrow'
<1>1. Minted(parent) /\ ~Minted(k) /\ MayRequest(parent, requested)
  BY DEF CreateKey, LetIn, Authenticates, Kept
<1>2. PICK r : r = [tenant |-> apiKey[parent].tenant, issuer |-> parent,
                    permissions |-> ChildPermissions(parent, requested), until |-> now + life,
                    revoked |-> FALSE]
  OBVIOUS
<1>3. apiKey' = [apiKey EXCEPT ![k] = r]
  BY <1>2 DEF CreateKey
<1>4. apiKey'[k] = r /\ apiKey'[parent] = apiKey[parent] /\ parent # k
  BY <1>1, <1>3 DEF KeyInv, KeysMade
<1>5. r.issuer = parent /\ r.tenant = apiKey[parent].tenant
      /\ r.permissions = ChildPermissions(parent, requested)
  BY <1>2
<1>6. Minted(parent)' /\ Allowed(parent)' = Allowed(parent)
  BY <1>1, <1>4 DEF Minted, Allowed
<1>7. ASSUME NEW p \in Routes, Grants(r.permissions, p) PROVE Grants(apiKey[parent].permissions, p)
  <2>1. CASE requested = {}
    BY <1>5, <1>7, <2>1 DEF ChildPermissions
  <2>2. CASE requested # {}
    <3>1. r.permissions = requested
      BY <1>5, <2>2 DEF ChildPermissions
    <3> QED BY <1>1, <1>7, <3>1, Inherits DEF MayRequest
  <2> QED BY <2>1, <2>2
<1>8. Allowed(k)' \subseteq Allowed(parent)
  BY <1>4, <1>7 DEF Allowed
<1>9. Narrower(k)'
  BY <1>4, <1>5, <1>6, <1>8 DEF Narrower
<1>10. r = KeyRow(apiKey[parent].tenant, parent, ChildPermissions(parent, requested), now + life, FALSE)
  BY <1>2 DEF KeyRow
<1>11. IsKey(r)
  BY <1>10 DEF IsKey
<1> QED BY <1>1, <1>3, <1>9, <1>11, KeyMade

(* Revocation.                                                             *)
Ended(r) == [r EXCEPT !.revoked = TRUE]

LEMMA EndedIs ==
  ASSUME NEW r, IsKey(r)
  PROVE  /\ IsKey(Ended(r)) /\ Ended(r).tenant = r.tenant
         /\ Ended(r).issuer = r.issuer /\ Ended(r).permissions = r.permissions
<1>1. PICK t, i, p, u, v : r = KeyRow(t, i, p, u, v)
  BY DEF IsKey
<1>2. Ended(r) = KeyRow(t, i, p, u, TRUE)
  <2>1. r = [tenant |-> t, issuer |-> i, permissions |-> p, until |-> u, revoked |-> v]
    BY <1>1 DEF KeyRow
  <2>2. [r EXCEPT !.revoked = TRUE]
          = [tenant |-> t, issuer |-> i, permissions |-> p, until |-> u, revoked |-> TRUE]
    <3> DEFINE yes == TRUE
    <3> HIDE DEF yes
    <3>1. [r EXCEPT !.revoked = yes]
            = [tenant |-> t, issuer |-> i, permissions |-> p, until |-> u, revoked |-> yes]
      BY <2>1
    <3> QED BY <3>1 DEF yes
  <2> QED BY <2>2 DEF Ended, KeyRow
<1>3. r.tenant = t /\ r.issuer = i /\ r.permissions = p
  BY <1>1 DEF KeyRow
<1>4. Ended(r).tenant = t /\ Ended(r).issuer = i /\ Ended(r).permissions = p
  BY <1>2 DEF KeyRow
<1> QED BY <1>2, <1>3, <1>4 DEF IsKey

LEMMA KeysRevoked ==
  ASSUME KeyInv, apiKey' = [k \in KeyIds |-> apiKey'[k]],
         \A k \in KeyIds : apiKey'[k] = apiKey[k] \/ (Minted(k) /\ apiKey'[k] = Ended(apiKey[k]))
  PROVE  KeysMade' /\ KeysNarrow'
<1>1. ASSUME NEW k \in KeyIds, Minted(k)
      PROVE  /\ Minted(k)' /\ IsKey(apiKey'[k]) /\ apiKey'[k].tenant = apiKey[k].tenant
             /\ apiKey'[k].issuer = apiKey[k].issuer
             /\ apiKey'[k].permissions = apiKey[k].permissions
  <2>1. IsKey(apiKey[k])
    BY <1>1 DEF KeyInv, KeysMade
  <2>2. CASE apiKey'[k] = apiKey[k]
    BY <1>1, <2>1, <2>2 DEF Minted
  <2>3. CASE apiKey'[k] = Ended(apiKey[k])
    <3>1. PICK r : r = apiKey[k]
      OBVIOUS
    <3>2. IsKey(apiKey'[k])
      BY <2>1, <2>3, <3>1, EndedIs
    <3>3. Minted(k)'
      BY <3>2, KeyIsMade DEF Minted
    <3> QED BY <2>1, <2>3, <3>1, <3>2, <3>3, EndedIs
  <2> QED BY <2>2, <2>3
<1>2. ASSUME NEW k \in KeyIds, ~Minted(k) PROVE ~Minted(k)'
  BY <1>2 DEF Minted
<1>3. SameKeys
  BY <1>1, <1>2 DEF SameKeys
<1>4. KeysMade'
  BY <1>1, <1>2 DEF KeysMade
<1> QED BY <1>3, <1>4, KeysSame

(* Processes that start and stop, and tenants that are made.               *)
LEMMA TenantsKept ==
  ASSUME KeyInv, UNCHANGED tenant
  PROVE  TenantsTyped' /\ OneProduction' /\ (SandboxLeft' <=> SandboxLeft)
BY DEF KeyInv, TenantsTyped, OneProduction, SandboxLeft

LEMMA KeysKept == ASSUME KeyInv, UNCHANGED apiKey PROVE KeysMade' /\ KeysNarrow'
<1>1. \A k \in KeyIds : Minted(k)' <=> Minted(k)
  BY DEF Minted
<1>2. KeysMade'
  BY <1>1 DEF KeyInv, KeysMade
<1>3. SameKeys
  BY <1>1 DEF SameKeys
<1> QED BY <1>2, <1>3, KeysSame

LEMMA KeyBootstrapped ==
  ASSUME KeyInv, NEW asked \in TenantIds \cup {NoTenant}, NEW t \in TenantIds, NEW k \in KeyIds,
         Bootstrap(asked, t, k)
  PROVE  KeyInv'
<1>1. tenant' = [tenant EXCEPT ![t] = "production"] /\ ~SandboxLeft /\ ~Minted(k)
  BY DEF Bootstrap
<1>2. \A u \in TenantIds : tenant'[u] = IF u = t THEN "production" ELSE tenant[u]
  BY <1>1 DEF KeyInv, TenantsTyped
<1>3. TenantsTyped'
  BY <1>1 DEF KeyInv, TenantsTyped, Modes
<1>4. \A u \in TenantIds : tenant[u] = "production" => u = t
  <2>1. CASE Untouched
    BY <2>1 DEF Untouched
  <2>2. CASE ~Untouched
    <3>1. t = asked /\ tenant[t] # "none"
      BY <2>2 DEF Bootstrap
    <3>2. tenant[t] = "production"
      BY <1>1, <3>1 DEF KeyInv, TenantsTyped, Modes, SandboxLeft
    <3> QED BY <3>2 DEF KeyInv, OneProduction
  <2> QED BY <2>1, <2>2
<1>5. OneProduction'
  BY <1>2, <1>4 DEF OneProduction
<1>6. ~SandboxLeft'
  BY <1>1, <1>2 DEF SandboxLeft
<1>7. KeysMade' /\ KeysNarrow'
  <2>1. CASE apiKey' = [apiKey EXCEPT ![k] = FirstKey(t, Forever)]
    BY <1>1, <2>1, FirstKeyMade
  <2>2. CASE UNCHANGED apiKey
    BY <2>2, KeysKept
  <2> QED BY <2>1, <2>2 DEF Bootstrap
<1> QED BY <1>3, <1>5, <1>6, <1>7 DEF KeyInv

LEMMA KeySignedUp ==
  ASSUME KeyInv, NEW t \in TenantIds, NEW k \in KeyIds, NEW life, Signup(t, k, life)
  PROVE  KeyInv'
<1>1. tenant' = [tenant EXCEPT ![t] = "sandbox"] /\ ~Minted(k) /\ runtime' = "sandbox"
  BY DEF Signup
<1>2. \A u \in TenantIds : tenant'[u] = IF u = t THEN "sandbox" ELSE tenant[u]
  BY <1>1 DEF KeyInv, TenantsTyped
<1>3. TenantsTyped'
  BY <1>1 DEF KeyInv, TenantsTyped, Modes
<1>4. OneProduction'
  BY <1>2 DEF KeyInv, OneProduction
<1>5. KeysMade' /\ KeysNarrow'
  BY <1>1, FirstKeyMade DEF Signup
<1> QED BY <1>1, <1>3, <1>4, <1>5 DEF KeyInv

LEMMA KeyStepped == ASSUME KeyInv, KeyNext PROVE KeyInv'
<1>1. CASE StartSandbox
  BY <1>1, KeysKept, TenantsKept DEF StartSandbox, KeyInv
<1>2. CASE Stop
  BY <1>2, KeysKept, TenantsKept DEF Stop, KeyInv
<1>3. ASSUME NEW asked, StartProduction(asked) PROVE KeyInv'
  BY <1>3, KeysKept, TenantsKept DEF StartProduction, KeyInv
<1>4. ASSUME NEW asked \in TenantIds \cup {NoTenant}, NEW t \in TenantIds, NEW k \in KeyIds,
             Bootstrap(asked, t, k)
      PROVE  KeyInv'
  BY <1>4, KeyBootstrapped
<1>5. ASSUME NEW k \in KeyIds, NEW t \in TenantIds, NEW life \in KeyLives, Signup(t, k, life)
      PROVE  KeyInv'
  BY <1>5, KeySignedUp
<1>6. ASSUME NEW by \in KeyIds, RevokeAll(by) PROVE KeyInv'
  <2>1. \A k \in KeyIds : apiKey'[k] = apiKey[k] \/ (Minted(k) /\ apiKey'[k] = Ended(apiKey[k]))
    BY <1>6 DEF RevokeAll, Ended
  <2>2. apiKey' = [k \in KeyIds |-> apiKey'[k]]
    BY <1>6 DEF RevokeAll
  <2>3. KeysMade' /\ KeysNarrow'
    BY <2>1, <2>2, KeysRevoked
  <2> QED BY <1>6, <2>3, TenantsKept DEF RevokeAll, KeyInv
<1>7. ASSUME NEW by \in KeyIds, NEW k \in KeyIds, RevokeKey(by, k) PROVE KeyInv'
  <2>1. apiKey' = [apiKey EXCEPT ![k] = Ended(apiKey[k])] /\ Minted(k)
    BY <1>7 DEF RevokeKey, Ended, Kept
  <2>2. \A a \in KeyIds : apiKey'[a] = apiKey[a] \/ (Minted(a) /\ apiKey'[a] = Ended(apiKey[a]))
    BY <2>1 DEF KeyInv, KeysMade
  <2>3. apiKey' = [a \in KeyIds |-> apiKey'[a]]
    BY <2>1 DEF KeyInv, KeysMade
  <2>4. KeysMade' /\ KeysNarrow'
    BY <2>2, <2>3, KeysRevoked
  <2> QED BY <1>7, <2>4, TenantsKept DEF RevokeKey, KeyInv
<1>8. ASSUME NEW parent \in KeyIds, NEW child \in KeyIds, NEW life \in KeyLives,
             NEW requested \in Requests, CreateKey(parent, child, requested, life)
      PROVE  KeyInv'
  BY <1>8, ChildMade, TenantsKept DEF CreateKey, KeyInv
<1> QED BY <1>1, <1>2, <1>3, <1>4, <1>5, <1>6, <1>7, <1>8 DEF KeyNext

LEMMA KeyIdle == ASSUME KeyInv, UNCHANGED keyVars PROVE KeyInv'
BY KeysKept, TenantsKept DEF keyVars, KeyInv

-----------------------------------------------------------------------------
(***************************************************************************)
(* The three together.                                                     *)
(***************************************************************************)
RequestsInv == now \in Nat /\ CommandInv /\ GateInv /\ KeyInv

LEMMA RequestsStep ==
  ASSUME RequestsInv, RequestsAssumption, [RequestsNext]_requestVars PROVE RequestsInv'
<1> USE DEF RequestsInv
<1>1. CASE UNCHANGED <<commandVars, gateVars, keyVars>> /\ now' \in Nat /\ now' >= now
  <2>1. CommandInv'
    BY <1>1, CommandIdle DEF commandVars
  <2>2. GateInv'
    BY <1>1, GateIdle DEF gateVars, GateInv, GateTyped
  <2>3. KeyInv'
    BY <1>1, KeyIdle
  <2> QED BY <1>1, <2>1, <2>2, <2>3
<1>2. CASE Tick /\ UNCHANGED <<commandVars, gateVars, keyVars>>
  <2>1. now' \in Nat /\ now' >= now
    BY <1>2 DEF Tick
  <2> QED BY <1>1, <1>2, <2>1
<1>3. CASE UNCHANGED requestVars
  <2>1. UNCHANGED <<commandVars, gateVars, keyVars>> /\ now' \in Nat /\ now' >= now
    BY <1>3 DEF requestVars
  <2> QED BY <1>1, <2>1
<1>4. CASE UNCHANGED now /\ CommandNext /\ UNCHANGED <<gateVars, keyVars>>
  <2>1. GateInv'
    BY <1>4, GateIdle DEF gateVars, GateInv, GateTyped
  <2> QED BY <1>4, <2>1, CommandHandled, KeyIdle
<1>5. CASE UNCHANGED now /\ GateNext /\ UNCHANGED <<commandVars, keyVars>>
  <2>1. CommandInv'
    BY <1>5, CommandIdle DEF commandVars
  <2> QED BY <1>5, <2>1, GateStepped, KeyIdle
<1>6. CASE UNCHANGED now /\ KeyNext /\ UNCHANGED <<commandVars, gateVars>>
  <2>1. CommandInv'
    BY <1>6, CommandIdle DEF commandVars
  <2>2. GateInv'
    BY <1>6, GateIdle DEF gateVars, GateInv, GateTyped
  <2> QED BY <1>6, <2>1, <2>2, KeyStepped
<1> QED BY <1>2, <1>3, <1>4, <1>5, <1>6 DEF RequestsNext

(* The inductive invariant of the request pipeline: what is kept under an  *)
(* idempotency key names the last command that ran under it, what a quota  *)
(* counted are turns of the tenant's own keys, and a key is no mightier    *)
(* than its maker (server.js, kernel.js, identity.js).                     *)
THEOREM RequestsInvariant == RequestsSpec => []RequestsInv
<1>1. RequestsInit => RequestsInv
  BY RequestsAssumption, CommandInitial, GateInitial, KeyInitial DEF RequestsInit, RequestsInv
<1>2. RequestsInv /\ [RequestsNext]_requestVars => RequestsInv'
  BY RequestsAssumption, RequestsStep
<1> QED BY <1>1, <1>2, PTL DEF RequestsSpec

(* For any number of tenants, keys, connections and processes: authority   *)
(* only narrows, nothing runs past its credential, its quota or the mode,  *)
(* and what is sent again runs once while its key is remembered            *)
(* (key-permissions.js, production-bootstrap.js, server.js).               *)
THEOREM AccessIsKept == RequestsSpec => []AccessKept
<1>1. RequestsInv => AccessKept
  BY AuthorityFollows DEF RequestsInv, CommandInv, GateInv, AccessKept
<1> QED BY <1>1, RequestsInvariant, PTL

-----------------------------------------------------------------------------
(***************************************************************************)
(* Money. What a transaction of two entries does to the books.             *)
(***************************************************************************)
LEMMA MoveIs ==
  ASSUME LedgerTypeOK, NEW n \in Int, NEW c \in Currencies,
         NEW from \in Held \cup House, NEW to \in Held \cup House, from # to,
         Move(n, c, from, to)
  PROVE  /\ LedgerTypeOK'
         /\ ledger'[<<from, c>>] = ledger[<<from, c>>] - n
         /\ ledger'[<<to, c>>] = ledger[<<to, c>>] + n
         /\ \A b \in Books : b # <<from, c>> /\ b # <<to, c>> => ledger'[b] = ledger[b]
<1>1. PICK u \in Books : u = <<from, c>>
  BY DEF Books
<1>2. PICK v \in Books : v = <<to, c>>
  BY DEF Books
<1>3. u # v
  BY <1>1, <1>2
<1>4. PICK posted : posted = Moved(n, c, from, to)
  OBVIOUS
<1>5. posted = [b \in {u, v} |-> IF b = u THEN -n ELSE n]
  BY <1>1, <1>2, <1>4 DEF Moved
<1>6. DOMAIN posted = {u, v} /\ posted[u] = -n /\ posted[v] = n
  BY <1>3, <1>5
<1>7. ledger' = [b \in Books |-> ledger[b] + IF b \in DOMAIN posted THEN posted[b] ELSE 0]
  BY <1>4 DEF Move, Post, Posted
<1>8. \A b \in Books : ledger[b] \in Int
  BY DEF LedgerTypeOK
<1>9. \A b \in Books : ledger'[b] = ledger[b] + IF b \in DOMAIN posted THEN posted[b] ELSE 0
  BY <1>7
<1>10. ledger'[u] = ledger[u] - n /\ ledger'[v] = ledger[v] + n
  BY <1>6, <1>8, <1>9
<1>11. \A b \in Books : b # u /\ b # v => ledger'[b] = ledger[b]
  BY <1>6, <1>8, <1>9
<1>12. \A b \in Books : ledger'[b] \in Int
  BY <1>8, <1>10, <1>11
<1>13. LedgerTypeOK'
  BY <1>7, <1>12 DEF LedgerTypeOK
<1> QED BY <1>1, <1>2, <1>10, <1>11, <1>13

MoneyAssumption == CustomersAssumption /\ WalletAssumption /\ InboundAssumption

(* A step that brings money from one of the bank's own books to a holder.  *)
Receives(n, c, from, to) ==
  /\ n \in Nat /\ c \in Currencies /\ from \in House /\ to \in Held
  /\ Move(n, c, from, to)

LEMMA Received ==
  ASSUME LedgerTypeOK, MoneyAssumption, NEW n, NEW c, NEW from, NEW to, Receives(n, c, from, to)
  PROVE  /\ LedgerTypeOK'
         /\ \A h \in Held, d \in Currencies : ledger'[<<h, d>>] >= ledger[<<h, d>>]
         /\ ledger'[<<from, c>>] = ledger[<<from, c>>] - n
         /\ \A h \in House, d \in Currencies :
              h # from \/ d # c => ledger'[<<h, d>>] = ledger[<<h, d>>]
<1>1. from # to /\ n \in Int /\ from \in Held \cup House /\ to \in Held \cup House /\ c \in Currencies
  BY DEF Receives, MoneyAssumption, CustomersAssumption
<1>2. /\ LedgerTypeOK' /\ ledger'[<<from, c>>] = ledger[<<from, c>>] - n
      /\ ledger'[<<to, c>>] = ledger[<<to, c>>] + n
      /\ \A b \in Books : b # <<from, c>> /\ b # <<to, c>> => ledger'[b] = ledger[b]
  BY <1>1, MoveIs DEF Receives
<1>3. ASSUME NEW h \in Held, NEW d \in Currencies PROVE ledger'[<<h, d>>] >= ledger[<<h, d>>]
  <2>1. <<h, d>> \in Books /\ h # from
    BY DEF Books, Receives, MoneyAssumption, CustomersAssumption
  <2>2. PICK b \in Books : b = <<h, d>>
    BY <2>1
  <2>3. ledger[b] \in Int /\ n \in Nat
    BY DEF LedgerTypeOK, Receives
  <2>4. b # <<from, c>>
    BY <2>1, <2>2
  <2>5. CASE b = <<to, c>>
    <3>1. ledger'[b] = ledger[b] + n
      BY <1>2, <2>5
    <3>2. ledger'[b] >= ledger[b]
      BY <2>3, <3>1
    <3> QED BY <2>2, <3>2
  <2>6. CASE b # <<to, c>>
    <3>1. ledger'[b] = ledger[b]
      BY <1>2, <2>4, <2>6
    <3>2. ledger'[b] >= ledger[b]
      BY <2>3, <3>1
    <3> QED BY <2>2, <3>2
  <2> QED BY <2>5, <2>6
<1>4. ASSUME NEW h \in House, NEW d \in Currencies, h # from \/ d # c
      PROVE  ledger'[<<h, d>>] = ledger[<<h, d>>]
  <2>1. <<h, d>> \in Books /\ h # to
    BY DEF Books, Receives, MoneyAssumption, CustomersAssumption
  <2>2. <<h, d>> # <<from, c>> /\ <<h, d>> # <<to, c>>
    BY <1>4, <2>1
  <2> QED BY <1>2, <2>1, <2>2
<1> QED BY <1>2, <1>3, <1>4

(* Money leaves a wallet.                                                  *)
LEMMA Left ==
  ASSUME LedgerTypeOK, MoneyAssumption, NEW w \in Wallets, NEW n \in Nat, Leaves(w, n)
  PROVE  /\ LedgerTypeOK'
         /\ SentBy(w) = n
         /\ \A v \in Wallets : v # w => SentBy(v) = 0
         /\ \A i \in 1 .. 2, d \in Currencies :
              ledger'[<<Inbound[i], d>>] = ledger[<<Inbound[i], d>>]
<1> DEFINE c == WalletCurrency[w]
           out == "external:wallet_send"
<1>1. c \in Currencies /\ w \in Held /\ out \in House /\ w # out
  BY DEF MoneyAssumption, CustomersAssumption, WalletAssumption
<1>2. Move(n, c, w, out)
  BY DEF Leaves
<1>3. /\ LedgerTypeOK' /\ ledger'[<<w, c>>] = ledger[<<w, c>>] - n
      /\ \A b \in Books : b # <<w, c>> /\ b # <<out, c>> => ledger'[b] = ledger[b]
  <2> HIDE DEF c, out
  <2>1. w \in Held \cup House /\ out \in Held \cup House /\ n \in Int
    BY <1>1
  <2> QED BY <1>1, <1>2, <2>1, MoveIs
<1>4. ledger[<<w, c>>] \in Int
  BY <1>1 DEF LedgerTypeOK, Books
<1>5. SentBy(w) = n
  <2>1. PICK x \in Int : x = ledger[<<w, c>>]
    BY <1>4
  <2>2. SentBy(w) = x - (x - n)
    BY <1>3, <2>1 DEF SentBy, Holds
  <2> QED BY <2>1, <2>2
<1>6. ASSUME NEW v \in Wallets, v # w PROVE SentBy(v) = 0
  <2>1. PICK b \in Books : b = <<v, WalletCurrency[v]>>
    BY DEF Books, MoneyAssumption, WalletAssumption
  <2>2. b # <<w, c>> /\ b # <<out, c>>
    BY <1>6, <2>1 DEF MoneyAssumption, CustomersAssumption, WalletAssumption
  <2>3. ledger'[b] = ledger[b] /\ ledger[b] \in Int
    BY <1>3, <2>2 DEF LedgerTypeOK
  <2>4. SentBy(v) = ledger[b] - ledger'[b]
    BY <2>1 DEF SentBy, Holds
  <2> QED BY <2>3, <2>4
<1>7. ASSUME NEW i \in 1 .. 2, NEW d \in Currencies
      PROVE  ledger'[<<Inbound[i], d>>] = ledger[<<Inbound[i], d>>]
  <2>1. Inbound[i] \in House /\ Inbound[i] # out
    BY DEF MoneyAssumption, InboundAssumption, Inbound
  <2>2. <<Inbound[i], d>> \in Books /\ Inbound[i] # w
    BY <1>1, <2>1 DEF Books, MoneyAssumption, CustomersAssumption
  <2>3. <<Inbound[i], d>> # <<w, c>> /\ <<Inbound[i], d>> # <<out, c>>
    BY <2>1, <2>2
  <2> QED BY <1>3, <2>2, <2>3
<1> QED BY <1>3, <1>5, <1>6, <1>7

-----------------------------------------------------------------------------
(***************************************************************************)
(* Customers: a simulation that waits for a confirmation is of an account, *)
(* so whatever a customer's request posts is paid in from a book of the    *)
(* bank.                                                                   *)
(***************************************************************************)
SimulationRows ==
  [of : Customers \cup Accounts \cup {NoOne},
   status : {"none", "awaiting_confirmation", "settled", "failed", "in_review",
             "compliance_hold", "completed"},
   amount : Nat]

SimulationsInv ==
  /\ simulation \in [Simulations -> SimulationRows]
  /\ \A s \in Simulations :
       simulation[s].status = "awaiting_confirmation" => simulation[s].of \in Accounts \cup {NoOne}

PaidIn == \E n \in Nat, c \in Currencies, i \in 1 .. 2, to \in Held : Receives(n, c, Funds[i], to)

LEMMA SimulationWritten ==
  ASSUME SimulationsInv, NEW s \in Simulations, NEW row \in SimulationRows,
         row.status = "awaiting_confirmation" => row.of \in Accounts \cup {NoOne},
         simulation' = [simulation EXCEPT ![s] = row]
  PROVE  SimulationsInv'
<1>1. simulation'[s] = row /\ \A t \in Simulations : t # s => simulation'[t] = simulation[t]
  BY DEF SimulationsInv
<1>2. simulation' \in [Simulations -> SimulationRows]
  BY DEF SimulationsInv
<1>3. ASSUME NEW t \in Simulations, simulation'[t].status = "awaiting_confirmation"
      PROVE  simulation'[t].of \in Accounts \cup {NoOne}
  <2>1. CASE t = s
    BY <1>1, <1>3, <2>1
  <2>2. CASE t # s
    BY <1>1, <1>3, <2>2 DEF SimulationsInv
  <2> QED BY <2>1, <2>2
<1> QED BY <1>2, <1>3 DEF SimulationsInv

LEMMA PaidToAccount ==
  ASSUME MoneyAssumption, NEW a \in Accounts, NEW n \in Nat, NEW i \in 1 .. 2,
         Move(n, CurrencyOf[a], Funds[i], a)
  PROVE  PaidIn
<1>1. CurrencyOf[a] \in Currencies /\ Funds[i] \in House /\ a \in Held
  BY DEF MoneyAssumption, CustomersAssumption, Funds
<1>2. Receives(n, CurrencyOf[a], Funds[i], a)
  BY <1>1 DEF Receives
<1> QED BY <1>1, <1>2 DEF PaidIn

LEMMA SandboxCredit ==
  ASSUME MoneyAssumption, NEW a \in Accounts \cup {NoOne}, NEW n \in Nat, NEW status,
         CreditSandboxAccount(status, a, n)
  PROVE  ledger' = ledger \/ PaidIn
<1>1. CASE status = "settled" /\ a # NoOne
  <2>1. Move(n, CurrencyOf[a], Funds[2], a) /\ a \in Accounts /\ 2 \in 1 .. 2
    BY <1>1 DEF CreditSandboxAccount
  <2> QED BY <2>1, PaidToAccount
<1>2. CASE ~(status = "settled" /\ a # NoOne)
  BY <1>2 DEF CreditSandboxAccount
<1> QED BY <1>1, <1>2

LEMMA SimulatePaymentStep ==
  ASSUME MoneyAssumption, SimulationsInv, NEW s \in Simulations, NEW a \in Accounts \cup {NoOne},
         NEW n \in Amounts, NEW status \in {"settled", "awaiting_confirmation", "failed"},
         SimulatePayment(s, status, a, n)
  PROVE  SimulationsInv' /\ (ledger' = ledger \/ PaidIn)
<1>1. n \in Nat
  BY DEF MoneyAssumption, CustomersAssumption
<1>2. PICK row : row = [of |-> a, status |-> status, amount |-> n]
  OBVIOUS
<1>3. row \in SimulationRows /\ row.of \in Accounts \cup {NoOne}
  BY <1>1, <1>2 DEF SimulationRows
<1>4. simulation' = [simulation EXCEPT ![s] = row]
  BY <1>2 DEF SimulatePayment
<1>5. SimulationsInv'
  BY <1>3, <1>4, SimulationWritten
<1>6. CreditSandboxAccount(status, a, n)
  BY DEF SimulatePayment
<1>7. ledger' = ledger \/ PaidIn
  BY <1>1, <1>6, SandboxCredit
<1> QED BY <1>5, <1>7

LEMMA AdvancePaymentStep ==
  ASSUME MoneyAssumption, SimulationsInv, NEW s \in Simulations,
         NEW status \in {"settled", "failed"}, AdvancePayment(s, status)
  PROVE  SimulationsInv' /\ (ledger' = ledger \/ PaidIn)
<1>1. PICK old \in SimulationRows : old = simulation[s]
  BY DEF SimulationsInv
<1>2. old.status = "awaiting_confirmation" /\ old.of \in Accounts \cup {NoOne} /\ old.amount \in Nat
  BY <1>1 DEF SimulationsInv, AdvancePayment, SimulationRows
<1>3. PICK row : row = [of |-> old.of, status |-> status, amount |-> old.amount]
  OBVIOUS
<1>4. row \in SimulationRows /\ row.of \in Accounts \cup {NoOne}
  BY <1>2, <1>3 DEF SimulationRows
<1>5. [old EXCEPT !.status = status] = row
  BY <1>3 DEF SimulationRows
<1>6. simulation' = [simulation EXCEPT ![s] = row]
  BY <1>1, <1>5 DEF AdvancePayment
<1>7. SimulationsInv'
  BY <1>4, <1>6, SimulationWritten
<1>8. CreditSandboxAccount(status, old.of, old.amount)
  BY <1>1 DEF AdvancePayment
<1>9. ledger' = ledger \/ PaidIn
  BY <1>2, <1>8, SandboxCredit
<1> QED BY <1>7, <1>9

LEMMA SimulateOnboardingStep ==
  ASSUME SimulationsInv, NEW s \in Simulations, NEW c \in Customers \cup {NoOne},
         NEW w \in Scenarios, SimulateOnboarding(s, w[1], w[2], c)
  PROVE  SimulationsInv' /\ ledger' = ledger
<1>1. PICK row : row = [of |-> c, status |-> w[1], amount |-> 0]
  OBVIOUS
<1>2. w[1] \in {"completed", "in_review", "compliance_hold"}
  BY DEF Scenarios
<1>3. row \in SimulationRows /\ row.status # "awaiting_confirmation"
  BY <1>1, <1>2 DEF SimulationRows
<1>4. simulation' = [simulation EXCEPT ![s] = row]
  BY <1>1 DEF SimulateOnboarding
<1>5. SimulationsInv'
  BY <1>3, <1>4, SimulationWritten
<1>6. ledger' = ledger
  BY DEF SimulateOnboarding
<1> QED BY <1>5, <1>6

LEMMA AdvanceOnboardingStep ==
  ASSUME SimulationsInv, NEW s \in Simulations, NEW d, AdvanceOnboarding(s, d)
  PROVE  SimulationsInv' /\ ledger' = ledger
<1>1. PICK old \in SimulationRows : old = simulation[s]
  BY DEF SimulationsInv
<1>2. PICK row : row = [of |-> old.of, status |-> "completed", amount |-> old.amount]
  OBVIOUS
<1>3. row \in SimulationRows /\ row.status # "awaiting_confirmation"
  BY <1>2 DEF SimulationRows
<1>4. [old EXCEPT !.status = "completed"] = row
  BY <1>2 DEF SimulationRows
<1>5. simulation' = [simulation EXCEPT ![s] = row]
  BY <1>1, <1>4 DEF AdvanceOnboarding
<1>6. SimulationsInv'
  BY <1>3, <1>5, SimulationWritten
<1>7. ledger' = ledger
  BY DEF AdvanceOnboarding
<1> QED BY <1>6, <1>7

LEMMA CustomersStep ==
  ASSUME MoneyAssumption, SimulationsInv, NEW linked,
         Onboarding(linked) \/ Banking(Accounts) \/ Simulating
  PROVE  SimulationsInv' /\ (ledger' = ledger \/ PaidIn)
<1>1. ASSUME simulation' = simulation PROVE SimulationsInv'
  BY <1>1 DEF SimulationsInv
<1>2. CASE Onboarding(linked)
  <2>1. ASSUME NEW c \in Customers,
               CreateCustomer(c) \/ DeleteCustomer(c, linked)
                 \/ \E d \in Decisions : VerifyCustomer(c, d)
        PROVE  simulation' = simulation /\ ledger' = ledger
    BY <2>1 DEF CreateCustomer, DeleteCustomer, VerifyCustomer
  <2>2. ASSUME NEW p \in Applications,
               (\E c \in Customers \cup {NoOne} : CreateApplication(p, c)) \/ SubmitApplication(p)
                 \/ \E d \in Decisions \cup {"none"} : EnhancedDueDiligence(p, d)
        PROVE  simulation' = simulation /\ ledger' = ledger
    BY <2>2 DEF CreateApplication, SubmitApplication, EnhancedDueDiligence
  <2>3. ASSUME NEW s \in Simulations,
               (\E c \in Customers \cup {NoOne}, w \in Scenarios : SimulateOnboarding(s, w[1], w[2], c))
                 \/ \E d \in Decisions : AdvanceOnboarding(s, d)
        PROVE  SimulationsInv' /\ ledger' = ledger
    BY <2>3, SimulateOnboardingStep, AdvanceOnboardingStep
  <2> QED BY <1>1, <1>2, <2>1, <2>2, <2>3 DEF Onboarding
<1>3. CASE Banking(Accounts)
  <2>1. PICK a \in Accounts : OpenAccount(a) \/ CloseAccount(a) \/ \E n \in Amounts : CreditAccount(a, n)
    BY <1>3 DEF Banking
  <2>2. simulation' = simulation
    BY <2>1 DEF OpenAccount, CloseAccount, CreditAccount, customerVars
  <2>3. ASSUME NEW n \in Amounts, CreditAccount(a, n) PROVE PaidIn
    <3>1. n \in Nat /\ 1 \in 1 .. 2 /\ Move(n, CurrencyOf[a], Funds[1], a)
      BY <2>3 DEF MoneyAssumption, CustomersAssumption, CreditAccount
    <3> QED BY <3>1, PaidToAccount
  <2>4. OpenAccount(a) \/ CloseAccount(a) => ledger' = ledger
    BY DEF OpenAccount, CloseAccount
  <2> QED BY <1>1, <2>1, <2>2, <2>3, <2>4
<1>4. CASE Simulating
  BY <1>4, SimulatePaymentStep, AdvancePaymentStep DEF Simulating
<1> QED BY <1>2, <1>3, <1>4

-----------------------------------------------------------------------------
(***************************************************************************)
(* Wallets: chains and approvals are created in the order of their ids, so *)
(* none is written over; an approval carries the steps its chain asks for, *)
(* and whoever decided it was named by that chain.                         *)
(***************************************************************************)
ChainsInv ==
  /\ chain = [h \in Chains |-> chain[h]]
  /\ \E m \in Nat : {h \in Chains : chain[h].live} = 1 .. m
  /\ \A h \in Chains : chain[h].live => chain[h].steps \in Nat

WalletRows == [live : BOOLEAN, chain : Chains \cup {NoOne}]

WalletsInv ==
  /\ wallet \in [Wallets -> WalletRows]
  /\ \A w \in Wallets :
       wallet[w].chain # NoOne => wallet[w].chain \in Chains /\ chain[wallet[w].chain].live

ApprovalRows ==
  [status : {"none", "pending", "executed", "rejected"}, wallet : Wallets \cup {NoOne},
   chain : Chains \cup {NoOne}, amount : Nat, approvedBy : SUBSET Keys, required : Nat]

UnderItsChain(row) ==
  /\ row.wallet \in Wallets
  /\ row.chain \in Chains /\ chain[row.chain].live /\ row.required = chain[row.chain].steps
  /\ chain[row.chain].approvers # {} => row.approvedBy \subseteq chain[row.chain].approvers

ApprovalsInv ==
  /\ approval \in [Approvals -> ApprovalRows]
  /\ \E m \in Nat : {x \in Approvals : approval[x].status # "none"} = 1 .. m
  /\ \A x \in Approvals : approval[x].status # "none" => UnderItsChain(approval[x])

DecisionsInv == ChainsInv /\ WalletsInv /\ ApprovalsInv

(* What a step that sends nothing owes the property.                       *)
Honoured == RightlySent /\ DecidedStays /\ ExecutedSends

LEMMA NextInLine ==
  ASSUME NEW ids, NEW taken, taken \subseteq ids, NEW m \in Nat, taken = 1 .. m, NEW n \in ids,
         n = 1 + Cardinality(taken)
  PROVE  n \notin taken /\ taken \cup {n} = 1 .. m + 1
<1>1. Cardinality(1 .. m) = m
  <2>1. 1 \in Int /\ m \in Int
    OBVIOUS
  <2>2. Cardinality(1 .. m) = IF 1 > m THEN 0 ELSE m - 1 + 1
    BY <2>1, FS_Interval
  <2> QED BY <2>2
<1>2. n = m + 1
  BY <1>1
<1> QED BY <1>2

LEMMA NobodyLoses ==
  ASSUME MoneyAssumption, LedgerTypeOK, LedgerTypeOK',
         \A h \in Held, d \in Currencies : ledger'[<<h, d>>] >= ledger[<<h, d>>]
  PROVE  RightlySent
<1>1. ASSUME NEW w \in Wallets PROVE ~(SentBy(w) > 0)
  <2>1. PICK d \in Currencies : d = WalletCurrency[w]
    BY DEF MoneyAssumption, WalletAssumption
  <2>2. w \in Held
    BY DEF MoneyAssumption, WalletAssumption
  <2>3. PICK b \in Books : b = <<w, d>>
    BY <2>2 DEF Books
  <2>4. ledger[b] \in Int /\ ledger'[b] \in Int
    BY DEF LedgerTypeOK
  <2>5. ledger'[b] >= ledger[b]
    BY <2>2, <2>3
  <2>6. SentBy(w) = ledger[b] - ledger'[b]
    BY <2>1, <2>3 DEF SentBy, Holds
  <2> QED BY <2>4, <2>5, <2>6
<1> QED BY <1>1 DEF RightlySent

LEMMA NothingSent ==
  ASSUME LedgerTypeOK, MoneyAssumption, ledger' = ledger \/ PaidIn
  PROVE  LedgerTypeOK' /\ RightlySent
<1>1. CASE ledger' = ledger
  <2>1. LedgerTypeOK'
    BY <1>1 DEF LedgerTypeOK
  <2>2. ASSUME NEW h \in Held, NEW d \in Currencies PROVE ledger'[<<h, d>>] >= ledger[<<h, d>>]
    <3>1. ledger[<<h, d>>] \in Int
      BY DEF LedgerTypeOK, Books
    <3> QED BY <1>1, <3>1
  <2> QED BY <2>1, <2>2, NobodyLoses
<1>2. CASE PaidIn
  <2>1. /\ LedgerTypeOK'
        /\ \A h \in Held, d \in Currencies : ledger'[<<h, d>>] >= ledger[<<h, d>>]
    BY <1>2, Received DEF PaidIn
  <2> QED BY <2>1, NobodyLoses
<1> QED BY <1>1, <1>2

LEMMA DecisionsKept ==
  ASSUME DecisionsInv, UNCHANGED <<wallet, chain, approval>>
  PROVE  DecisionsInv' /\ DecidedStays /\ ExecutedSends
<1>1. wallet' = wallet /\ chain' = chain /\ approval' = approval
  OBVIOUS
<1>2. ChainsInv'
  BY <1>1 DEF DecisionsInv, ChainsInv
<1>3. WalletsInv'
  BY <1>1 DEF DecisionsInv, WalletsInv
<1>4. ApprovalsInv'
  BY <1>1 DEF DecisionsInv, ApprovalsInv, UnderItsChain
<1>5. DecidedStays
  BY <1>1 DEF DecidedStays
<1>6. ExecutedSends
  BY <1>1 DEF ExecutedSends
<1> QED BY <1>2, <1>3, <1>4, <1>5, <1>6 DEF DecisionsInv

LEMMA CreateWalletStep ==
  ASSUME DecisionsInv, NEW w \in Wallets, CreateWallet(w)
  PROVE  DecisionsInv' /\ DecidedStays /\ ExecutedSends
<1>1. chain' = chain /\ approval' = approval /\ wallet' = [wallet EXCEPT ![w].live = TRUE]
  BY DEF CreateWallet
<1>2. ChainsInv'
  BY <1>1 DEF DecisionsInv, ChainsInv
<1>3. ApprovalsInv'
  BY <1>1 DEF DecisionsInv, ApprovalsInv, UnderItsChain
<1>4. DecidedStays /\ ExecutedSends
  BY <1>1 DEF DecidedStays, ExecutedSends
<1>5. PICK row : row = [wallet[w] EXCEPT !.live = TRUE]
  OBVIOUS
<1>6. wallet' = [wallet EXCEPT ![w] = row] /\ row \in WalletRows
  <2>1. PICK old \in WalletRows : old = wallet[w]
    BY DEF DecisionsInv, WalletsInv
  <2>2. row = [old EXCEPT !.live = TRUE]
    BY <1>5, <2>1
  <2>3. row \in WalletRows
    BY <2>2 DEF WalletRows
  <2> QED BY <1>1, <1>5, <2>3
<1>7. row.chain = wallet[w].chain
  <2>1. PICK old \in WalletRows : old = wallet[w]
    BY DEF DecisionsInv, WalletsInv
  <2>2. row = [old EXCEPT !.live = TRUE]
    BY <1>5, <2>1
  <2> QED BY <2>1, <2>2 DEF WalletRows
<1>8. \A v \in Wallets : wallet'[v].chain = wallet[v].chain
  BY <1>6, <1>7 DEF DecisionsInv, WalletsInv
<1>9. wallet' \in [Wallets -> WalletRows]
  BY <1>6 DEF DecisionsInv, WalletsInv
<1>10. WalletsInv'
  BY <1>1, <1>8, <1>9 DEF DecisionsInv, WalletsInv
<1> QED BY <1>2, <1>3, <1>4, <1>10 DEF DecisionsInv

LEMMA CreateChainStep ==
  ASSUME DecisionsInv, NEW h \in NextChain, NEW w \in Wallets \cup {NoOne}, NEW threshold, NEW c,
         NEW approvers, NEW steps \in Nat, CreateChain(h, w, threshold, c, approvers, steps)
  PROVE  DecisionsInv' /\ DecidedStays /\ ExecutedSends
<1>1. PICK m \in Nat : {k \in Chains : chain[k].live} = 1 .. m
  BY DEF DecisionsInv, ChainsInv
<1>2. PICK taken : taken = {k \in Chains : chain[k].live}
  OBVIOUS
<1>3. h \in Chains /\ h = 1 + Cardinality(taken) /\ taken \subseteq Chains /\ taken = 1 .. m
  BY <1>1, <1>2 DEF NextChain
<1>4. h \notin taken /\ taken \cup {h} = 1 .. m + 1
  BY <1>3, NextInLine
<1>5. PICK row : row = [live |-> TRUE, threshold |-> threshold, currency |-> c,
                        approvers |-> approvers, steps |-> steps]
  OBVIOUS
<1>6. chain' = [chain EXCEPT ![h] = row] /\ approval' = approval
  BY <1>5 DEF CreateChain
<1>7. chain'[h] = row /\ \A k \in Chains : k # h => chain'[k] = chain[k]
  BY <1>3, <1>6 DEF DecisionsInv, ChainsInv
<1>8. row.live /\ row.steps \in Nat
  BY <1>5
<1>9. \A k \in taken : chain'[k] = chain[k]
  BY <1>3, <1>4, <1>7
<1>10. \A k \in taken : k \in Chains /\ chain[k].live /\ chain'[k].live
  BY <1>2, <1>9
<1>11. ChainsInv'
  <2>1. chain' = [k \in Chains |-> chain'[k]]
    BY <1>6 DEF DecisionsInv, ChainsInv
  <2>2. \A k \in Chains : chain'[k].live <=> k \in taken \cup {h}
    BY <1>2, <1>7, <1>8
  <2>3. {k \in Chains : chain'[k].live} = taken \cup {h}
    BY <1>3, <2>2
  <2>4. m + 1 \in Nat /\ {k \in Chains : chain'[k].live} = 1 .. m + 1
    BY <1>4, <2>3
  <2>5. \A k \in Chains : chain'[k].live => chain'[k].steps \in Nat
    BY <1>7, <1>8 DEF DecisionsInv, ChainsInv
  <2> QED BY <2>1, <2>4, <2>5 DEF ChainsInv
<1>12. WalletsInv'
  <2>1. ASSUME NEW v \in Wallets, wallet[v].chain # NoOne PROVE wallet[v].chain \in taken
    BY <1>2, <2>1 DEF DecisionsInv, WalletsInv
  <2>2. CASE w = NoOne
    <3>1. wallet' = wallet
      BY <2>2 DEF CreateChain
    <3> QED BY <1>10, <2>1, <3>1 DEF DecisionsInv, WalletsInv
  <2>3. CASE w # NoOne
    <3>1. w \in Wallets /\ wallet' = [wallet EXCEPT ![w].chain = h]
      BY <2>3 DEF CreateChain
    <3>2. PICK old \in WalletRows : old = wallet[w]
      BY <3>1 DEF DecisionsInv, WalletsInv
    <3>3. PICK new : new = [old EXCEPT !.chain = h]
      OBVIOUS
    <3>8. wallet' = [wallet EXCEPT ![w] = new]
      BY <3>1, <3>2, <3>3
    <3>9. new \in WalletRows /\ new.chain = h
      BY <1>3, <3>3 DEF WalletRows
    <3>4. wallet' \in [Wallets -> WalletRows]
      BY <3>1, <3>8, <3>9 DEF DecisionsInv, WalletsInv
    <3>5. \A v \in Wallets : v # w => wallet'[v] = wallet[v]
      BY <3>1, <3>8, <3>9 DEF DecisionsInv, WalletsInv
    <3>6. wallet'[w].chain = h /\ chain'[h].live
      BY <1>7, <1>8, <3>1, <3>8, <3>9 DEF DecisionsInv, WalletsInv
    <3>7. ASSUME NEW v \in Wallets, wallet'[v].chain # NoOne
          PROVE  wallet'[v].chain \in Chains /\ chain'[wallet'[v].chain].live
      <4>1. CASE v = w
        BY <1>3, <3>6, <4>1
      <4>2. CASE v # w
        BY <1>10, <2>1, <3>5, <3>7, <4>2
      <4> QED BY <4>1, <4>2
    <3> QED BY <3>4, <3>7 DEF WalletsInv
  <2> QED BY <2>2, <2>3
<1>13. ApprovalsInv'
  <2>1. ASSUME NEW x \in Approvals, approval[x].status # "none" PROVE UnderItsChain(approval[x])'
    <3>1. PICK row1 : row1 = approval[x]
      OBVIOUS
    <3>2. UnderItsChain(row1)
      BY <2>1, <3>1 DEF DecisionsInv, ApprovalsInv
    <3>3. row1.chain \in taken
      BY <1>2, <3>2 DEF UnderItsChain
    <3>4. chain'[row1.chain] = chain[row1.chain]
      BY <1>9, <3>3
    <3>5. approval'[x] = row1
      BY <1>6, <3>1
    <3> QED BY <3>2, <3>4, <3>5 DEF UnderItsChain
  <2> QED BY <1>6, <2>1 DEF DecisionsInv, ApprovalsInv
<1>14. DecidedStays /\ ExecutedSends
  BY <1>6 DEF DecidedStays, ExecutedSends
<1> QED BY <1>11, <1>12, <1>13, <1>14 DEF DecisionsInv

(* An approval is written: a new one, or one that was pending.             *)
LEMMA ApprovalWritten ==
  ASSUME DecisionsInv, UNCHANGED <<wallet, chain>>, NEW x \in Approvals, NEW row \in ApprovalRows,
         approval[x].status = "pending" \/ x \in FirstFree(Approvals, approval),
         row.status # "none", UnderItsChain(row), approval' = [approval EXCEPT ![x] = row]
  PROVE  /\ DecisionsInv' /\ DecidedStays
         /\ approval'[x] = row /\ \A y \in Approvals : y # x => approval'[y] = approval[y]
<1>1. approval'[x] = row /\ \A y \in Approvals : y # x => approval'[y] = approval[y]
  BY DEF DecisionsInv, ApprovalsInv
<1>2. PICK m \in Nat : {y \in Approvals : approval[y].status # "none"} = 1 .. m
  BY DEF DecisionsInv, ApprovalsInv
<1>3. PICK taken : taken = {y \in Approvals : approval[y].status # "none"}
  OBVIOUS
<1>4. taken \subseteq Approvals /\ taken = 1 .. m
  BY <1>2, <1>3
<1>5. {y \in Approvals : approval'[y].status # "none"} = taken \cup {x}
  <2>1. \A y \in Approvals : approval'[y].status # "none" <=> y \in taken \cup {x}
    BY <1>1, <1>3
  <2> QED BY <1>4, <2>1
<1>6. x \notin taken => taken \cup {x} = 1 .. m + 1
  <2>1. ASSUME x \notin taken PROVE x \in FirstFree(Approvals, approval)
    BY <1>3, <2>1
  <2>2. ASSUME x \notin taken PROVE x = 1 + Cardinality(taken)
    BY <1>3, <2>1, <2>2 DEF FirstFree
  <2> QED BY <1>4, <2>2, NextInLine
<1>7. x \in taken => taken \cup {x} = 1 .. m
  BY <1>4
<1>8. \E n \in Nat : {y \in Approvals : approval'[y].status # "none"} = 1 .. n
  BY <1>5, <1>6, <1>7
<1>9. approval' \in [Approvals -> ApprovalRows]
  BY DEF DecisionsInv, ApprovalsInv
<1>10. ASSUME NEW y \in Approvals, approval'[y].status # "none" PROVE UnderItsChain(approval[y])'
  <2>1. PICK z : z = approval'[y]
    OBVIOUS
  <2>2. UnderItsChain(z)
    BY <1>1, <1>10, <2>1 DEF DecisionsInv, ApprovalsInv
  <2> QED BY <2>1, <2>2 DEF UnderItsChain
<1>11. ApprovalsInv'
  BY <1>8, <1>9, <1>10 DEF ApprovalsInv
<1>12. wallet' = wallet /\ chain' = chain
  OBVIOUS
<1>13. ChainsInv' /\ WalletsInv'
  BY <1>12 DEF DecisionsInv, ChainsInv, WalletsInv
<1>14. approval[x].status = "pending" \/ approval[x].status = "none"
  <2>1. x \in FirstFree(Approvals, approval) => x = 1 + Cardinality(taken)
    BY <1>3 DEF FirstFree
  <2>2. x = 1 + Cardinality(taken) => x \notin taken
    BY <1>4, NextInLine
  <2> QED BY <1>3, <2>1, <2>2
<1>15. DecidedStays
  BY <1>1, <1>14 DEF DecidedStays
<1> QED BY <1>1, <1>11, <1>13, <1>15 DEF DecisionsInv

LEMMA AskApprovalStep ==
  ASSUME MoneyAssumption, DecisionsInv, NEW x \in Approvals, NEW w \in Wallets, NEW n \in Amounts,
         AskApproval(x, w, n)
  PROVE  DecisionsInv' /\ DecidedStays /\ ExecutedSends
<1>1. PICK h : h = wallet[w].chain
  OBVIOUS
<1>2. h \in Chains /\ chain[h].live /\ chain[h].steps \in Nat
  BY <1>1 DEF AskApproval, Guarded, DecisionsInv, WalletsInv, ChainsInv
<1>3. PICK row : row = [status |-> "pending", wallet |-> w, chain |-> h, amount |-> n,
                        approvedBy |-> {}, required |-> chain[h].steps]
  OBVIOUS
<1>4. n \in Nat
  BY DEF MoneyAssumption, CustomersAssumption
<1>5. row \in ApprovalRows
  BY <1>2, <1>3, <1>4 DEF ApprovalRows
<1>6. row.status = "pending" /\ UnderItsChain(row)
  BY <1>2, <1>3 DEF UnderItsChain
<1>7. approval' = [approval EXCEPT ![x] = row] /\ x \in FirstFree(Approvals, approval)
  BY <1>1, <1>3 DEF AskApproval
<1>8. UNCHANGED <<wallet, chain>>
  BY DEF AskApproval
<1>9. /\ DecisionsInv' /\ DecidedStays
      /\ approval'[x] = row /\ \A y \in Approvals : y # x => approval'[y] = approval[y]
  BY <1>5, <1>6, <1>7, <1>8, ApprovalWritten
<1>10. ExecutedSends
  BY <1>6, <1>9 DEF ExecutedSends
<1> QED BY <1>9, <1>10

LEMMA RejectStep ==
  ASSUME DecisionsInv, NEW x \in Approvals, NEW k, Reject(x, k)
  PROVE  DecisionsInv' /\ DecidedStays /\ ExecutedSends
<1>1. PICK old \in ApprovalRows : old = approval[x]
  BY DEF DecisionsInv, ApprovalsInv
<1>2. old.status = "pending" /\ UnderItsChain(old)
  BY <1>1 DEF Reject, Pending, DecisionsInv, ApprovalsInv
<1>3. PICK row : row = [old EXCEPT !.status = "rejected"]
  OBVIOUS
<1>4. row \in ApprovalRows /\ row.status = "rejected"
  BY <1>3 DEF ApprovalRows
<1>5. /\ row.wallet = old.wallet /\ row.chain = old.chain
      /\ row.required = old.required /\ row.approvedBy = old.approvedBy
  BY <1>3 DEF ApprovalRows
<1>6. UnderItsChain(row)
  BY <1>2, <1>5 DEF UnderItsChain
<1>7. approval' = [approval EXCEPT ![x] = row] /\ approval[x].status = "pending"
  BY <1>1, <1>2, <1>3 DEF Reject
<1>8. UNCHANGED <<wallet, chain>>
  BY DEF Reject
<1>9. /\ DecisionsInv' /\ DecidedStays
      /\ approval'[x] = row /\ \A y \in Approvals : y # x => approval'[y] = approval[y]
  BY <1>4, <1>6, <1>7, <1>8, ApprovalWritten
<1>10. ExecutedSends
  BY <1>4, <1>9 DEF ExecutedSends
<1> QED BY <1>9, <1>10

LEMMA ApproveStep ==
  ASSUME LedgerTypeOK, MoneyAssumption, DecisionsInv, NEW x \in Approvals, NEW k \in Keys, Approve(x, k)
  PROVE  /\ LedgerTypeOK' /\ DecisionsInv' /\ Honoured
         /\ \A i \in 1 .. 2, d \in Currencies :
              ledger'[<<Inbound[i], d>>] = ledger[<<Inbound[i], d>>]
<1>1. PICK old \in ApprovalRows : old = approval[x]
  BY DEF DecisionsInv, ApprovalsInv
<1>2. old.status = "pending" /\ UnderItsChain(old)
  BY <1>1 DEF Approve, Pending, DecisionsInv, ApprovalsInv
<1>3. PICK by : by = old.approvedBy \cup {k}
  OBVIOUS
<1>4. PICK approvers : approvers = chain[old.chain].approvers
  OBVIOUS
<1>5. approvers # {} => by \subseteq approvers
  BY <1>1, <1>2, <1>3, <1>4 DEF Approve, MayDecide, UnderItsChain
<1>6. by \in SUBSET Keys
  BY <1>3 DEF ApprovalRows
<1>7. UNCHANGED <<wallet, chain>>
  BY DEF Approve
<1>8. old.wallet \in Wallets /\ old.amount \in Nat /\ old.required = chain[old.chain].steps
  BY <1>2 DEF UnderItsChain, ApprovalRows
<1>9. CASE Cardinality(by) >= old.required
  <2>1. Leaves(old.wallet, old.amount)
    BY <1>1, <1>3, <1>9 DEF Approve
  <2>2. PICK row : row = [old EXCEPT !.approvedBy = by, !.status = "executed"]
    OBVIOUS
  <2>3. row \in ApprovalRows /\ row.status = "executed"
    BY <1>6, <2>2 DEF ApprovalRows
  <2>4. /\ row.wallet = old.wallet /\ row.chain = old.chain
        /\ row.required = old.required /\ row.approvedBy = by
    BY <2>2 DEF ApprovalRows
  <2>5. UnderItsChain(row)
    BY <1>2, <1>4, <1>5, <2>4 DEF UnderItsChain
  <2>6. approval' = [approval EXCEPT ![x] = row] /\ approval[x].status = "pending"
    BY <1>1, <1>2, <1>3, <1>9, <2>2 DEF Approve
  <2>7. /\ DecisionsInv' /\ DecidedStays
        /\ approval'[x] = row /\ \A y \in Approvals : y # x => approval'[y] = approval[y]
    BY <1>7, <2>3, <2>5, <2>6, ApprovalWritten
  <2>8. PICK w \in Wallets, n \in Nat : w = old.wallet /\ n = old.amount
    BY <1>8
  <2>9. /\ LedgerTypeOK' /\ SentBy(w) = n
        /\ \A v \in Wallets : v # w => SentBy(v) = 0
        /\ \A i \in 1 .. 2, d \in Currencies :
             ledger'[<<Inbound[i], d>>] = ledger[<<Inbound[i], d>>]
    BY <2>1, <2>8, Left
  <2>10. Executed(x, w, n)
    BY <1>1, <1>2, <1>4, <1>5, <1>8, <1>9, <2>3, <2>4, <2>7, <2>8 DEF Executed
  <2>11. RightlySent
    BY <2>9, <2>10 DEF RightlySent
  <2>12. ExecutedSends
    BY <1>1, <2>7, <2>8, <2>9 DEF ExecutedSends
  <2> QED BY <2>7, <2>9, <2>11, <2>12 DEF Honoured
<1>10. CASE ~(Cardinality(by) >= old.required)
  <2>1. ledger' = ledger
    BY <1>1, <1>3, <1>10 DEF Approve
  <2>2. PICK row : row = [old EXCEPT !.approvedBy = by]
    OBVIOUS
  <2>3. row \in ApprovalRows /\ row.status = "pending"
    BY <1>2, <1>6, <2>2 DEF ApprovalRows
  <2>4. /\ row.wallet = old.wallet /\ row.chain = old.chain
        /\ row.required = old.required /\ row.approvedBy = by
    BY <2>2 DEF ApprovalRows
  <2>5. UnderItsChain(row)
    BY <1>2, <1>4, <1>5, <2>4 DEF UnderItsChain
  <2>6. approval' = [approval EXCEPT ![x] = row] /\ approval[x].status = "pending"
    BY <1>1, <1>2, <1>3, <1>10, <2>2 DEF Approve
  <2>7. /\ DecisionsInv' /\ DecidedStays
        /\ approval'[x] = row /\ \A y \in Approvals : y # x => approval'[y] = approval[y]
    BY <1>7, <2>3, <2>5, <2>6, ApprovalWritten
  <2>8. LedgerTypeOK' /\ RightlySent
    BY <2>1, NothingSent
  <2>9. ExecutedSends
    BY <2>3, <2>7 DEF ExecutedSends
  <2> QED BY <2>1, <2>7, <2>8, <2>9 DEF Honoured
<1> QED BY <1>9, <1>10

(* The books of what came from outside, and the evidence for it, stay.     *)
OutsideStays ==
  \A i \in 1 .. 2, d \in Currencies : ledger'[<<Inbound[i], d>>] = ledger[<<Inbound[i], d>>]

LEMMA OutsideBooks ==
  ASSUME MoneyAssumption
  PROVE  \A i \in 1 .. 2 : Inbound[i] \in House
BY DEF MoneyAssumption, InboundAssumption, Inbound

LEMMA PaidInFromTheBank ==
  ASSUME LedgerTypeOK, MoneyAssumption, ledger' = ledger \/ PaidIn
  PROVE  OutsideStays
<1>1. ASSUME NEW n \in Nat, NEW c \in Currencies, NEW j \in 1 .. 2, NEW to \in Held,
             Receives(n, c, Funds[j], to)
      PROVE  OutsideStays
  <2>1. PICK fund : fund = Funds[j]
    OBVIOUS
  <2>2. \A i \in 1 .. 2 : Inbound[i] # fund
    BY <2>1 DEF Inbound, Funds
  <2>3. Receives(n, c, fund, to)
    BY <1>1, <2>1
  <2>4. \A h \in House, d \in Currencies : h # fund \/ d # c => ledger'[<<h, d>>] = ledger[<<h, d>>]
    BY <2>3, Received
  <2> QED BY <2>2, <2>4, OutsideBooks DEF OutsideStays
<1> QED BY <1>1 DEF PaidIn, OutsideStays

LEMMA CreditWalletStep ==
  ASSUME LedgerTypeOK, MoneyAssumption, DecisionsInv, NEW w \in Wallets, NEW n \in Amounts,
         CreditWallet(w, n)
  PROVE  LedgerTypeOK' /\ DecisionsInv' /\ Honoured /\ OutsideStays
<1>1. UNCHANGED <<wallet, chain, approval>>
  BY DEF CreditWallet, walletVars
<1>2. PICK c \in Currencies : c = WalletCurrency[w]
  BY DEF MoneyAssumption, WalletAssumption
<1>3. PICK from \in House : from = "sandbox:wallet_funding"
  BY DEF MoneyAssumption, WalletAssumption
<1>4. n \in Nat /\ w \in Held
  BY DEF MoneyAssumption, CustomersAssumption, WalletAssumption
<1>5. Receives(n, c, from, w)
  BY <1>2, <1>3, <1>4 DEF Receives, CreditWallet
<1>6. /\ LedgerTypeOK'
      /\ \A h \in Held, d \in Currencies : ledger'[<<h, d>>] >= ledger[<<h, d>>]
      /\ \A h \in House, d \in Currencies : h # from \/ d # c => ledger'[<<h, d>>] = ledger[<<h, d>>]
  BY <1>5, Received
<1>7. OutsideStays
  <2>1. \A i \in 1 .. 2 : Inbound[i] \in House /\ Inbound[i] # from
    BY <1>3 DEF MoneyAssumption, InboundAssumption, Inbound
  <2> QED BY <1>6, <2>1 DEF OutsideStays
<1>8. RightlySent
  BY <1>6, NobodyLoses
<1>9. DecisionsInv' /\ DecidedStays /\ ExecutedSends
  BY <1>1, DecisionsKept
<1> QED BY <1>6, <1>7, <1>8, <1>9 DEF Honoured

LEMMA SendNowStep ==
  ASSUME LedgerTypeOK, MoneyAssumption, DecisionsInv, NEW w \in Wallets, NEW n \in Amounts,
         SendNow(w, n)
  PROVE  LedgerTypeOK' /\ DecisionsInv' /\ Honoured /\ OutsideStays
<1>1. UNCHANGED <<wallet, chain, approval>>
  BY DEF SendNow, walletVars
<1>2. n \in Nat /\ Leaves(w, n) /\ ~Guarded(w, n)
  BY DEF MoneyAssumption, CustomersAssumption, SendNow
<1>3. /\ LedgerTypeOK' /\ SentBy(w) = n
      /\ \A v \in Wallets : v # w => SentBy(v) = 0
      /\ \A i \in 1 .. 2, d \in Currencies :
           ledger'[<<Inbound[i], d>>] = ledger[<<Inbound[i], d>>]
  BY <1>2, Left
<1>4. RightlySent
  BY <1>2, <1>3 DEF RightlySent
<1>5. DecisionsInv' /\ DecidedStays /\ ExecutedSends
  BY <1>1, DecisionsKept
<1> QED BY <1>3, <1>4, <1>5 DEF Honoured, OutsideStays

LEMMA StillLedger ==
  ASSUME LedgerTypeOK, MoneyAssumption, ledger' = ledger,
         DecisionsInv' /\ DecidedStays /\ ExecutedSends
  PROVE  LedgerTypeOK' /\ DecisionsInv' /\ Honoured /\ OutsideStays
BY NothingSent, PaidInFromTheBank DEF Honoured

LEMMA WalletStep ==
  ASSUME LedgerTypeOK, MoneyAssumption, DecisionsInv, WalletNext
  PROVE  LedgerTypeOK' /\ DecisionsInv' /\ Honoured /\ OutsideStays
<1>1. ASSUME NEW w \in Wallets, CreateWallet(w)
      PROVE  LedgerTypeOK' /\ DecisionsInv' /\ Honoured /\ OutsideStays
  <2>1. ledger' = ledger /\ DecisionsInv' /\ DecidedStays /\ ExecutedSends
    BY <1>1, CreateWalletStep DEF CreateWallet
  <2> QED BY <2>1, StillLedger
<1>2. ASSUME NEW w \in Wallets, NEW n \in Amounts, CreditWallet(w, n) \/ SendNow(w, n)
      PROVE  LedgerTypeOK' /\ DecisionsInv' /\ Honoured /\ OutsideStays
  BY <1>2, CreditWalletStep, SendNowStep
<1>3. ASSUME NEW w \in Wallets, NEW n \in Amounts, NEW x \in Approvals, AskApproval(x, w, n)
      PROVE  LedgerTypeOK' /\ DecisionsInv' /\ Honoured /\ OutsideStays
  <2>1. ledger' = ledger /\ DecisionsInv' /\ DecidedStays /\ ExecutedSends
    BY <1>3, AskApprovalStep DEF AskApproval
  <2> QED BY <2>1, StillLedger
<1>4. ASSUME NEW h \in NextChain, NEW w \in Wallets \cup {NoOne}, NEW from, NEW approvers,
             NEW steps \in 1 .. Cardinality(Keys), CreateChain(h, w, from[1], from[2], approvers, steps)
      PROVE  LedgerTypeOK' /\ DecisionsInv' /\ Honoured /\ OutsideStays
  <2>1. PICK threshold, c : threshold = from[1] /\ c = from[2]
    OBVIOUS
  <2>2. CreateChain(h, w, threshold, c, approvers, steps) /\ steps \in Nat
    BY <1>4, <2>1
  <2>3. ledger' = ledger /\ DecisionsInv' /\ DecidedStays /\ ExecutedSends
    BY <2>2, CreateChainStep DEF CreateChain
  <2> QED BY <2>3, StillLedger
<1>5. ASSUME NEW x \in Approvals, NEW k \in Keys, Approve(x, k)
      PROVE  LedgerTypeOK' /\ DecisionsInv' /\ Honoured /\ OutsideStays
  BY <1>5, ApproveStep DEF OutsideStays
<1>6. ASSUME NEW x \in Approvals, NEW k \in Keys, Reject(x, k)
      PROVE  LedgerTypeOK' /\ DecisionsInv' /\ Honoured /\ OutsideStays
  <2>1. ledger' = ledger /\ DecisionsInv' /\ DecidedStays /\ ExecutedSends
    BY <1>6, RejectStep DEF Reject
  <2> QED BY <2>1, StillLedger
<1>7. ASSUME UNCHANGED <<ledger, wallet, chain, approval>>
      PROVE  LedgerTypeOK' /\ DecisionsInv' /\ Honoured /\ OutsideStays
  <2>1. ledger' = ledger /\ DecisionsInv' /\ DecidedStays /\ ExecutedSends
    BY <1>7, DecisionsKept
  <2> QED BY <2>1, StillLedger
<1>8. \A k \in Keys : KeyEnds(k) => UNCHANGED <<ledger, wallet, chain, approval>>
  BY DEF KeyEnds
<1> QED BY <1>1, <1>2, <1>3, <1>4, <1>5, <1>6, <1>7, <1>8 DEF WalletNext

LEMMA WalletLeavesCustomers ==
  ASSUME WalletNext
  PROVE  UNCHANGED customerVars
BY DEF WalletNext, CreateWallet, CreditWallet, SendNow, AskApproval, CreateChain, Approve, Reject,
       KeyEnds, PolicyNext

-----------------------------------------------------------------------------
(***************************************************************************)
(* What came from outside.                                                 *)
(***************************************************************************)
LEMMA InboundKept ==
  ASSUME CreditedOnce, OutsideStays, inbound' = inbound
  PROVE  CreditedOnce'
<1>1. Applied' = Applied
  BY DEF Applied
<1>2. SettledOnce'
  BY <1>1 DEF CreditedOnce, SettledOnce
<1>3. ASSUME NEW c \in Currencies, NEW i \in 1 .. 2
      PROVE  (-Holds(Inbound[i], c) = SumFunctionOnSet([id \in EventIds |-> Brought(id, i, c)], EventIds))'
  <2>1. PICK f : f = [id \in EventIds |-> Brought(id, i, c)]
    OBVIOUS
  <2>2. \A id \in EventIds : Brought(id, i, c)' = Brought(id, i, c)
    BY <1>1 DEF Brought
  <2>3. [id \in EventIds |-> Brought(id, i, c)]' = f
    BY <2>1, <2>2
  <2>4. -Holds(Inbound[i], c) = SumFunctionOnSet(f, EventIds)
    BY <2>1 DEF CreditedOnce
  <2>5. Holds(Inbound[i], c)' = Holds(Inbound[i], c)
    BY DEF OutsideStays, Holds
  <2> QED BY <2>3, <2>4, <2>5
<1> QED BY <1>2, <1>3 DEF CreditedOnce

LEMMA ApplyInboundStep ==
  ASSUME LedgerTypeOK, MoneyAssumption, InboundTypeOK, CreditedOnce, NEW id \in EventIds,
         NEW e \in Evidence, ApplyInbound(id, e)
  PROVE  LedgerTypeOK' /\ InboundTypeOK' /\ CreditedOnce' /\ RightlySent
<1>1. PICK n \in Nat, cur \in Currencies, j \in 1 .. 2, to \in Held :
        n = e.amount /\ cur = e.currency /\ Inbound[j] = From(e) /\ to = e.resource
  <2>1. e.amount \in Nat /\ e.currency \in Currencies /\ e.resource \in Held
    BY DEF Evidence, MoneyAssumption, InboundAssumption, CustomersAssumption, WalletAssumption
  <2>2. \E j \in 1 .. 2 : Inbound[j] = From(e)
    BY DEF From
  <2> QED BY <2>1, <2>2
<1>2. PICK from : from = Inbound[j] /\ from = From(e)
  BY <1>1
<1>3. Receives(n, cur, from, to)
  <2>1. from \in House
    BY <1>2, OutsideBooks
  <2>2. Move(n, cur, from, to)
    BY <1>1, <1>2 DEF ApplyInbound
  <2> QED BY <2>1, <2>2 DEF Receives
<1>4. /\ LedgerTypeOK'
      /\ \A h \in Held, d \in Currencies : ledger'[<<h, d>>] >= ledger[<<h, d>>]
      /\ ledger'[<<from, cur>>] = ledger[<<from, cur>>] - n
      /\ \A h \in House, d \in Currencies : h # from \/ d # cur => ledger'[<<h, d>>] = ledger[<<h, d>>]
  BY <1>3, Received
<1>5. inbound' = [inbound EXCEPT ![id] = e]
  BY DEF ApplyInbound
<1>6. inbound'[id] = e /\ \A other \in EventIds : other # id => inbound'[other] = inbound[other]
  BY <1>5 DEF InboundTypeOK
<1>7. InboundTypeOK'
  BY <1>5 DEF InboundTypeOK
<1>8. inbound[id] = NotApplied
  BY DEF ApplyInbound, Fresh
<1>9. e # NotApplied
  BY DEF Evidence, NotApplied
<1>10. Applied' = Applied \cup {id} /\ id \notin Applied
  BY <1>6, <1>8, <1>9 DEF Applied
<1>11. SettledOnce'
  <2>1. \A other \in Applied : SettlementKey(inbound[other]) # SettlementKey(e)
    BY DEF ApplyInbound, Fresh
  <2>2. \A other \in Applied : other \in EventIds /\ other # id
    BY <1>10 DEF Applied
  <2>3. ASSUME NEW one \in Applied \cup {id}, NEW two \in Applied \cup {id},
               SettlementKey(inbound'[one]) = SettlementKey(inbound'[two])
        PROVE  one = two
    <3>1. CASE one = id /\ two # id
      BY <1>6, <2>1, <2>2, <2>3, <3>1
    <3>2. CASE one # id /\ two = id
      BY <1>6, <2>1, <2>2, <2>3, <3>2
    <3>3. CASE one # id /\ two # id
      <4>1. inbound'[one] = inbound[one] /\ inbound'[two] = inbound[two]
        BY <1>6, <2>2, <3>3
      <4> QED BY <2>3, <3>3, <4>1 DEF CreditedOnce, SettledOnce
    <3> QED BY <3>1, <3>2, <3>3
  <2> QED BY <1>10, <2>3 DEF SettledOnce, SettlementKey, TypeOf
<1>12. ASSUME NEW c \in Currencies, NEW i \in 1 .. 2
       PROVE  (-Holds(Inbound[i], c) = SumFunctionOnSet([x \in EventIds |-> Brought(x, i, c)], EventIds))'
  <2>1. PICK f : f = [x \in EventIds |-> Brought(x, i, c)]
    OBVIOUS
  <2>2. PICK g : g = [x \in EventIds |-> Brought(x, i, c)']
    OBVIOUS
  <2>3. \A x \in EventIds : f[x] = Brought(x, i, c) /\ g[x] = Brought(x, i, c)'
    BY <2>1, <2>2
  <2>4. \A x \in EventIds : f[x] \in Int
    <3>1. ASSUME NEW x \in Applied PROVE inbound[x].amount \in Nat
      BY DEF Applied, InboundTypeOK, Evidence, MoneyAssumption, InboundAssumption
    <3> QED BY <2>3, <3>1 DEF Brought
  <2>5. \A x \in EventIds : x # id => g[x] = f[x]
    BY <1>6, <1>10, <2>3 DEF Brought
  <2>6. f[id] = 0
    BY <1>10, <2>3 DEF Brought
  <2>7. g[id] = IF c = cur /\ Inbound[i] = from THEN n ELSE 0
    <3>1. g[id] = IF inbound'[id].currency = c /\ From(inbound'[id]) = Inbound[i]
                  THEN inbound'[id].amount ELSE 0
      BY <1>10, <2>3 DEF Brought, From
    <3> QED BY <1>1, <1>2, <1>6, <3>1
  <2>8. IsFiniteSet(EventIds) /\ g[id] \in Int
    BY <2>7 DEF MoneyAssumption, InboundAssumption
  <2>9. SumFunctionOnSet(g, EventIds) = SumFunctionOnSet(f, EventIds) + g[id] - f[id]
    BY <2>4, <2>5, <2>8, SumChange
  <2>10. SumFunctionOnSet(f, EventIds) \in Int
    BY <2>4, <2>8, SumIsInteger
  <2>11. PICK b \in Books : b = <<Inbound[i], c>>
    BY OutsideBooks DEF Books
  <2>12. -ledger[b] = SumFunctionOnSet(f, EventIds)
    BY <2>1, <2>11 DEF CreditedOnce, Holds
  <2>13. ledger'[b] = ledger[b] - g[id]
    <3>1. ledger[b] \in Int
      BY DEF LedgerTypeOK
    <3>2. CASE c = cur /\ Inbound[i] = from
      <4>1. ledger'[b] = ledger[b] - n
        BY <1>4, <2>11, <3>2
      <4> QED BY <2>7, <3>2, <4>1
    <3>3. CASE ~(c = cur /\ Inbound[i] = from)
      <4>1. Inbound[i] \in House
        BY DEF MoneyAssumption, InboundAssumption, Inbound
      <4>2. ledger'[b] = ledger[b]
        BY <1>4, <2>11, <3>3, <4>1
      <4>3. g[id] = 0
        BY <2>7, <3>3
      <4> QED BY <3>1, <4>2, <4>3
    <3> QED BY <3>2, <3>3
  <2>14. -ledger'[b] = SumFunctionOnSet(g, EventIds)
    <3>1. ledger[b] \in Int /\ ledger'[b] \in Int
      BY <1>4 DEF LedgerTypeOK
    <3> QED BY <2>6, <2>8, <2>9, <2>10, <2>12, <2>13, <3>1
  <2>15. Holds(Inbound[i], c)' = ledger'[b]
    BY <2>11 DEF Holds, Inbound
  <2> QED BY <2>2, <2>14, <2>15
<1>13. CreditedOnce'
  BY <1>11, <1>12 DEF CreditedOnce
<1>14. RightlySent
  BY <1>4, NobodyLoses
<1> QED BY <1>4, <1>7, <1>13, <1>14

MoneyInv == LedgerTypeOK /\ SimulationsInv /\ DecisionsInv /\ InboundTypeOK /\ CreditedOnce

LEMMA MoneyAssumed == MoneyAssumption
BY CustomersAssumption, WalletAssumption, InboundAssumption DEF MoneyAssumption

LEMMA MoneyStarts ==
  ASSUME MoneyInit
  PROVE  MoneyInv
<1>1. LedgerTypeOK
  BY DEF MoneyInit, LedgerInit, LedgerTypeOK
<1>2. SimulationsInv
  <2>1. simulation = [s \in Simulations |-> [of |-> NoOne, status |-> "none", amount |-> 0]]
    BY DEF MoneyInit, CustomerInit
  <2> QED BY <2>1 DEF SimulationsInv, SimulationRows
<1>3. ChainsInv
  <2>1. chain = [h \in Chains |->
          [live |-> FALSE, threshold |-> 0, currency |-> AnyCurrency, approvers |-> {}, steps |-> 0]]
    BY DEF MoneyInit, WalletInit
  <2>2. \A h \in Chains : ~chain[h].live
    BY <2>1
  <2>3. {h \in Chains : chain[h].live} = 1 .. 0
    BY <2>2
  <2> QED BY <2>1, <2>2, <2>3 DEF ChainsInv
<1>4. WalletsInv
  <2>1. wallet = [w \in Wallets |-> [live |-> FALSE, chain |-> NoOne]]
    BY DEF MoneyInit, WalletInit
  <2> QED BY <2>1 DEF WalletsInv, WalletRows
<1>5. ApprovalsInv
  <2>1. approval = [x \in Approvals |-> [status |-> "none", wallet |-> NoOne, chain |-> NoOne,
                                         amount |-> 0, approvedBy |-> {}, required |-> 0]]
    BY DEF MoneyInit, WalletInit
  <2>2. \A x \in Approvals : approval[x].status = "none"
    BY <2>1
  <2>3. {x \in Approvals : approval[x].status # "none"} = 1 .. 0
    BY <2>2
  <2>4. approval \in [Approvals -> ApprovalRows]
    BY <2>1 DEF ApprovalRows
  <2> QED BY <2>2, <2>3, <2>4 DEF ApprovalsInv
<1>6. InboundTypeOK
  BY DEF MoneyInit, InboundInit, InboundTypeOK
<1>7. CreditedOnce
  <2>1. Applied = {}
    BY DEF MoneyInit, InboundInit, Applied
  <2>2. SettledOnce
    BY <2>1 DEF SettledOnce
  <2>3. ASSUME NEW c \in Currencies, NEW i \in 1 .. 2
        PROVE  -Holds(Inbound[i], c) = SumFunctionOnSet([id \in EventIds |-> Brought(id, i, c)], EventIds)
    <3>1. PICK f : f = [id \in EventIds |-> Brought(id, i, c)]
      OBVIOUS
    <3>2. \A id \in EventIds : f[id] = 0
      BY <2>1, <3>1 DEF Brought
    <3>3. IsFiniteSet(EventIds)
      BY MoneyAssumed DEF MoneyAssumption, InboundAssumption
    <3>4. SumFunctionOnSet(f, EventIds) = 0
      BY <3>2, <3>3, SumZero
    <3>5. <<Inbound[i], c>> \in Books
      BY MoneyAssumed, OutsideBooks DEF Books
    <3>6. PICK b \in Books : b = <<Inbound[i], c>>
      BY <3>5
    <3>7. ledger[b] = 0
      BY DEF MoneyInit, LedgerInit
    <3>8. PICK held \in Int, brought \in Int :
            held = Holds(Inbound[i], c) /\ brought = SumFunctionOnSet(f, EventIds) /\ held + brought = 0
      BY <3>4, <3>6, <3>7 DEF Holds
    <3>9. -held = brought
      BY <3>8
    <3> QED BY <3>1, <3>8, <3>9
  <2> QED BY <2>2, <2>3 DEF CreditedOnce
<1> QED BY <1>1, <1>2, <1>3, <1>4, <1>5, <1>6, <1>7 DEF MoneyInv, DecisionsInv

LEMMA MoneyStep ==
  ASSUME MoneyInv, MoneyNext
  PROVE  MoneyInv' /\ Honoured
<1> USE MoneyAssumed
<1>1. LedgerTypeOK /\ SimulationsInv /\ DecisionsInv /\ InboundTypeOK /\ CreditedOnce
  BY DEF MoneyInv
<1>2. CASE (Onboarding(WalletHolders) \/ Banking(Accounts) \/ Simulating) /\ UNCHANGED <<walletVars, inbound>>
  <2>1. UNCHANGED <<wallet, chain, approval>> /\ inbound' = inbound
    BY <1>2 DEF walletVars
  <2>2. PICK linked : linked = WalletHolders
    OBVIOUS
  <2>3. Onboarding(linked) \/ Banking(Accounts) \/ Simulating
    BY <1>2, <2>2
  <2>4. SimulationsInv' /\ (ledger' = ledger \/ PaidIn)
    BY <1>1, <2>3, CustomersStep
  <2>5. LedgerTypeOK' /\ RightlySent
    BY <1>1, <2>4, NothingSent
  <2>6. DecisionsInv' /\ DecidedStays /\ ExecutedSends
    BY <1>1, <2>1, DecisionsKept
  <2>7. OutsideStays
    BY <1>1, <2>4, PaidInFromTheBank
  <2>8. CreditedOnce'
    BY <1>1, <2>1, <2>7, InboundKept
  <2>9. InboundTypeOK'
    BY <1>1, <2>1 DEF InboundTypeOK
  <2> QED BY <2>4, <2>5, <2>6, <2>8, <2>9 DEF MoneyInv, Honoured
<1>3. CASE WalletNext /\ UNCHANGED inbound
  <2>1. LedgerTypeOK' /\ DecisionsInv' /\ Honoured /\ OutsideStays
    BY <1>1, <1>3, WalletStep
  <2>2. inbound' = inbound
    BY <1>3
  <2>3. CreditedOnce'
    BY <1>1, <2>1, <2>2, InboundKept
  <2>4. InboundTypeOK'
    BY <1>1, <2>2 DEF InboundTypeOK
  <2>5. simulation' = simulation
    BY <1>3, WalletLeavesCustomers DEF customerVars
  <2>6. SimulationsInv'
    BY <1>1, <2>5 DEF SimulationsInv
  <2> QED BY <2>1, <2>3, <2>4, <2>6 DEF MoneyInv
<1>4. CASE InboundNext
  <2>1. PICK id \in EventIds, e \in Evidence : ApplyInbound(id, e)
    BY <1>4 DEF InboundNext
  <2>2. UNCHANGED <<wallet, chain, approval>> /\ simulation' = simulation
    BY <2>1 DEF ApplyInbound, walletVars, customerVars
  <2>3. LedgerTypeOK' /\ InboundTypeOK' /\ CreditedOnce' /\ RightlySent
    BY <1>1, <2>1, ApplyInboundStep
  <2>4. DecisionsInv' /\ DecidedStays /\ ExecutedSends
    BY <1>1, <2>2, DecisionsKept
  <2>5. SimulationsInv'
    BY <1>1, <2>2 DEF SimulationsInv
  <2> QED BY <2>3, <2>4, <2>5 DEF MoneyInv, Honoured
<1> QED BY <1>2, <1>3, <1>4 DEF MoneyNext

LEMMA MoneyRests ==
  ASSUME MoneyInv, UNCHANGED moneyVars
  PROVE  MoneyInv'
<1> USE MoneyAssumed
<1>1. LedgerTypeOK /\ SimulationsInv /\ DecisionsInv /\ InboundTypeOK /\ CreditedOnce
  BY DEF MoneyInv
<1>2. ledger' = ledger /\ simulation' = simulation /\ inbound' = inbound
  BY DEF moneyVars, customerVars
<1>3. UNCHANGED <<wallet, chain, approval>>
  BY DEF moneyVars, walletVars
<1>4. LedgerTypeOK'
  BY <1>1, <1>2, NothingSent
<1>5. DecisionsInv'
  BY <1>1, <1>3, DecisionsKept
<1>6. OutsideStays
  BY <1>1, <1>2, PaidInFromTheBank
<1>7. CreditedOnce'
  BY <1>1, <1>2, <1>6, InboundKept
<1>8. SimulationsInv'
  BY <1>1, <1>2 DEF SimulationsInv
<1>9. InboundTypeOK'
  BY <1>1, <1>2 DEF InboundTypeOK
<1> QED BY <1>4, <1>5, <1>7, <1>8, <1>9 DEF MoneyInv

(* The inductive invariant of the money of accounts and wallets.           *)
THEOREM MoneyInvariant == MoneySpec => []MoneyInv
<1>1. MoneyInit => MoneyInv
  BY MoneyStarts
<1>2. MoneyInv /\ [MoneyNext]_moneyVars => MoneyInv'
  BY MoneyStep, MoneyRests
<1> QED BY <1>1, <1>2, PTL DEF MoneySpec

(* Whatever ids, orders and repetitions settlements arrive in, each is     *)
(* credited once, and what the books say came from outside is what the     *)
(* applied settlements say (provider-inbound.js).                          *)
THEOREM SettlementsCreditedOnce == MoneySpec => []CreditedOnce
<1>1. MoneyInv => CreditedOnce
  BY DEF MoneyInv
<1> QED BY <1>1, MoneyInvariant, PTL

(* A send above the threshold of its wallet's chain leaves with exactly    *)
(* the decision that completes its approval; a final decision stays        *)
(* (business.js, the sends of wallets and the decisions of approvals).     *)
THEOREM ThresholdAlwaysHonoured == MoneySpec => ThresholdHonoured
<1>1. MoneyInv /\ [MoneyNext]_moneyVars =>
        [RightlySent /\ DecidedStays /\ ExecutedSends]_<<ledger, approval>>
  <2>1. ASSUME MoneyInv, MoneyNext PROVE RightlySent /\ DecidedStays /\ ExecutedSends
    BY <2>1, MoneyStep DEF Honoured
  <2>2. ASSUME UNCHANGED moneyVars PROVE UNCHANGED <<ledger, approval>>
    BY <2>2 DEF moneyVars, walletVars
  <2> QED BY <2>1, <2>2
<1> QED BY <1>1, MoneyInvariant, PTL DEF MoneySpec, ThresholdHonoured

-----------------------------------------------------------------------------
(* Commands wait for their turn: at most one is running.                   *)
OneAtATime ==
  \A c, d \in Commands : phase[c] = "running" /\ phase[d] = "running" => c = d

(* Between commands the cache is what the tables hold.                     *)
IdleCacheIsDisk == Running = {} => cache = disk

StoresOfRunning ==
  \A c \in Commands : phase[c] # "running" => store[c] = EmptyStore

(* What was copied of a row is what its table holds, and a row that was    *)
(* not copied still is.                                                    *)
SnapshotsAreDisk ==
  \A c \in Commands : phase[c] = "running" => \A r \in Records :
    disk[r] = IF r \in Taken(c) THEN store[c].snapshots[r] ELSE cache[r]

NothingBeforeTheEnd ==
  \A c \in Commands : phase[c] # "over" => audit[c] = NoRecord

EntriesBorneOut ==
  \A c \in Commands :
    /\ audit[c].outcome = "succeeded" => entries[c] = audit[c].entries
    /\ audit[c].outcome # "succeeded" => entries[c] = 0

EventsBorneOut ==
  \A i \in DOMAIN events : audit[events[i]].outcome = "succeeded"

Wrote(content, c) == content # Absent /\ \E f \in Fields : content[f] = c
Covered(c, r) == audit[c].outcome = "succeeded" /\ r \in audit[c].resources

DiskBorneOut ==
  \A c \in Commands, r \in Records : Wrote(disk[r], c) => Covered(c, r)

CacheBorneOut ==
  \A c \in Commands, r \in Records :
    Wrote(cache[r], c) => Covered(c, r) \/ (phase[c] = "running" /\ r \in Taken(c))

UnitInv ==
  /\ UnitTypeOK
  /\ OneAtATime /\ IdleCacheIsDisk /\ StoresOfRunning /\ SnapshotsAreDisk
  /\ NothingBeforeTheEnd /\ EntriesBorneOut /\ EventsBorneOut
  /\ DiskBorneOut /\ CacheBorneOut

-----------------------------------------------------------------------------
(* The events that are kept after a command are events kept before it and  *)
(* events of its own.                                                      *)
LEMMA TrimmedEvents ==
  ASSUME NEW s \in Seq(Commands), NEW c \in Commands, NEW n \in Nat
  PROVE  LET t == Trimmed(s \o [i \in 1 .. n |-> c]) IN
         /\ t \in Seq(Commands)
         /\ \A j \in DOMAIN t : t[j] = c \/ \E i \in DOMAIN s : t[j] = s[i]
<1> DEFINE own == [i \in 1 .. n |-> c]
           all == s \o own
<1>1. own \in Seq(Commands) /\ Len(own) = n /\ \A i \in 1 .. n : own[i] = c
  <2>1. own \in [1 .. n -> Commands]
    OBVIOUS
  <2>2. own \in Seq(Commands) /\ Len(own) = n
    BY <2>1, IsASeq
  <2> QED BY <2>2
<1> HIDE DEF own
<1>2. /\ all \in Seq(Commands) /\ Len(all) = Len(s) + n
      /\ \A i \in 1 .. Len(s) + n :
           all[i] = IF i <= Len(s) THEN s[i] ELSE own[i - Len(s)]
  BY <1>1, ConcatProperties
<1> HIDE DEF all
<1>3. Len(s) \in Nat /\ DOMAIN s = 1 .. Len(s) /\ DOMAIN all = 1 .. Len(all)
  BY <1>2, LenProperties
<1>4. \A i \in 1 .. Len(all) : all[i] = c \/ \E k \in DOMAIN s : all[i] = s[k]
  <2> TAKE i \in 1 .. Len(all)
  <2>1. CASE i <= Len(s)
    BY <2>1, <1>2, <1>3
  <2>2. CASE ~(i <= Len(s))
    <3>1. i - Len(s) \in 1 .. n
      BY <2>2, <1>2, <1>3
    <3> QED BY <2>2, <3>1, <1>1, <1>2, <1>3
  <2> QED BY <2>1, <2>2
<1>5. CASE Len(all) <= Retention
  BY <1>5, <1>2, <1>3, <1>4 DEF Trimmed, all, own
<1>6. CASE ~(Len(all) <= Retention)
  <2> DEFINE from == Len(all) - Retention + 1
             kept == SubSeq(all, from, Len(all))
  <2>1. from \in Int /\ Len(all) \in Int /\ from >= 1 /\ from - 1 + Retention = Len(all)
    BY <1>6, <1>2, <1>3, UnitAssumption
  <2> HIDE DEF from
  <2>2. \A i \in from .. Len(all) : all[i] \in Commands
    <3> SUFFICES ASSUME NEW i \in from .. Len(all) PROVE all[i] \in Commands
      OBVIOUS
    <3>1. i \in 1 .. Len(all)
      BY <2>1
    <3> QED BY <3>1, <1>2, ElementOfSeq
  <2>3. /\ kept \in Seq(Commands)
        /\ Len(kept) = IF from <= Len(all) THEN Len(all) - from + 1 ELSE 0
        /\ \A j \in 1 .. Len(all) - from + 1 : kept[j] = all[from + j - 1]
    BY <2>1, <2>2, SubSeqProperties
  <2> HIDE DEF kept
  <2>4. \A j \in DOMAIN kept : kept[j] = c \/ \E k \in DOMAIN s : kept[j] = s[k]
    <3> SUFFICES ASSUME NEW j \in DOMAIN kept
                 PROVE  kept[j] = c \/ \E k \in DOMAIN s : kept[j] = s[k]
      OBVIOUS
    <3>1. j \in 1 .. Len(kept)
      BY <2>3, LenProperties
    <3>2. j \in 1 .. Len(all) - from + 1 /\ from + j - 1 \in 1 .. Len(all)
      BY <3>1, <2>1, <2>3
    <3> QED BY <3>2, <2>3, <1>4
  <2>5. Trimmed(all) = kept
    BY <1>6, <1>3 DEF Trimmed, kept, from
  <2> QED BY <2>3, <2>4, <2>5 DEF all, own
<1> QED BY <1>5, <1>6

(* Before its first write a row has no copy: a copy is never mistaken for  *)
(* the mark that none was taken.                                           *)
LEMMA SnapshotOnceKeeps ==
  ASSUME UnitTypeOK, NEW c \in Commands, NEW r \in Records
  PROVE  /\ SnapshotOnce(c, r) \in [Records -> Content \cup {NotTaken}]
         /\ {x \in Records : SnapshotOnce(c, r)[x] # NotTaken} = Taken(c) \cup {r}
         /\ \A x \in Taken(c) : SnapshotOnce(c, r)[x] = store[c].snapshots[x]
         /\ r \notin Taken(c) => SnapshotOnce(c, r)[r] = cache[r]
<1>1. /\ store[c].snapshots \in [Records -> Content \cup {NotTaken}]
      /\ cache[r] \in Content /\ cache[r] # NotTaken
  BY UnitAssumption DEF UnitTypeOK, RequestStore
<1>2. CASE store[c].snapshots[r] = NotTaken
  BY <1>1, <1>2 DEF SnapshotOnce, Taken
<1>3. CASE store[c].snapshots[r] # NotTaken
  BY <1>1, <1>3 DEF SnapshotOnce, Taken
<1> QED BY <1>2, <1>3

LEMMA EmptyStoreType == EmptyStore \in RequestStore
BY DEF EmptyStore, RequestStore

LEMMA RecordType ==
  ASSUME UnitTypeOK, NEW c \in Commands, NEW outcome \in Outcomes
  PROVE  AuditOf(c, outcome) \in AuditRecord
<1>1. store[c].entries \in Nat /\ store[c].events \in Nat
  BY DEF UnitTypeOK, RequestStore
<1> QED BY <1>1 DEF AuditOf, AuditRecord, Taken

-----------------------------------------------------------------------------
LEMMA UnitInitInv == UnitInit => UnitInv
<1> SUFFICES ASSUME UnitInit PROVE UnitInv
  OBVIOUS
<1>1. [f \in Fields |-> Seeded] \in Content
  BY DEF Content
<1>2. disk \in [Records -> Content] /\ cache = disk
  BY <1>1 DEF UnitInit, Content
<1>3. UnitTypeOK
  BY <1>2, EmptyStoreType, EmptySeq DEF UnitInit, UnitTypeOK
<1>4. /\ OneAtATime /\ IdleCacheIsDisk /\ StoresOfRunning /\ SnapshotsAreDisk
      /\ NothingBeforeTheEnd
  BY <1>2 DEF UnitInit, OneAtATime, IdleCacheIsDisk, StoresOfRunning, SnapshotsAreDisk,
              NothingBeforeTheEnd
<1>5. EntriesBorneOut /\ EventsBorneOut
  BY DEF UnitInit, EntriesBorneOut, EventsBorneOut, NoRecord
<1>6. \A c \in Commands, r \in Records : ~Wrote(disk[r], c)
  BY UnitAssumption DEF UnitInit, Wrote
<1>7. DiskBorneOut /\ CacheBorneOut
  BY <1>2, <1>6 DEF DiskBorneOut, CacheBorneOut
<1> QED BY <1>3, <1>4, <1>5, <1>7 DEF UnitInv

LEMMA BeginKeeps ==
  ASSUME UnitInv, NEW c \in Commands, Begin(c) PROVE UnitInv'
<1> USE DEF UnitInv
<1>1. UnitTypeOK'
  BY DEF UnitTypeOK, Begin
<1>2. /\ phase' = [phase EXCEPT ![c] = "running"] /\ phase[c] = "new" /\ Running = {}
      /\ UNCHANGED <<cache, disk, entries, events, audit, store>>
  BY DEF Begin, Turn
<1>3. phase \in [Commands -> {"new", "running", "over"}] /\ store[c] = EmptyStore /\ cache = disk
  BY <1>2 DEF UnitTypeOK, StoresOfRunning, IdleCacheIsDisk
<1>4. \A d \in Commands : phase'[d] = "running" <=> d = c
  BY <1>2, <1>3 DEF Running
<1>5. OneAtATime' /\ IdleCacheIsDisk' /\ StoresOfRunning' /\ NothingBeforeTheEnd'
  BY <1>2, <1>3, <1>4 DEF OneAtATime, IdleCacheIsDisk, StoresOfRunning, NothingBeforeTheEnd
<1>6. \A d \in Commands : Taken(d)' = Taken(d)
  BY <1>2 DEF Taken
<1>7. Taken(c) = {}
  BY <1>3 DEF Taken, EmptyStore
<1>8. SnapshotsAreDisk'
  BY <1>2, <1>3, <1>4, <1>6, <1>7 DEF SnapshotsAreDisk
<1>9. EntriesBorneOut' /\ EventsBorneOut' /\ DiskBorneOut'
  BY <1>2 DEF EntriesBorneOut, EventsBorneOut, DiskBorneOut, Covered
<1>10. CacheBorneOut'
  BY <1>2, <1>3, <1>9 DEF DiskBorneOut, CacheBorneOut, Covered
<1> QED BY <1>1, <1>5, <1>8, <1>9, <1>10

(* A step that touches the store of the running command alone, and no copy *)
(* of a row in it.                                                         *)
LEMMA StagingKeeps ==
  ASSUME UnitInv, NEW c \in Commands, phase[c] = "running",
         UNCHANGED <<cache, disk, entries, events, audit, phase>>,
         store' \in [Commands -> RequestStore],
         \A d \in Commands : d # c => store'[d] = store[d],
         store'[c].snapshots = store[c].snapshots
  PROVE  UnitInv'
<1> USE DEF UnitInv
<1>1. UnitTypeOK'
  BY DEF UnitTypeOK
<1>2. \A d \in Commands : Taken(d)' = Taken(d) /\ store'[d].snapshots = store[d].snapshots
  BY DEF Taken
<1>3. OneAtATime' /\ IdleCacheIsDisk' /\ NothingBeforeTheEnd'
  BY DEF OneAtATime, IdleCacheIsDisk, NothingBeforeTheEnd, Running
<1>4. StoresOfRunning'
  BY DEF StoresOfRunning
<1>5. SnapshotsAreDisk'
  BY <1>2 DEF SnapshotsAreDisk
<1>6. EntriesBorneOut' /\ EventsBorneOut' /\ DiskBorneOut'
  BY DEF EntriesBorneOut, EventsBorneOut, DiskBorneOut, Covered
<1>7. CacheBorneOut'
  BY <1>2 DEF CacheBorneOut, Covered
<1> QED BY <1>1, <1>3, <1>4, <1>5, <1>6, <1>7

LEMMA PostEntryKeeps ==
  ASSUME UnitInv, NEW c \in Commands, PostEntry(c) PROVE UnitInv'
<1>1. store[c] \in RequestStore /\ store \in [Commands -> RequestStore]
  BY DEF UnitInv, UnitTypeOK
<1>2. store' = [store EXCEPT ![c] = [store[c] EXCEPT !.entries = @ + 1]]
  BY DEF PostEntry
<1>3. [store[c] EXCEPT !.entries = @ + 1] \in RequestStore
  BY <1>1 DEF RequestStore
<1>4. [store[c] EXCEPT !.entries = @ + 1].snapshots = store[c].snapshots
  BY <1>1 DEF RequestStore
<1> QED BY <1>1, <1>2, <1>3, <1>4, StagingKeeps DEF PostEntry

LEMMA EmitKeeps ==
  ASSUME UnitInv, NEW c \in Commands, Emit(c) PROVE UnitInv'
<1>1. store[c] \in RequestStore /\ store \in [Commands -> RequestStore]
  BY DEF UnitInv, UnitTypeOK
<1>2. store' = [store EXCEPT ![c] = [store[c] EXCEPT !.events = @ + 1]]
  BY DEF Emit
<1>3. [store[c] EXCEPT !.events = @ + 1] \in RequestStore
  BY <1>1 DEF RequestStore
<1>4. [store[c] EXCEPT !.events = @ + 1].snapshots = store[c].snapshots
  BY <1>1 DEF RequestStore
<1> QED BY <1>1, <1>2, <1>3, <1>4, StagingKeeps DEF Emit

(* A write: the row was copied, and what it holds now is the command's or  *)
(* was there.                                                              *)
LEMMA WriteKeeps ==
  ASSUME UnitInv, NEW c \in Commands, NEW r \in Records, NEW content \in Content,
         phase[c] = "running", Write(c, r, content),
         \A d \in Commands : Wrote(content, d) => d = c \/ Wrote(cache[r], d)
  PROVE  UnitInv'
<1> USE DEF UnitInv
<1> DEFINE snap == SnapshotOnce(c, r)
<1>1. /\ store[c] \in RequestStore /\ store \in [Commands -> RequestStore]
      /\ cache \in [Records -> Content]
  BY DEF UnitTypeOK
<1>2. /\ store' = [store EXCEPT ![c] = [store[c] EXCEPT !.snapshots = snap]]
      /\ cache' = [cache EXCEPT ![r] = content]
      /\ UNCHANGED <<disk, entries, events, audit, phase>>
  BY DEF Write
<1>3. /\ snap \in [Records -> Content \cup {NotTaken}]
      /\ {x \in Records : snap[x] # NotTaken} = Taken(c) \cup {r}
      /\ \A x \in Taken(c) : snap[x] = store[c].snapshots[x]
      /\ r \notin Taken(c) => snap[r] = cache[r]
  BY SnapshotOnceKeeps
<1> HIDE DEF snap
<1>4. /\ [store[c] EXCEPT !.snapshots = snap] \in RequestStore
      /\ [store[c] EXCEPT !.snapshots = snap].snapshots = snap
  BY <1>1, <1>3 DEF RequestStore
<1>5. /\ store' \in [Commands -> RequestStore] /\ store'[c].snapshots = snap
      /\ \A d \in Commands : d # c => store'[d] = store[d]
  BY <1>1, <1>2, <1>4
<1>6. UnitTypeOK'
  BY <1>1, <1>2, <1>5 DEF UnitTypeOK
<1>7. Taken(c)' = Taken(c) \cup {r} /\ \A d \in Commands : d # c => Taken(d)' = Taken(d)
  BY <1>3, <1>5 DEF Taken
<1>8. OneAtATime' /\ NothingBeforeTheEnd' /\ StoresOfRunning'
  BY <1>2, <1>5 DEF OneAtATime, NothingBeforeTheEnd, StoresOfRunning
<1>9. IdleCacheIsDisk'
  BY <1>2 DEF IdleCacheIsDisk, Running
<1>10. SnapshotsAreDisk'
  <2> SUFFICES ASSUME NEW d \in Commands, phase[d] = "running", NEW x \in Records
               PROVE  (disk[x] = IF x \in Taken(d) THEN store[d].snapshots[x] ELSE cache[x])'
    BY <1>2 DEF SnapshotsAreDisk
  <2>1. d = c
    BY DEF OneAtATime
  <2>2. disk[x] = IF x \in Taken(c) THEN store[c].snapshots[x] ELSE cache[x]
    BY DEF SnapshotsAreDisk
  <2>3. CASE x \in Taken(c)
    BY <2>1, <2>2, <2>3, <1>2, <1>3, <1>5, <1>7
  <2>4. CASE x \notin Taken(c) /\ x = r
    BY <2>1, <2>2, <2>4, <1>2, <1>3, <1>5, <1>7
  <2>5. CASE x \notin Taken(c) /\ x # r
    BY <2>1, <2>2, <2>5, <1>1, <1>2, <1>7
  <2> QED BY <2>3, <2>4, <2>5
<1>11. EntriesBorneOut' /\ EventsBorneOut' /\ DiskBorneOut'
  BY <1>2 DEF EntriesBorneOut, EventsBorneOut, DiskBorneOut, Covered
<1>12. CacheBorneOut'
  <2> SUFFICES ASSUME NEW d \in Commands, NEW x \in Records, Wrote(cache'[x], d)
               PROVE  Covered(d, x) \/ (phase[d] = "running" /\ x \in Taken(d)')
    BY <1>2 DEF CacheBorneOut, Covered
  <2>1. CASE x = r /\ d = c
    BY <2>1, <1>7
  <2>2. CASE ~(x = r /\ d = c)
    <3>1. Wrote(cache[x], d)
      BY <2>2, <1>1, <1>2
    <3> QED BY <3>1, <1>7 DEF CacheBorneOut
  <2> QED BY <2>1, <2>2
<1> QED BY <1>6, <1>8, <1>9, <1>10, <1>11, <1>12

LEMMA WritesKeep ==
  ASSUME UnitInv, NEW c \in Commands, NEW r \in Records,
         SetRow(c, r) \/ Delete(c, r) \/ \E f \in Fields : SetField(c, r, f)
  PROVE  UnitInv'
<1>1. CASE SetRow(c, r)
  <2>1. [f \in Fields |-> c] \in Content
    BY DEF Content
  <2>2. \A d \in Commands : Wrote([f \in Fields |-> c], d) => d = c
    BY DEF Wrote
  <2> QED BY <1>1, <2>1, <2>2, WriteKeeps DEF SetRow
<1>2. CASE Delete(c, r)
  <2>1. Absent \in Content /\ \A d \in Commands : ~Wrote(Absent, d)
    BY DEF Content, Wrote
  <2> QED BY <1>2, <2>1, WriteKeeps DEF Delete
<1>3. ASSUME NEW f \in Fields, SetField(c, r, f) PROVE UnitInv'
  <2> DEFINE content == [cache[r] EXCEPT ![f] = c]
  <2>1. cache[r] \in [Fields -> Commands \cup {Seeded}] /\ cache[r] # Absent
    BY <1>3 DEF SetField, UnitInv, UnitTypeOK, Content
  <2>2. content \in Content
    BY <2>1 DEF Content
  <2>3. \A d \in Commands : Wrote(content, d) => d = c \/ Wrote(cache[r], d)
    BY <2>1 DEF Wrote
  <2>4. phase[c] = "running" /\ Write(c, r, content)
    BY <1>3 DEF SetField
  <2> HIDE DEF content
  <2> QED BY <2>2, <2>3, <2>4, WriteKeeps
<1> QED BY <1>1, <1>2, <1>3

-----------------------------------------------------------------------------
(* How a command ends: nobody runs after it.                               *)
LEMMA ScopeEnds ==
  ASSUME UnitInv, NEW c \in Commands, phase[c] = "running", EndScope(c)
  PROVE  /\ Running' = {} /\ phase'[c] = "over"
         /\ \A d \in Commands : d # c => phase'[d] = phase[d] /\ phase[d] # "running"
         /\ phase' \in [Commands -> {"new", "running", "over"}]
         /\ store' \in [Commands -> RequestStore]
         /\ \A d \in Commands : store'[d] = EmptyStore
         /\ OneAtATime' /\ StoresOfRunning' /\ SnapshotsAreDisk'
<1>1. /\ phase \in [Commands -> {"new", "running", "over"}]
      /\ store \in [Commands -> RequestStore]
  BY DEF UnitInv, UnitTypeOK
<1>2. \A d \in Commands : d # c => phase[d] # "running" /\ store[d] = EmptyStore
  BY DEF UnitInv, OneAtATime, StoresOfRunning
<1>3. /\ \A d \in Commands : phase'[d] = IF d = c THEN "over" ELSE phase[d]
      /\ \A d \in Commands : store'[d] = EmptyStore
  BY <1>1, <1>2 DEF EndScope
<1>4. /\ phase' \in [Commands -> {"new", "running", "over"}]
      /\ store' \in [Commands -> RequestStore]
  BY <1>1, EmptyStoreType DEF EndScope
<1>5. Running' = {}
  BY <1>2, <1>3 DEF Running
<1>6. OneAtATime' /\ StoresOfRunning' /\ SnapshotsAreDisk'
  BY <1>2, <1>3 DEF OneAtATime, StoresOfRunning, SnapshotsAreDisk
<1> QED BY <1>2, <1>3, <1>4, <1>5, <1>6

LEMMA CommitKeeps ==
  ASSUME UnitInv, NEW c \in Commands, CommitUnit(c) PROVE UnitInv'
<1> USE DEF UnitInv
<1>1. /\ phase[c] = "running" /\ EndScope(c) /\ cache' = cache
      /\ disk' = [r \in Records |-> IF r \in Taken(c) THEN cache[r] ELSE disk[r]]
      /\ entries' = [entries EXCEPT ![c] = store[c].entries]
      /\ events' = Trimmed(events \o Emitted(c))
      /\ audit' = [audit EXCEPT ![c] = AuditOf(c, "succeeded")]
  BY DEF CommitUnit
<1>2. /\ Running' = {} /\ phase'[c] = "over"
      /\ \A d \in Commands : d # c => phase'[d] = phase[d] /\ phase[d] # "running"
      /\ phase' \in [Commands -> {"new", "running", "over"}]
      /\ store' \in [Commands -> RequestStore]
      /\ OneAtATime' /\ StoresOfRunning' /\ SnapshotsAreDisk'
  BY <1>1, ScopeEnds
<1>3. /\ cache \in [Records -> Content] /\ disk \in [Records -> Content]
      /\ entries \in [Commands -> Nat] /\ events \in Seq(Commands)
      /\ audit \in [Commands -> AuditRecord \cup {NoRecord}]
      /\ store[c].entries \in Nat /\ store[c].events \in Nat
  BY DEF UnitTypeOK, RequestStore
<1>4. disk' = cache
  <2>1. \A r \in Records : disk'[r] = cache[r]
    BY <1>1 DEF SnapshotsAreDisk
  <2> QED BY <2>1, <1>1, <1>3
<1>5. /\ events' \in Seq(Commands)
      /\ \A j \in DOMAIN events' : events'[j] = c \/ \E i \in DOMAIN events : events'[j] = events[i]
  BY <1>1, <1>3, TrimmedEvents DEF Emitted
<1>6. /\ audit' \in [Commands -> AuditRecord \cup {NoRecord}]
      /\ audit'[c] = AuditOf(c, "succeeded")
      /\ \A d \in Commands : d # c => audit'[d] = audit[d]
  BY <1>1, <1>3, RecordType DEF Outcomes
<1>7. /\ audit'[c].outcome = "succeeded" /\ audit'[c].entries = store[c].entries
      /\ audit'[c].resources = Taken(c)
  BY <1>6 DEF AuditOf
<1>8. UnitTypeOK'
  BY <1>1, <1>2, <1>3, <1>4, <1>5, <1>6 DEF UnitTypeOK
<1>9. IdleCacheIsDisk'
  BY <1>1, <1>4 DEF IdleCacheIsDisk
<1>10. NothingBeforeTheEnd'
  BY <1>2, <1>6 DEF NothingBeforeTheEnd
<1>11. EntriesBorneOut'
  BY <1>1, <1>3, <1>6, <1>7 DEF EntriesBorneOut
<1>12. EventsBorneOut'
  <2> SUFFICES ASSUME NEW j \in DOMAIN events' PROVE audit'[events'[j]].outcome = "succeeded"
    BY DEF EventsBorneOut
  <2>1. events'[j] = c \/ \E i \in DOMAIN events : events'[j] = events[i]
    BY <1>5
  <2>2. ASSUME NEW i \in DOMAIN events, events'[j] = events[i], events'[j] # c
        PROVE  audit'[events'[j]].outcome = "succeeded"
    <3>1. events[i] \in Commands
      BY <1>3, ElementOfSeq, LenProperties
    <3> QED BY <2>2, <3>1, <1>6 DEF EventsBorneOut
  <2> QED BY <2>1, <2>2, <1>7
<1>13. \A d \in Commands, r \in Records : Wrote(cache[r], d) => Covered(d, r)'
  <2> SUFFICES ASSUME NEW d \in Commands, NEW r \in Records, Wrote(cache[r], d)
               PROVE  Covered(d, r)'
    OBVIOUS
  <2>1. Covered(d, r) \/ (phase[d] = "running" /\ r \in Taken(d))
    BY DEF CacheBorneOut
  <2>2. CASE d = c
    <3>1. audit[c] = NoRecord
      BY <1>1 DEF NothingBeforeTheEnd
    <3> QED BY <2>1, <2>2, <3>1, <1>7 DEF Covered, NoRecord
  <2>3. CASE d # c
    BY <2>1, <2>3, <1>2, <1>6 DEF Covered
  <2> QED BY <2>2, <2>3
<1>14. DiskBorneOut' /\ CacheBorneOut'
  BY <1>13, <1>1, <1>4 DEF DiskBorneOut, CacheBorneOut
<1> QED BY <1>2, <1>8, <1>9, <1>10, <1>11, <1>12, <1>14

(* What a step that leaves the tables alone and gives back every row keeps. *)
LEMMA NothingKept ==
  ASSUME UnitInv, UNCHANGED <<disk, entries, events>>, cache' = disk, Running' = {},
         store' \in [Commands -> RequestStore],
         phase' \in [Commands -> {"new", "running", "over"}],
         audit' \in [Commands -> AuditRecord \cup {NoRecord}],
         OneAtATime', StoresOfRunning', SnapshotsAreDisk', NothingBeforeTheEnd',
         \A d \in Commands :
           audit'[d] = audit[d] \/ (audit[d] = NoRecord /\ audit'[d].outcome = "failed")
  PROVE  UnitInv'
<1> USE DEF UnitInv
<1>1. UnitTypeOK'
  BY DEF UnitTypeOK
<1>2. IdleCacheIsDisk'
  BY DEF IdleCacheIsDisk
<1>3. \A d \in Commands :
        audit'[d] = audit[d] \/ (audit[d].outcome # "succeeded" /\ audit'[d].outcome # "succeeded")
  BY DEF NoRecord
<1>4. EntriesBorneOut'
  BY <1>3 DEF EntriesBorneOut
<1>5. EventsBorneOut'
  <2>1. \A i \in DOMAIN events : events[i] \in Commands
    BY ElementOfSeq, LenProperties DEF UnitTypeOK
  <2> QED BY <1>3, <2>1 DEF EventsBorneOut
<1>6. DiskBorneOut'
  BY <1>3 DEF DiskBorneOut, Covered
<1>7. CacheBorneOut'
  BY <1>6 DEF DiskBorneOut, CacheBorneOut
<1> QED BY <1>1, <1>2, <1>4, <1>5, <1>6, <1>7

LEMMA FailKeeps ==
  ASSUME UnitInv, NEW c \in Commands, Fail(c) PROVE UnitInv'
<1> USE DEF UnitInv
<1>1. /\ phase[c] = "running" /\ EndScope(c) /\ cache' = Restored(c)
      /\ audit' \in {audit, [audit EXCEPT ![c] = AuditOf(c, "failed")]}
      /\ UNCHANGED <<disk, entries, events>>
  BY DEF Fail
<1>2. /\ Running' = {} /\ phase'[c] = "over"
      /\ \A d \in Commands : d # c => phase'[d] = phase[d]
      /\ phase' \in [Commands -> {"new", "running", "over"}]
      /\ store' \in [Commands -> RequestStore]
      /\ OneAtATime' /\ StoresOfRunning' /\ SnapshotsAreDisk'
  BY <1>1, ScopeEnds
<1>3. /\ disk \in [Records -> Content]
      /\ audit \in [Commands -> AuditRecord \cup {NoRecord}]
  BY DEF UnitTypeOK
<1>4. cache' = disk
  <2>1. \A r \in Records : Restored(c)[r] = disk[r]
    BY <1>1 DEF Restored, SnapshotsAreDisk
  <2> QED BY <2>1, <1>1, <1>3 DEF Restored
<1>5. audit[c] = NoRecord
  BY <1>1 DEF NothingBeforeTheEnd
<1>6. AuditOf(c, "failed") \in AuditRecord /\ AuditOf(c, "failed").outcome = "failed"
  BY RecordType DEF Outcomes, AuditOf
<1>7. /\ audit' \in [Commands -> AuditRecord \cup {NoRecord}]
      /\ \A d \in Commands : d # c => audit'[d] = audit[d]
      /\ audit'[c] = audit[c] \/ audit'[c].outcome = "failed"
  BY <1>1, <1>3, <1>6
<1>8. NothingBeforeTheEnd'
  BY <1>2, <1>7 DEF NothingBeforeTheEnd
<1> QED BY <1>1, <1>2, <1>4, <1>5, <1>7, <1>8, NothingKept

LEMMA DiedKeeps ==
  ASSUME UnitInv, Died PROVE UnitInv'
<1> USE DEF UnitInv
<1>1. /\ cache' = disk /\ UNCHANGED <<disk, entries, events, audit>>
      /\ phase' = [c \in Commands |-> IF c \in Running THEN "over" ELSE phase[c]]
      /\ store' = [c \in Commands |-> EmptyStore]
  BY DEF Died
<1>2. phase \in [Commands -> {"new", "running", "over"}]
  BY DEF UnitTypeOK
<1>3. /\ phase' \in [Commands -> {"new", "running", "over"}]
      /\ \A c \in Commands : phase'[c] # "running"
      /\ \A c \in Commands : phase'[c] # "over" => phase'[c] = phase[c]
  BY <1>1, <1>2 DEF Running
<1>4. store' \in [Commands -> RequestStore] /\ Running' = {}
  BY <1>1, <1>3, EmptyStoreType DEF Running
<1>5. OneAtATime' /\ StoresOfRunning' /\ SnapshotsAreDisk' /\ NothingBeforeTheEnd'
  BY <1>1, <1>3 DEF OneAtATime, StoresOfRunning, SnapshotsAreDisk, NothingBeforeTheEnd
<1>6. audit' \in [Commands -> AuditRecord \cup {NoRecord}]
  BY <1>1 DEF UnitTypeOK
<1> QED BY <1>1, <1>3, <1>4, <1>5, <1>6, NothingKept

LEMMA UnitNextInv == UnitInv /\ [UnitNext]_unitVars => UnitInv'
<1> SUFFICES ASSUME UnitInv, [UnitNext]_unitVars PROVE UnitInv'
  OBVIOUS
<1>1. CASE Died
  BY <1>1, DiedKeeps
<1>2. ASSUME NEW c \in Commands,
             Begin(c) \/ PostEntry(c) \/ Emit(c) \/ CommitUnit(c) \/ Fail(c)
      PROVE  UnitInv'
  BY <1>2, BeginKeeps, PostEntryKeeps, EmitKeeps, CommitKeeps, FailKeeps
<1>3. ASSUME NEW c \in Commands, NEW r \in Records,
             SetRow(c, r) \/ Delete(c, r) \/ \E f \in Fields : SetField(c, r, f)
      PROVE  UnitInv'
  BY <1>3, WritesKeep
<1>4. CASE UNCHANGED unitVars
  BY <1>4 DEF unitVars, UnitInv, UnitTypeOK, OneAtATime, IdleCacheIsDisk, StoresOfRunning,
      SnapshotsAreDisk, NothingBeforeTheEnd, EntriesBorneOut, EventsBorneOut, DiskBorneOut,
      CacheBorneOut, Covered, Taken, Running
<1> QED BY <1>1, <1>2, <1>3, <1>4 DEF UnitNext

(* Commands run one at a time, an idle cache is what is on disk, what a    *)
(* running one copied of a row is what its table holds, and every field,   *)
(* entry and event on disk is under a record of success.                   *)
THEOREM UnitInvariant == UnitSpec => []UnitInv
BY UnitInitInv, UnitNextInv, PTL DEF UnitSpec

(* An audit record tells what is there, whatever commands failed, died or  *)
(* wrote the same rows before (inRequestScope, lib.js).                    *)
THEOREM AuditIsTrue == UnitSpec => []AuditTellsTruth
<1>1. UnitInv => AuditTellsTruth
  <2> SUFFICES ASSUME UnitInv, NEW c \in Commands
               PROVE  /\ audit[c].outcome = "succeeded" => entries[c] = audit[c].entries
                      /\ entries[c] > 0 \/ (\E i \in DOMAIN events : events[i] = c) =>
                           audit[c].outcome = "succeeded"
                      /\ \A r \in Records :
                           disk[r] # Absent /\ (\E f \in Fields : disk[r][f] = c) =>
                             audit[c].outcome = "succeeded" /\ r \in audit[c].resources
    BY DEF AuditTellsTruth
  <2>1. /\ audit[c].outcome = "succeeded" => entries[c] = audit[c].entries
        /\ entries[c] > 0 => audit[c].outcome = "succeeded"
    BY DEF UnitInv, EntriesBorneOut
  <2>2. ASSUME NEW i \in DOMAIN events, events[i] = c PROVE audit[c].outcome = "succeeded"
    BY <2>2 DEF UnitInv, EventsBorneOut
  <2>3. \A r \in Records :
          disk[r] # Absent /\ (\E f \in Fields : disk[r][f] = c) => Covered(c, r)
    BY DEF UnitInv, DiskBorneOut, Wrote
  <2> QED BY <2>1, <2>2, <2>3 DEF Covered
<1> QED BY <1>1, UnitInvariant, PTL
-----------------------------------------------------------------------------
(* Refinement of CommandStore: the copy a running command is promised is   *)
(* the cache, and what is on disk followed by what it staged.              *)
Copy(c) ==
  [who |-> c, rows |-> cache, entries |-> [entries EXCEPT ![c] = store[c].entries],
   events |-> events \o Emitted(c)]

LEMMA OwnWorkIsCopy ==
  UnitInv => /\ Running = {} => OwnWork = Isolated!NoWork
             /\ \A c \in Commands : phase[c] = "running" => OwnWork = Copy(c)
<1> SUFFICES ASSUME UnitInv
             PROVE  /\ Running = {} => OwnWork = Isolated!NoWork
                    /\ \A c \in Commands : phase[c] = "running" => OwnWork = Copy(c)
  OBVIOUS
<1>1. Running = {} => OwnWork = Isolated!NoWork
  BY DEF OwnWork, Isolated!NoWork
<1>2. ASSUME NEW c \in Commands, phase[c] = "running" PROVE OwnWork = Copy(c)
  <2>1. c \in Running /\ \A d \in Commands : d \in Running => d = c
    BY <1>2 DEF UnitInv, OneAtATime, Running
  <2>2. (CHOOSE d \in Commands : d \in Running) = c
    BY <2>1
  <2>3. Running # {}
    BY <2>1
  <2> QED BY <2>2, <2>3 DEF OwnWork, Copy
<1> QED BY <1>1, <1>2

(* Nobody runs: there is no copy. Somebody runs and is not alone with it:  *)
(* impossible.                                                             *)
LEMMA CopyNext ==
  ASSUME UnitInv, UnitInv'
  PROVE  /\ Running' = {} => OwnWork' = Isolated!NoWork
         /\ \A c \in Commands : phase'[c] = "running" => OwnWork' = Copy(c)'
<1>1. (UnitInv => /\ Running = {} => OwnWork = Isolated!NoWork
                  /\ \A c \in Commands : phase[c] = "running" => OwnWork = Copy(c))'
  BY OwnWorkIsCopy, PTL
<1> QED BY <1>1 DEF Isolated!NoWork

LEMMA EmittedNone ==
  ASSUME NEW c \in Commands, store[c].events = 0 PROVE Emitted(c) = << >>
BY DEF Emitted

LEMMA OneMoreAppended ==
  ASSUME NEW s \in Seq(Commands), NEW c \in Commands, NEW n \in Nat,
         NEW a \in Seq(Commands), Len(a) = n, \A i \in 1 .. n : a[i] = c,
         NEW b \in Seq(Commands), Len(b) = n + 1, \A i \in 1 .. n + 1 : b[i] = c
  PROVE  s \o b = Append(s \o a, c)
<1> DEFINE front == s \o a
           left == s \o b
           right == Append(front, c)
<1>1. Len(s) \in Nat
  BY LenProperties
<1>2. /\ left \in Seq(Commands) /\ Len(left) = Len(s) + (n + 1)
      /\ \A i \in 1 .. Len(s) + (n + 1) :
           left[i] = IF i <= Len(s) THEN s[i] ELSE b[i - Len(s)]
  <2>1. /\ left \in Seq(Commands) /\ Len(left) = Len(s) + Len(b)
        /\ \A i \in 1 .. Len(s) + Len(b) :
             left[i] = IF i <= Len(s) THEN s[i] ELSE b[i - Len(s)]
    BY ConcatProperties
  <2> HIDE DEF left
  <2> QED BY <2>1
<1>3. /\ front \in Seq(Commands) /\ Len(front) = Len(s) + n
      /\ \A i \in 1 .. Len(s) + n : front[i] = IF i <= Len(s) THEN s[i] ELSE a[i - Len(s)]
  BY ConcatProperties
<1> HIDE DEF front, left
<1>4. /\ right \in Seq(Commands) /\ Len(right) = Len(s) + n + 1
      /\ \A i \in 1 .. Len(s) + n : right[i] = front[i]
      /\ right[Len(s) + n + 1] = c
  <2>1. PICK m \in Nat : m = Len(s) + n
    BY <1>1
  <2>2. front \in Seq(Commands) /\ Len(front) = m
    BY <1>3, <2>1
  <2>3. /\ right \in Seq(Commands) /\ Len(right) = Len(front) + 1
        /\ \A i \in 1 .. Len(front) : right[i] = front[i]
        /\ right[Len(front) + 1] = c
    BY <2>2, AppendProperties
  <2> HIDE DEF right
  <2> QED BY <1>1, <2>1, <2>2, <2>3
<1> HIDE DEF right
<1>5. \A i \in 1 .. Len(left) : left[i] = right[i]
  <2> SUFFICES ASSUME NEW i \in 1 .. Len(s) + (n + 1) PROVE left[i] = right[i]
    BY <1>2
  <2>1. CASE i <= Len(s)
    <3>1. i \in 1 .. Len(s) + n
      BY <2>1, <1>1
    <3>2. left[i] = s[i]
      BY <1>2, <2>1
    <3>3. right[i] = front[i] /\ front[i] = s[i]
      BY <1>3, <1>4, <2>1, <3>1
    <3> QED BY <3>2, <3>3
  <2>2. CASE Len(s) < i /\ i <= Len(s) + n
    <3>1. i - Len(s) \in 1 .. n /\ i - Len(s) \in 1 .. n + 1 /\ i \in 1 .. Len(s) + n
      BY <2>2, <1>1
    <3>2. ~(i <= Len(s))
      BY <2>2, <1>1
    <3>3. left[i] = b[i - Len(s)] /\ b[i - Len(s)] = c
      BY <1>2, <3>1, <3>2
    <3>4. right[i] = front[i] /\ front[i] = a[i - Len(s)] /\ a[i - Len(s)] = c
      BY <1>3, <1>4, <3>1, <3>2
    <3> QED BY <3>3, <3>4
  <2>3. CASE i = Len(s) + n + 1
    <3>1. i - Len(s) = n + 1 /\ ~(i <= Len(s)) /\ n + 1 \in 1 .. n + 1
      BY <2>3, <1>1
    <3>2. left[i] = b[n + 1]
      BY <3>1, <1>2
    <3>3. b[n + 1] = c
      BY <3>1
    <3>4. right[i] = c
      BY <1>4, <2>3
    <3> QED BY <3>2, <3>3, <3>4
  <2>4. \/ i <= Len(s)
        \/ Len(s) < i /\ i <= Len(s) + n
        \/ i = Len(s) + n + 1
    <3>1. PICK k \in Nat : k = Len(s)
      BY <1>1
    <3>2. i \in 1 .. k + (n + 1)
      BY <3>1
    <3>3. i <= k \/ (k < i /\ i <= k + n) \/ i = k + n + 1
      BY <3>2
    <3> QED BY <3>1, <3>3
  <2> QED BY <2>1, <2>2, <2>3, <2>4
<1>6. Len(left) = Len(right)
  BY <1>1, <1>2, <1>4
<1>7. left = right
  BY <1>2, <1>4, <1>5, <1>6, SeqEqual
<1> QED BY <1>7 DEF left, right, front

LEMMA Repeated ==
  ASSUME NEW c \in Commands, NEW n \in Nat
  PROVE  /\ [i \in 1 .. n |-> c] \in Seq(Commands) /\ Len([i \in 1 .. n |-> c]) = n
         /\ \A i \in 1 .. n : [j \in 1 .. n |-> c][i] = c
<1>1. [i \in 1 .. n |-> c] \in [1 .. n -> Commands]
  OBVIOUS
<1> QED BY <1>1, IsASeq

LEMMA EmittedOneMore ==
  ASSUME NEW s \in Seq(Commands), NEW c \in Commands, NEW n \in Nat
  PROVE  s \o [i \in 1 .. n + 1 |-> c] = Append(s \o [i \in 1 .. n |-> c], c)
<1>1. PICK a : a = [i \in 1 .. n |-> c]
  OBVIOUS
<1>2. PICK b : b = [i \in 1 .. n + 1 |-> c]
  OBVIOUS
<1>3. a \in Seq(Commands) /\ Len(a) = n /\ \A i \in 1 .. n : a[i] = c
  BY <1>1, Repeated
<1>4. n + 1 \in Nat
  OBVIOUS
<1>5. b \in Seq(Commands) /\ Len(b) = n + 1 /\ \A i \in 1 .. n + 1 : b[i] = c
  BY <1>2, <1>4, Repeated
<1>6. s \o b = Append(s \o a, c)
  BY <1>3, <1>5, OneMoreAppended
<1> QED BY <1>1, <1>2, <1>6

(* Changing one part of a copy.                                            *)
LEMMA CopyExcept ==
  ASSUME NEW w, NEW c, NEW rows, NEW posted, NEW emitted, NEW x, NEW r,
         w = [who |-> c, rows |-> rows, entries |-> posted, events |-> emitted]
  PROVE  /\ w.who = c /\ w.rows = rows /\ w.entries = posted /\ w.events = emitted
         /\ [w EXCEPT !.rows[r] = x]
              = [who |-> c, rows |-> [rows EXCEPT ![r] = x], entries |-> posted, events |-> emitted]
         /\ [w EXCEPT !.entries = x] = [who |-> c, rows |-> rows, entries |-> x, events |-> emitted]
         /\ [w EXCEPT !.events = x] = [who |-> c, rows |-> rows, entries |-> posted, events |-> x]
OBVIOUS

LEMMA BeginRefines ==
  ASSUME UnitInv, UnitInv', NEW c \in Commands, Begin(c) PROVE Isolated!BeginWork(c)
<1>1. /\ phase[c] = "new" /\ Running = {} /\ phase' = [phase EXCEPT ![c] = "running"]
      /\ UNCHANGED <<cache, disk, entries, events, store>>
  BY DEF Begin, Turn
<1>2. /\ phase'[c] = "running" /\ store[c] = EmptyStore /\ cache = disk
      /\ audit[c] = NoRecord /\ entries \in [Commands -> Nat] /\ events \in Seq(Commands)
  BY <1>1 DEF UnitInv, UnitTypeOK, StoresOfRunning, IdleCacheIsDisk, NothingBeforeTheEnd
<1>3. OwnWork = Isolated!NoWork /\ OwnWork' = Copy(c)'
  BY <1>1, <1>2, OwnWorkIsCopy, CopyNext
<1>4. entries[c] = 0
  BY <1>2 DEF UnitInv, EntriesBorneOut, NoRecord
<1>5. [entries EXCEPT ![c] = 0] = entries
  BY <1>2, <1>4
<1>6. events \o Emitted(c) = events
  BY <1>2, EmittedNone, ConcatEmptySeq DEF EmptyStore
<1>7. Copy(c)' = [who |-> c, rows |-> cache, entries |-> [entries EXCEPT ![c] = store[c].entries],
                  events |-> events \o Emitted(c)]
  BY <1>1 DEF Copy, Emitted
<1>8. store[c].entries = 0
  BY <1>2 DEF EmptyStore
<1>9. OwnWork' = [who |-> c, rows |-> disk, entries |-> entries, events |-> events]
  BY <1>2, <1>3, <1>5, <1>6, <1>7, <1>8
<1> QED BY <1>1, <1>3, <1>9 DEF Isolated!BeginWork

LEMMA WriteRefines ==
  ASSUME UnitInv, UnitInv', NEW c \in Commands, NEW r \in Records, NEW content \in Content,
         phase[c] = "running", Write(c, r, content)
  PROVE  Isolated!WriteRow(c, r, content)
<1>1. /\ cache' = [cache EXCEPT ![r] = content]
      /\ store' = [store EXCEPT ![c].snapshots = SnapshotOnce(c, r)]
      /\ UNCHANGED <<disk, entries, events, phase>>
  BY DEF Write
<1>2. OwnWork = Copy(c) /\ OwnWork' = Copy(c)'
  BY <1>1, OwnWorkIsCopy, CopyNext
<1>3. store[c] \in RequestStore /\ store \in [Commands -> RequestStore]
  BY DEF UnitInv, UnitTypeOK
<1>4. store'[c].entries = store[c].entries /\ store'[c].events = store[c].events
  BY <1>1, <1>3 DEF RequestStore
<1>5. Emitted(c)' = Emitted(c)
  BY <1>4 DEF Emitted
<1>6. Copy(c)' = [who |-> c, rows |-> [cache EXCEPT ![r] = content],
                  entries |-> [entries EXCEPT ![c] = store[c].entries],
                  events |-> events \o Emitted(c)]
  BY <1>1, <1>4, <1>5 DEF Copy
<1>7. PICK w, posted, emitted, rows : /\ w = OwnWork /\ rows = cache
        /\ posted = [entries EXCEPT ![c] = store[c].entries] /\ emitted = events \o Emitted(c)
  OBVIOUS
<1>8. w = [who |-> c, rows |-> rows, entries |-> posted, events |-> emitted]
  BY <1>2, <1>7 DEF Copy
<1>9. /\ w.who = c
      /\ [w EXCEPT !.rows[r] = content] =
           [who |-> c, rows |-> [rows EXCEPT ![r] = content], entries |-> posted, events |-> emitted]
  BY <1>8, CopyExcept
<1>10. OwnWork' = [w EXCEPT !.rows[r] = content]
  BY <1>2, <1>6, <1>7, <1>9
<1> QED BY <1>1, <1>7, <1>9, <1>10 DEF Isolated!WriteRow

LEMMA PostEntryRefines ==
  ASSUME UnitInv, UnitInv', NEW c \in Commands, PostEntry(c) PROVE Isolated!AddEntry(c)
<1>1. /\ phase[c] = "running" /\ store' = [store EXCEPT ![c].entries = @ + 1]
      /\ UNCHANGED <<cache, disk, entries, events, phase>>
  BY DEF PostEntry
<1>2. OwnWork = Copy(c) /\ OwnWork' = Copy(c)'
  BY <1>1, OwnWorkIsCopy, CopyNext
<1>3. /\ store[c] \in RequestStore /\ store \in [Commands -> RequestStore]
      /\ entries \in [Commands -> Nat]
  BY DEF UnitInv, UnitTypeOK
<1>4. store'[c].entries = store[c].entries + 1 /\ store'[c].events = store[c].events
  BY <1>1, <1>3 DEF RequestStore
<1>5. Emitted(c)' = Emitted(c)
  BY <1>4 DEF Emitted
<1>6. Copy(c)' = [who |-> c, rows |-> cache,
                  entries |-> [entries EXCEPT ![c] = store[c].entries + 1],
                  events |-> events \o Emitted(c)]
  BY <1>1, <1>4, <1>5 DEF Copy
<1>7. PICK w, posted, emitted, more : /\ w = OwnWork /\ emitted = events \o Emitted(c)
        /\ posted = [entries EXCEPT ![c] = store[c].entries]
        /\ more = [entries EXCEPT ![c] = store[c].entries + 1]
  OBVIOUS
<1>8. w = [who |-> c, rows |-> cache, entries |-> posted, events |-> emitted]
  BY <1>2, <1>7 DEF Copy
<1>9. more = [posted EXCEPT ![c] = @ + 1]
  BY <1>3, <1>7
<1>10. /\ w.who = c /\ w.entries = posted
       /\ [w EXCEPT !.entries = more] =
            [who |-> c, rows |-> cache, entries |-> more, events |-> emitted]
  BY <1>8, CopyExcept
<1>11. OwnWork' = [w EXCEPT !.entries = more]
  BY <1>2, <1>6, <1>7, <1>10
<1>12. [w EXCEPT !.entries = more] = [w EXCEPT !.entries[c] = @ + 1]
  BY <1>9, <1>10
<1> QED BY <1>1, <1>7, <1>10, <1>11, <1>12 DEF Isolated!AddEntry

LEMMA EmitRefines ==
  ASSUME UnitInv, UnitInv', NEW c \in Commands, Emit(c) PROVE Isolated!AddEvent(c)
<1>1. /\ phase[c] = "running" /\ store' = [store EXCEPT ![c].events = @ + 1]
      /\ UNCHANGED <<cache, disk, entries, events, phase>>
  BY DEF Emit
<1>2. OwnWork = Copy(c) /\ OwnWork' = Copy(c)'
  BY <1>1, OwnWorkIsCopy, CopyNext
<1>3. /\ store[c] \in RequestStore /\ store \in [Commands -> RequestStore]
      /\ events \in Seq(Commands)
  BY DEF UnitInv, UnitTypeOK
<1>4. /\ store[c].events \in Nat
      /\ store'[c].entries = store[c].entries /\ store'[c].events = store[c].events + 1
  BY <1>1, <1>3 DEF RequestStore
<1>5. events \o Emitted(c)' = Append(events \o Emitted(c), c)
  BY <1>3, <1>4, EmittedOneMore DEF Emitted
<1>6. Copy(c)' = [who |-> c, rows |-> cache,
                  entries |-> [entries EXCEPT ![c] = store[c].entries],
                  events |-> Append(events \o Emitted(c), c)]
  BY <1>1, <1>4, <1>5 DEF Copy
<1>7. PICK w, posted, emitted, more : /\ w = OwnWork /\ emitted = events \o Emitted(c)
        /\ posted = [entries EXCEPT ![c] = store[c].entries] /\ more = Append(emitted, c)
  OBVIOUS
<1>8. w = [who |-> c, rows |-> cache, entries |-> posted, events |-> emitted]
  BY <1>2, <1>7 DEF Copy
<1>9. /\ w.who = c /\ w.events = emitted
      /\ [w EXCEPT !.events = more] =
           [who |-> c, rows |-> cache, entries |-> posted, events |-> more]
  BY <1>8, CopyExcept
<1>10. OwnWork' = [w EXCEPT !.events = Append(@, c)]
  BY <1>2, <1>6, <1>7, <1>9
<1> QED BY <1>1, <1>7, <1>9, <1>10 DEF Isolated!AddEvent

LEMMA CommitRefines ==
  ASSUME UnitInv, UnitInv', NEW c \in Commands, CommitUnit(c) PROVE Isolated!CommitWork(c)
<1>1. /\ phase[c] = "running" /\ EndScope(c) /\ cache' = cache
      /\ disk' = [r \in Records |-> IF r \in Taken(c) THEN cache[r] ELSE disk[r]]
      /\ entries' = [entries EXCEPT ![c] = store[c].entries]
      /\ events' = Trimmed(events \o Emitted(c))
  BY DEF CommitUnit
<1>2. Running' = {}
  BY <1>1, ScopeEnds
<1>3. OwnWork = Copy(c) /\ OwnWork' = Isolated!NoWork
  BY <1>1, <1>2, OwnWorkIsCopy, CopyNext
<1>4. disk' = cache
  BY <1>1, <1>2 DEF UnitInv, IdleCacheIsDisk
<1>5. events' = Isolated!Trimmed(events \o Emitted(c))
  BY <1>1 DEF Trimmed, Isolated!Trimmed
<1>6. /\ OwnWork.who = c /\ OwnWork.rows = cache /\ OwnWork.events = events \o Emitted(c)
      /\ OwnWork.entries = [entries EXCEPT ![c] = store[c].entries]
  BY <1>3 DEF Copy
<1> QED BY <1>1, <1>3, <1>4, <1>5, <1>6 DEF Isolated!CommitWork

LEMMA EndingRefines ==
  ASSUME UnitInv, UnitInv', NEW c \in Commands, phase[c] = "running", Running' = {},
         UNCHANGED <<disk, entries, events>>
  PROVE  Isolated!DropWork(c)
<1>1. OwnWork = Copy(c) /\ OwnWork' = Isolated!NoWork
  BY OwnWorkIsCopy, CopyNext
<1> QED BY <1>1 DEF Isolated!DropWork, Copy

LEMMA UnitInitRefines == UnitInit => Isolated!StoreInit
<1> SUFFICES ASSUME UnitInit PROVE Isolated!StoreInit
  OBVIOUS
<1>1. Running = {}
  BY DEF UnitInit, Running
<1>2. OwnWork = Isolated!NoWork
  BY <1>1 DEF OwnWork, Isolated!NoWork
<1> QED BY <1>2 DEF UnitInit, Isolated!StoreInit

LEMMA UnitNextRefines ==
  UnitInv /\ UnitInv' /\ [UnitNext]_unitVars => [Isolated!StoreNext]_Isolated!storeVars
<1> SUFFICES ASSUME UnitInv, UnitInv', [UnitNext]_unitVars
             PROVE  [Isolated!StoreNext]_Isolated!storeVars
  OBVIOUS
<1>1. ASSUME Died PROVE Isolated!StoreNext
  <2>1. PICK c \in Commands : phase[c] = "running"
    BY <1>1 DEF Died, Running
  <2>2. Running' = {} /\ UNCHANGED <<disk, entries, events>>
    BY <1>1 DEF Died, Running
  <2> QED BY <2>1, <2>2, EndingRefines DEF Isolated!StoreNext
<1>2. ASSUME NEW c \in Commands, Begin(c) PROVE Isolated!StoreNext
  BY <1>2, BeginRefines DEF Isolated!StoreNext
<1>3. ASSUME NEW c \in Commands, PostEntry(c) PROVE Isolated!StoreNext
  BY <1>3, PostEntryRefines DEF Isolated!StoreNext
<1>4. ASSUME NEW c \in Commands, Emit(c) PROVE Isolated!StoreNext
  BY <1>4, EmitRefines DEF Isolated!StoreNext
<1>5. ASSUME NEW c \in Commands, CommitUnit(c) PROVE Isolated!StoreNext
  BY <1>5, CommitRefines DEF Isolated!StoreNext
<1>6. ASSUME NEW c \in Commands, Fail(c) PROVE Isolated!StoreNext
  <2>1. phase[c] = "running" /\ EndScope(c) /\ UNCHANGED <<disk, entries, events>>
    BY <1>6 DEF Fail
  <2>2. Running' = {}
    BY <2>1, ScopeEnds
  <2> QED BY <2>1, <2>2, EndingRefines DEF Isolated!StoreNext
<1>7. ASSUME NEW c \in Commands, NEW r \in Records, NEW content \in Content,
             phase[c] = "running", Write(c, r, content)
      PROVE  Isolated!StoreNext
  <2>1. Isolated!WriteRow(c, r, content)
    BY <1>7, WriteRefines
  <2>2. content \in Isolated!Content
    BY DEF Content, Isolated!Content
  <2> QED BY <2>1, <2>2 DEF Isolated!StoreNext
<1>8. ASSUME NEW c \in Commands, NEW r \in Records, SetRow(c, r) PROVE Isolated!StoreNext
  <2>1. [f \in Fields |-> c] \in Content
    BY DEF Content
  <2> QED BY <1>7, <1>8, <2>1 DEF SetRow
<1>9. ASSUME NEW c \in Commands, NEW r \in Records, Delete(c, r) PROVE Isolated!StoreNext
  <2>1. Absent \in Content
    BY DEF Content
  <2> QED BY <1>7, <1>9, <2>1 DEF Delete
<1>10. ASSUME NEW c \in Commands, NEW r \in Records, NEW f \in Fields, SetField(c, r, f)
       PROVE  Isolated!StoreNext
  <2>1. cache[r] \in [Fields -> Commands \cup {Seeded}]
    BY <1>10 DEF SetField, UnitInv, UnitTypeOK, Content
  <2>2. [cache[r] EXCEPT ![f] = c] \in Content
    BY <2>1 DEF Content
  <2>3. phase[c] = "running" /\ Write(c, r, [cache[r] EXCEPT ![f] = c])
    BY <1>10 DEF SetField
  <2> QED BY <1>7, <2>2, <2>3
<1>11. CASE UNCHANGED unitVars
  <2>1. UNCHANGED <<disk, entries, events, phase, store, cache>>
    BY <1>11 DEF unitVars
  <2>2. UNCHANGED OwnWork
    BY <2>1 DEF OwnWork, Running, Emitted
  <2> QED BY <2>1, <2>2 DEF Isolated!storeVars
<1> QED BY <1>1, <1>2, <1>3, <1>4, <1>5, <1>6, <1>8, <1>9, <1>10, <1>11 DEF UnitNext

(* A command sees the committed state and its own writes and takes effect  *)
(* at once or not at all: the unit of work implements the store of         *)
(* CommandStore (inRequestScope, lib.js), which is what lets the other     *)
(* modules take a request as one step.                                     *)
THEOREM UnitRefinement == UnitSpec => ImplementsCommandStore
BY UnitInitRefines, UnitNextRefines, UnitInvariant, PTL
   DEF UnitSpec, ImplementsCommandStore, Isolated!StoreSpec

-----------------------------------------------------------------------------
(***************************************************************************)
(* The bank's books under all its products and the builder at once. First  *)
(* what a request's postings add, book by book.                            *)
(***************************************************************************)
Owners == Held \cup House

NobodyOverdrawn == \A b \in Books : b[1] \in Held => ledger[b] >= 0

LEMMA AccountsAreHeld ==
  \A a \in Accounts : a \in Held /\ a \in Owners /\ CurrencyOf[a] \in Currencies
BY CustomersAssumption DEF Owners

LEMMA RatesAssumed ==
  /\ \A c \in Currencies : Mid[c] \in Nat \ {0}
  /\ Spread \in 0 .. 10000 /\ QuoteLife \in Nat
BY ProductAssumption

LEMMA VaultsAndLines ==
  /\ Vaults \cup Lines \subseteq Held \ Accounts /\ Vaults \cap Lines = {}
  /\ \A x \in Vaults \cup Lines : AccountOf[x] \in Accounts
<1>1. AccountOf \in [Vaults \cup Lines -> Accounts]
  BY ProductAssumption
<1>2. Vaults \cup Lines \subseteq Held \ Accounts /\ Vaults \cap Lines = {}
  BY ProductAssumption
<1> QED BY <1>1, <1>2

LEMMA HouseBooks ==
  /\ OwnBooks \subseteq House /\ DOMAIN Rails \subseteq House \ OwnBooks
  /\ ProjectBooks \subseteq House \ (OwnBooks \cup DOMAIN Rails)
  /\ House \subseteq Owners \ Accounts /\ House \cap Held = {}
<1>1. OwnBooks \subseteq House /\ DOMAIN Rails \subseteq House \ OwnBooks
  BY ProductAssumption
<1>2. ProjectBooks \subseteq House \ (OwnBooks \cup DOMAIN Rails)
  BY ProjectsAssumption
<1>3. House \subseteq Owners \ Accounts /\ House \cap Held = {}
  BY CustomersAssumption DEF Owners
<1> QED BY <1>1, <1>2, <1>3

LEMMA CoinsAssumed ==
  /\ DOMAIN Coins \subseteq Currencies
  /\ \A coin \in DOMAIN Coins : Coins[coin] \in Currencies \ DOMAIN Coins
BY ProductAssumption

LEMMA FiniteBooks ==
  /\ IsFiniteSet(Accounts) /\ IsFiniteSet(Currencies) /\ IsFiniteSet(Simulations)
  /\ IsFiniteSet(Transfers) /\ IsFiniteSet(Lines) /\ IsFiniteSet(Payments)
<1>1. IsFiniteSet(Payments)
  BY ProjectsAssumption
<1>2. /\ IsFiniteSet(Accounts) /\ IsFiniteSet(Currencies) /\ IsFiniteSet(Simulations)
      /\ IsFiniteSet(Transfers) /\ IsFiniteSet(Lines)
  BY ProductAssumption
<1> QED BY <1>1, <1>2

Part(posted, b) == IF b \in DOMAIN posted THEN posted[b] ELSE 0

Adds(n, c, from, to, b) ==
  IF b = <<from, c>> THEN -n ELSE IF b = <<to, c>> THEN n ELSE 0

LEMMA PostIs ==
  ASSUME LedgerTypeOK, NobodyOverdrawn, NEW posted, Post(posted),
         \A b \in Books : Part(posted, b) \in Int
  PROVE  /\ LedgerTypeOK' /\ NobodyOverdrawn'
         /\ \A b \in Books : ledger'[b] = ledger[b] + Part(posted, b)
<1>1. \A b \in Books : ledger[b] \in Int
  BY DEF LedgerTypeOK
<1>2. ledger' = [b \in Books |-> ledger[b] + IF b \in DOMAIN posted THEN posted[b] ELSE 0]
  BY DEF Post, Posted
<1>3. \A b \in Books : ledger'[b] = ledger[b] + Part(posted, b)
  BY <1>2 DEF Part
<1>4. \A b \in Books : ledger'[b] \in Int
  BY <1>1, <1>3
<1>5. LedgerTypeOK'
  BY <1>2, <1>4 DEF LedgerTypeOK
<1>6. ASSUME NEW b \in Books, b[1] \in Held PROVE ledger'[b] >= 0
  <2>1. PICK n \in Int : n = Part(posted, b)
    OBVIOUS
  <2>2. ledger'[b] = ledger[b] + n /\ ledger[b] >= 0 /\ ledger[b] \in Int
    BY <1>1, <1>3, <1>6, <2>1 DEF NobodyOverdrawn
  <2>3. CASE n >= 0
    BY <2>2, <2>3
  <2>4. CASE n < 0
    <3>1. b \in DOMAIN posted /\ posted[b] = n
      BY <2>1, <2>4 DEF Part
    <3>2. ledger[b] + n >= 0
      BY <1>6, <2>4, <3>1 DEF Post, NoOverdraft
    <3> QED BY <2>2, <3>2
  <2> QED BY <2>1, <2>3, <2>4
<1> QED BY <1>3, <1>5, <1>6 DEF NobodyOverdrawn

LEMMA MovedAdds ==
  ASSUME NEW n \in Int, NEW c \in Currencies, NEW from \in Owners, NEW to \in Owners, from # to,
         NEW b \in Books
  PROVE  Part(Moved(n, c, from, to), b) = Adds(n, c, from, to, b) /\ Adds(n, c, from, to, b) \in Int
<1>1. PICK u : u = <<from, c>>
  OBVIOUS
<1>2. PICK v : v = <<to, c>>
  OBVIOUS
<1>3. u # v
  BY <1>1, <1>2
<1>4. PICK posted : posted = Moved(n, c, from, to)
  OBVIOUS
<1>5. posted = [x \in {u, v} |-> IF x = u THEN -n ELSE n]
  BY <1>1, <1>2, <1>4 DEF Moved
<1>6. DOMAIN posted = {u, v} /\ posted[u] = -n /\ posted[v] = n
  BY <1>3, <1>5
<1>7. Part(posted, b) = IF b = u THEN -n ELSE IF b = v THEN n ELSE 0
  BY <1>3, <1>6 DEF Part
<1>8. Adds(n, c, from, to, b) = IF b = u THEN -n ELSE IF b = v THEN n ELSE 0
  BY <1>1, <1>2 DEF Adds
<1>9. Adds(n, c, from, to, b) \in Int
  BY <1>8
<1> QED BY <1>4, <1>7, <1>8, <1>9

LEMMA MovePosted ==
  ASSUME LedgerTypeOK, NobodyOverdrawn, NEW n \in Int, NEW c \in Currencies,
         NEW from \in Owners, NEW to \in Owners, from # to, Move(n, c, from, to)
  PROVE  /\ LedgerTypeOK' /\ NobodyOverdrawn'
         /\ \A b \in Books : ledger'[b] = ledger[b] + Adds(n, c, from, to, b)
<1>1. PICK posted : posted = Moved(n, c, from, to)
  OBVIOUS
<1>2. Post(posted)
  BY <1>1 DEF Move
<1>3. \A b \in Books : Part(posted, b) = Adds(n, c, from, to, b) /\ Part(posted, b) \in Int
  BY <1>1, MovedAdds
<1> QED BY <1>2, <1>3, PostIs

LEMMA BothPosted ==
  ASSUME LedgerTypeOK, NobodyOverdrawn,
         NEW n \in Int, NEW c \in Currencies, NEW from \in Owners, NEW to \in Owners, from # to,
         NEW m \in Int, NEW d \in Currencies, NEW giver \in Owners, NEW taker \in Owners, giver # taker,
         Post(Together(Moved(n, c, from, to), Moved(m, d, giver, taker)))
  PROVE  /\ LedgerTypeOK' /\ NobodyOverdrawn'
         /\ \A b \in Books :
              ledger'[b] = ledger[b] + (Adds(n, c, from, to, b) + Adds(m, d, giver, taker, b))
<1>1. PICK one : one = Moved(n, c, from, to)
  OBVIOUS
<1>2. PICK two : two = Moved(m, d, giver, taker)
  OBVIOUS
<1>3. PICK posted : posted = Together(one, two)
  OBVIOUS
<1>4. posted = [b \in DOMAIN one \cup DOMAIN two |->
                  (IF b \in DOMAIN one THEN one[b] ELSE 0) + (IF b \in DOMAIN two THEN two[b] ELSE 0)]
  BY <1>3 DEF Together
<1>5. Post(posted)
  BY <1>1, <1>2, <1>3
<1>6. ASSUME NEW b \in Books
      PROVE  /\ Part(posted, b) = Adds(n, c, from, to, b) + Adds(m, d, giver, taker, b)
             /\ Part(posted, b) \in Int
  <2>1. Part(one, b) = Adds(n, c, from, to, b) /\ Part(one, b) \in Int
    BY <1>1, MovedAdds
  <2>2. Part(two, b) = Adds(m, d, giver, taker, b) /\ Part(two, b) \in Int
    BY <1>2, MovedAdds
  <2>3. Part(posted, b) = Part(one, b) + Part(two, b)
    <3>1. CASE b \in DOMAIN one \cup DOMAIN two
      BY <1>4, <3>1 DEF Part
    <3>2. CASE b \notin DOMAIN one \cup DOMAIN two
      BY <1>4, <3>2 DEF Part
    <3> QED BY <3>1, <3>2
  <2> QED BY <2>1, <2>2, <2>3
<1> QED BY <1>5, <1>6, PostIs

-----------------------------------------------------------------------------
(* What a step leaves alone: the books of every owner but those of S and   *)
(* the customers' accounts, and of an account all but its own currency.    *)
Touches(S) ==
  /\ LedgerTypeOK' /\ NobodyOverdrawn'
  /\ \A x \in Owners \ (S \cup Accounts), d \in Currencies : ledger'[<<x, d>>] = ledger[<<x, d>>]

OwnMoney ==
  \A a \in Accounts, d \in Currencies : d # CurrencyOf[a] => ledger'[<<a, d>>] = ledger[<<a, d>>]

(* An owner's books gain n of one currency.                                *)
Gains(x, c, n) ==
  \A d \in Currencies : ledger'[<<x, d>>] = ledger[<<x, d>>] + IF d = c THEN n ELSE 0

LEMMA LeavesAccount ==
  ASSUME LedgerTypeOK, NobodyOverdrawn, NEW n \in Int, NEW a \in Accounts,
         NEW x \in Owners \ Accounts, Move(n, CurrencyOf[a], a, x)
  PROVE  Touches({x}) /\ OwnMoney /\ Gains(x, CurrencyOf[a], n)
<1>1. PICK c \in Currencies : c = CurrencyOf[a]
  BY AccountsAreHeld
<1>2. a \in Owners /\ a # x
  BY AccountsAreHeld
<1>3. /\ LedgerTypeOK' /\ NobodyOverdrawn'
      /\ \A b \in Books : ledger'[b] = ledger[b] + Adds(n, c, a, x, b)
  BY <1>1, <1>2, MovePosted
<1>4. ASSUME NEW y \in Owners, NEW d \in Currencies
      PROVE  /\ ledger'[<<y, d>>] = ledger[<<y, d>>] + Adds(n, c, a, x, <<y, d>>)
             /\ ledger[<<y, d>>] \in Int
  <2>1. <<y, d>> \in Books
    BY DEF Books, Owners
  <2> QED BY <1>3, <2>1 DEF LedgerTypeOK
<1>5. ASSUME NEW y \in Owners \ ({x} \cup Accounts), NEW d \in Currencies
      PROVE  ledger'[<<y, d>>] = ledger[<<y, d>>]
  <2>1. Adds(n, c, a, x, <<y, d>>) = 0
    BY <1>5 DEF Adds
  <2> QED BY <1>4, <2>1
<1>6. ASSUME NEW y \in Accounts, NEW d \in Currencies, d # CurrencyOf[y]
      PROVE  ledger'[<<y, d>>] = ledger[<<y, d>>]
  <2>1. y \in Owners /\ y # x
    BY AccountsAreHeld
  <2>2. Adds(n, c, a, x, <<y, d>>) = 0
    BY <1>1, <1>6, <2>1 DEF Adds
  <2> QED BY <1>4, <2>1, <2>2
<1>7. ASSUME NEW d \in Currencies
      PROVE  ledger'[<<x, d>>] = ledger[<<x, d>>] + IF d = c THEN n ELSE 0
  <2>1. Adds(n, c, a, x, <<x, d>>) = IF d = c THEN n ELSE 0
    BY <1>2 DEF Adds
  <2> QED BY <1>4, <2>1
<1> QED BY <1>1, <1>3, <1>5, <1>6, <1>7 DEF Touches, OwnMoney, Gains

LEMMA EntersAccount ==
  ASSUME LedgerTypeOK, NobodyOverdrawn, NEW n \in Int, NEW a \in Accounts,
         NEW x \in Owners \ Accounts, Move(n, CurrencyOf[a], x, a)
  PROVE  Touches({x}) /\ OwnMoney /\ Gains(x, CurrencyOf[a], -n)
<1>1. PICK c \in Currencies : c = CurrencyOf[a]
  BY AccountsAreHeld
<1>2. a \in Owners /\ a # x
  BY AccountsAreHeld
<1>3. /\ LedgerTypeOK' /\ NobodyOverdrawn'
      /\ \A b \in Books : ledger'[b] = ledger[b] + Adds(n, c, x, a, b)
  BY <1>1, <1>2, MovePosted
<1>4. ASSUME NEW y \in Owners, NEW d \in Currencies
      PROVE  /\ ledger'[<<y, d>>] = ledger[<<y, d>>] + Adds(n, c, x, a, <<y, d>>)
             /\ ledger[<<y, d>>] \in Int
  <2>1. <<y, d>> \in Books
    BY DEF Books, Owners
  <2> QED BY <1>3, <2>1 DEF LedgerTypeOK
<1>5. ASSUME NEW y \in Owners \ ({x} \cup Accounts), NEW d \in Currencies
      PROVE  ledger'[<<y, d>>] = ledger[<<y, d>>]
  <2>1. Adds(n, c, x, a, <<y, d>>) = 0
    BY <1>5 DEF Adds
  <2> QED BY <1>4, <2>1
<1>6. ASSUME NEW y \in Accounts, NEW d \in Currencies, d # CurrencyOf[y]
      PROVE  ledger'[<<y, d>>] = ledger[<<y, d>>]
  <2>1. y \in Owners /\ y # x
    BY AccountsAreHeld
  <2>2. Adds(n, c, x, a, <<y, d>>) = 0
    BY <1>1, <1>6, <2>1 DEF Adds
  <2> QED BY <1>4, <2>1, <2>2
<1>7. ASSUME NEW d \in Currencies
      PROVE  ledger'[<<x, d>>] = ledger[<<x, d>>] + IF d = c THEN -n ELSE 0
  <2>1. Adds(n, c, x, a, <<x, d>>) = IF d = c THEN -n ELSE 0
    BY <1>2 DEF Adds
  <2> QED BY <1>4, <2>1
<1> QED BY <1>1, <1>3, <1>5, <1>6, <1>7 DEF Touches, OwnMoney, Gains

LEMMA BothReported ==
  ASSUME LedgerTypeOK, NobodyOverdrawn,
         NEW n \in Int, NEW c \in Currencies, NEW from \in Owners, NEW to \in Owners, from # to,
         NEW m \in Int, NEW d \in Currencies, NEW giver \in Owners, NEW taker \in Owners, giver # taker,
         Post(Together(Moved(n, c, from, to), Moved(m, d, giver, taker)))
  PROVE  /\ LedgerTypeOK' /\ NobodyOverdrawn'
         /\ \A y \in Owners, e \in Currencies :
              /\ ledger[<<y, e>>] \in Int
              /\ ledger'[<<y, e>>] =
                   ledger[<<y, e>>] + (Adds(n, c, from, to, <<y, e>>) + Adds(m, d, giver, taker, <<y, e>>))
<1>1. /\ LedgerTypeOK' /\ NobodyOverdrawn'
      /\ \A b \in Books :
           ledger'[b] = ledger[b] + (Adds(n, c, from, to, b) + Adds(m, d, giver, taker, b))
  BY BothPosted
<1>2. ASSUME NEW y \in Owners, NEW e \in Currencies
      PROVE  /\ ledger[<<y, e>>] \in Int
             /\ ledger'[<<y, e>>] =
                  ledger[<<y, e>>] + (Adds(n, c, from, to, <<y, e>>) + Adds(m, d, giver, taker, <<y, e>>))
  <2>1. <<y, e>> \in Books
    BY DEF Books, Owners
  <2> QED BY <1>1, <2>1 DEF LedgerTypeOK
<1> QED BY <1>1, <1>2

CreditOwners(l) == {l, "clearing:credit", "clearing:credit:liability"}

(* Drawing and repaying: the cash and the debt move together.              *)
LEMMA CreditPosted ==
  ASSUME LedgerTypeOK, NobodyOverdrawn, NEW l \in Lines, NEW n \in Int, Post(FourLegs(l, n))
  PROVE  /\ Touches(CreditOwners(l)) /\ OwnMoney
         /\ Gains(l, InCurrencyOf(l), n)
         /\ Gains("clearing:credit", InCurrencyOf(l), -n)
         /\ Gains("clearing:credit:liability", InCurrencyOf(l), -n)
<1>1. PICK a \in Accounts : a = AccountOf[l]
  BY VaultsAndLines
<1>2. PICK c \in Currencies : c = InCurrencyOf(l) /\ c = CurrencyOf[a]
  BY <1>1, AccountsAreHeld DEF InCurrencyOf
<1>3. PICK cash : cash = "clearing:credit"
  OBVIOUS
<1>4. PICK debt : debt = "clearing:credit:liability"
  OBVIOUS
<1>5. cash \in House /\ debt \in House /\ cash # debt
  BY <1>3, <1>4, HouseBooks DEF OwnBooks
<1>6. /\ a \in Owners /\ l \in Owners /\ cash \in Owners /\ debt \in Owners
      /\ a # l /\ a # cash /\ a # debt /\ l # cash /\ l # debt /\ cash # debt
  BY <1>5, AccountsAreHeld, VaultsAndLines, HouseBooks DEF Owners
<1>7. Post(Together(Moved(n, c, cash, a), Moved(n, c, debt, l)))
  BY <1>1, <1>2, <1>3, <1>4 DEF FourLegs
<1>8. /\ LedgerTypeOK' /\ NobodyOverdrawn'
      /\ \A y \in Owners, d \in Currencies :
           /\ ledger[<<y, d>>] \in Int
           /\ ledger'[<<y, d>>] =
                ledger[<<y, d>>] + (Adds(n, c, cash, a, <<y, d>>) + Adds(n, c, debt, l, <<y, d>>))
  BY <1>6, <1>7, BothReported
<1>9. ASSUME NEW y \in Owners \ (CreditOwners(l) \cup Accounts), NEW d \in Currencies
      PROVE  ledger'[<<y, d>>] = ledger[<<y, d>>]
  <2>1. y # l /\ y # cash /\ y # debt /\ y # a
    BY <1>3, <1>4 DEF CreditOwners
  <2>2. Adds(n, c, cash, a, <<y, d>>) = 0 /\ Adds(n, c, debt, l, <<y, d>>) = 0
    BY <2>1 DEF Adds
  <2> QED BY <1>8, <2>2
<1>10. ASSUME NEW y \in Accounts, NEW d \in Currencies, d # CurrencyOf[y]
       PROVE  ledger'[<<y, d>>] = ledger[<<y, d>>]
  <2>1. y \in Owners /\ y # l /\ y # cash /\ y # debt
    BY <1>5, AccountsAreHeld, VaultsAndLines, HouseBooks
  <2>2. Adds(n, c, cash, a, <<y, d>>) = 0 /\ Adds(n, c, debt, l, <<y, d>>) = 0
    BY <1>2, <1>10, <2>1 DEF Adds
  <2> QED BY <1>8, <2>1, <2>2
<1>11. ASSUME NEW d \in Currencies
       PROVE  /\ ledger'[<<l, d>>] = ledger[<<l, d>>] + IF d = c THEN n ELSE 0
              /\ ledger'[<<cash, d>>] = ledger[<<cash, d>>] + IF d = c THEN -n ELSE 0
              /\ ledger'[<<debt, d>>] = ledger[<<debt, d>>] + IF d = c THEN -n ELSE 0
  <2>1. Adds(n, c, cash, a, <<l, d>>) = 0 /\ Adds(n, c, debt, l, <<l, d>>) = IF d = c THEN n ELSE 0
    BY <1>6 DEF Adds
  <2>2. Adds(n, c, cash, a, <<cash, d>>) = (IF d = c THEN -n ELSE 0) /\ Adds(n, c, debt, l, <<cash, d>>) = 0
    BY <1>6 DEF Adds
  <2>3. Adds(n, c, cash, a, <<debt, d>>) = 0 /\ Adds(n, c, debt, l, <<debt, d>>) = IF d = c THEN -n ELSE 0
    BY <1>6 DEF Adds
  <2>4. ledger[<<l, d>>] \in Int /\ ledger[<<cash, d>>] \in Int /\ ledger[<<debt, d>>] \in Int
    BY <1>6, <1>8
  <2>5. ledger'[<<l, d>>] = ledger[<<l, d>>] + IF d = c THEN n ELSE 0
    BY <1>6, <1>8, <2>1, <2>4
  <2>6. ledger'[<<cash, d>>] = ledger[<<cash, d>>] + IF d = c THEN -n ELSE 0
    BY <1>6, <1>8, <2>2, <2>4
  <2>7. ledger'[<<debt, d>>] = ledger[<<debt, d>>] + IF d = c THEN -n ELSE 0
    BY <1>6, <1>8, <2>3, <2>4
  <2> QED BY <2>5, <2>6, <2>7
<1>12. Touches(CreditOwners(l)) /\ OwnMoney
  BY <1>8, <1>9, <1>10 DEF Touches, OwnMoney
<1>13. Gains(l, c, n) /\ Gains(cash, c, -n) /\ Gains(debt, c, -n)
  BY <1>11 DEF Gains
<1> QED BY <1>2, <1>3, <1>4, <1>12, <1>13

(* The clearing account of exchanges takes n of one currency for m of      *)
(* another.                                                                *)
Swaps(c, n, k, m) ==
  \A d \in Currencies :
    ledger'[<<"fx:clearing", d>>] = ledger[<<"fx:clearing", d>>]
      + ((IF d = c THEN n ELSE 0) + (IF d = k THEN -m ELSE 0))

(* An exchange: what was paid in comes to the clearing account, what is    *)
(* paid out leaves it; the two currencies may be one.                      *)
LEMMA ExchangePosted ==
  ASSUME LedgerTypeOK, NobodyOverdrawn, NEW a \in Accounts, NEW z \in Accounts,
         NEW n \in Int, NEW m \in Int,
         Post(Together(Moved(n, CurrencyOf[a], a, "fx:clearing"),
                       Moved(m, CurrencyOf[z], "fx:clearing", z)))
  PROVE  Touches({"fx:clearing"}) /\ OwnMoney /\ Swaps(CurrencyOf[a], n, CurrencyOf[z], m)
<1>1. PICK c \in Currencies : c = CurrencyOf[a]
  BY AccountsAreHeld
<1>2. PICK k \in Currencies : k = CurrencyOf[z]
  BY AccountsAreHeld
<1>3. PICK fx : fx = "fx:clearing"
  OBVIOUS
<1>4. fx \in House
  BY <1>3, HouseBooks DEF OwnBooks
<1>5. a \in Owners /\ z \in Owners /\ fx \in Owners /\ a # fx /\ z # fx
  BY <1>4, AccountsAreHeld, HouseBooks DEF Owners
<1>6. Post(Together(Moved(n, c, a, fx), Moved(m, k, fx, z)))
  BY <1>1, <1>2, <1>3
<1>7. /\ LedgerTypeOK' /\ NobodyOverdrawn'
      /\ \A y \in Owners, d \in Currencies :
           /\ ledger[<<y, d>>] \in Int
           /\ ledger'[<<y, d>>] =
                ledger[<<y, d>>] + (Adds(n, c, a, fx, <<y, d>>) + Adds(m, k, fx, z, <<y, d>>))
  BY <1>5, <1>6, BothReported
<1>8. ASSUME NEW y \in Owners \ ({fx} \cup Accounts), NEW d \in Currencies
      PROVE  ledger'[<<y, d>>] = ledger[<<y, d>>]
  <2>1. y # fx /\ y # a /\ y # z
    OBVIOUS
  <2>2. Adds(n, c, a, fx, <<y, d>>) = 0 /\ Adds(m, k, fx, z, <<y, d>>) = 0
    BY <2>1 DEF Adds
  <2> QED BY <1>7, <2>2
<1>9. ASSUME NEW y \in Accounts, NEW d \in Currencies, d # CurrencyOf[y]
      PROVE  ledger'[<<y, d>>] = ledger[<<y, d>>]
  <2>1. y \in Owners /\ y # fx
    BY <1>4, AccountsAreHeld, HouseBooks
  <2>2. Adds(n, c, a, fx, <<y, d>>) = 0 /\ Adds(m, k, fx, z, <<y, d>>) = 0
    BY <1>1, <1>2, <1>9, <2>1 DEF Adds
  <2> QED BY <1>7, <2>1, <2>2
<1>10. ASSUME NEW d \in Currencies
       PROVE  ledger'[<<fx, d>>] = ledger[<<fx, d>>]
                + ((IF d = c THEN n ELSE 0) + (IF d = k THEN -m ELSE 0))
  <2>1. Adds(n, c, a, fx, <<fx, d>>) = IF d = c THEN n ELSE 0
    BY <1>5 DEF Adds
  <2>2. Adds(m, k, fx, z, <<fx, d>>) = IF d = k THEN -m ELSE 0
    BY <1>5 DEF Adds
  <2> QED BY <1>5, <1>7, <2>1, <2>2
<1> QED BY <1>1, <1>2, <1>3, <1>7, <1>8, <1>9, <1>10 DEF Touches, OwnMoney, Swaps

CoinOwners == {"reserve:issuer", "issuance:coin"}

(* A ramp: money goes to the reserve and as much of the coin is issued.    *)
LEMMA RampPosted ==
  ASSUME LedgerTypeOK, NobodyOverdrawn, NEW a \in Accounts, NEW coin \in DOMAIN Coins,
         CurrencyOf[a] = Coins[coin], NEW n \in Int, Ramp(a, coin, n)
  PROVE  /\ Touches(CoinOwners)
         /\ Gains("reserve:issuer", Coins[coin], n) /\ Gains("issuance:coin", coin, -n)
         /\ \A z \in Accounts, k \in Currencies :
              k # CurrencyOf[z] =>
                ledger'[<<z, k>>] = ledger[<<z, k>>] + IF z = a /\ k = coin THEN n ELSE 0
<1>1. PICK c \in Currencies : c = Coins[coin]
  BY CoinsAssumed
<1>2. coin \in Currencies /\ coin # c
  BY <1>1, CoinsAssumed
<1>3. PICK kept : kept = "reserve:issuer"
  OBVIOUS
<1>4. PICK issued : issued = "issuance:coin"
  OBVIOUS
<1>5. kept \in House /\ issued \in House /\ kept # issued
  BY <1>3, <1>4, HouseBooks DEF OwnBooks
<1>6. /\ a \in Owners /\ kept \in Owners /\ issued \in Owners
      /\ a # kept /\ a # issued /\ kept # issued
  BY <1>5, AccountsAreHeld, HouseBooks DEF Owners
<1>7. Post(Together(Moved(n, c, a, kept), Moved(n, coin, issued, a)))
  BY <1>1, <1>3, <1>4 DEF Ramp
<1>8. /\ LedgerTypeOK' /\ NobodyOverdrawn'
      /\ \A y \in Owners, d \in Currencies :
           /\ ledger[<<y, d>>] \in Int
           /\ ledger'[<<y, d>>] =
                ledger[<<y, d>>] + (Adds(n, c, a, kept, <<y, d>>) + Adds(n, coin, issued, a, <<y, d>>))
  BY <1>2, <1>6, <1>7, BothReported
<1>9. ASSUME NEW y \in Owners \ (CoinOwners \cup Accounts), NEW d \in Currencies
      PROVE  ledger'[<<y, d>>] = ledger[<<y, d>>]
  <2>1. y # kept /\ y # issued /\ y # a
    BY <1>3, <1>4 DEF CoinOwners
  <2>2. Adds(n, c, a, kept, <<y, d>>) = 0 /\ Adds(n, coin, issued, a, <<y, d>>) = 0
    BY <2>1 DEF Adds
  <2> QED BY <1>8, <2>2
<1>10. ASSUME NEW z \in Accounts, NEW k \in Currencies, k # CurrencyOf[z]
       PROVE  ledger'[<<z, k>>] = ledger[<<z, k>>] + IF z = a /\ k = coin THEN n ELSE 0
  <2>1. z \in Owners /\ z # kept /\ z # issued
    BY <1>5, AccountsAreHeld, HouseBooks
  <2>2. Adds(n, c, a, kept, <<z, k>>) = 0
    BY <1>1, <1>10, <2>1 DEF Adds
  <2>3. Adds(n, coin, issued, a, <<z, k>>) = IF z = a /\ k = coin THEN n ELSE 0
    BY <2>1 DEF Adds
  <2>4. ledger[<<z, k>>] \in Int
    BY <1>8, <2>1
  <2> QED BY <1>8, <2>1, <2>2, <2>3, <2>4
<1>11. ASSUME NEW d \in Currencies
       PROVE  /\ ledger'[<<kept, d>>] = ledger[<<kept, d>>] + IF d = c THEN n ELSE 0
              /\ ledger'[<<issued, d>>] = ledger[<<issued, d>>] + IF d = coin THEN -n ELSE 0
  <2>1. /\ Adds(n, c, a, kept, <<kept, d>>) = IF d = c THEN n ELSE 0
        /\ Adds(n, coin, issued, a, <<kept, d>>) = 0
    BY <1>6 DEF Adds
  <2>2. /\ Adds(n, c, a, kept, <<issued, d>>) = 0
        /\ Adds(n, coin, issued, a, <<issued, d>>) = IF d = coin THEN -n ELSE 0
    BY <1>6 DEF Adds
  <2>3. ledger[<<kept, d>>] \in Int /\ ledger[<<issued, d>>] \in Int
    BY <1>6, <1>8
  <2>4. ledger'[<<kept, d>>] = ledger[<<kept, d>>] + IF d = c THEN n ELSE 0
    BY <1>6, <1>8, <2>1, <2>3
  <2>5. ledger'[<<issued, d>>] = ledger[<<issued, d>>] + IF d = coin THEN -n ELSE 0
    BY <1>6, <1>8, <2>2, <2>3
  <2> QED BY <2>4, <2>5
<1> QED BY <1>1, <1>3, <1>4, <1>8, <1>9, <1>10, <1>11 DEF Touches, Gains

-----------------------------------------------------------------------------
(***************************************************************************)
(* Each part of the books, with what a step does to it: nothing, when it   *)
(* spares the part's owners and leaves its records alone.                  *)
(***************************************************************************)
Spared(S) == \A x \in S, d \in Currencies : ledger'[<<x, d>>] = ledger[<<x, d>>]

LEMMA BookIsInteger ==
  ASSUME LedgerTypeOK, NEW x \in Owners, NEW c \in Currencies
  PROVE  ledger[<<x, c>>] \in Int
<1>1. <<x, c>> \in Books
  BY DEF Books, Owners
<1> QED BY <1>1 DEF LedgerTypeOK

(* What the simulator paid in.                                             *)
SandboxExplained == \A c \in Currencies : -Holds("external:sandbox", c) = PaidBySimulation(c)
SandboxInv == SimulationsInv /\ SandboxExplained

LEMMA SandboxKept ==
  ASSUME SandboxInv, Spared({"external:sandbox"}), simulation' = simulation
  PROVE  SandboxInv'
<1>1. SimulationsInv'
  BY DEF SandboxInv, SimulationsInv
<1>2. ASSUME NEW c \in Currencies
      PROVE  PaidBySimulation(c)' = PaidBySimulation(c) /\ Holds("external:sandbox", c)' = Holds("external:sandbox", c)
  BY DEF PaidBySimulation, SettledIn, Spared, Holds
<1> QED BY <1>1, <1>2 DEF SandboxInv, SandboxExplained

Paying(x, c) == x.status = "settled" /\ x.of \in Accounts /\ CurrencyOf[x.of] = c

LEMMA PaidMore ==
  ASSUME SimulationsInv, NEW s \in Simulations, NEW row \in SimulationRows,
         simulation[s].status # "settled", simulation' = [simulation EXCEPT ![s] = row],
         NEW c \in Currencies
  PROVE  /\ PaidBySimulation(c) \in Int
         /\ PaidBySimulation(c)' = PaidBySimulation(c) + IF Paying(row, c) THEN row.amount ELSE 0
<1>1. PICK f : f = [x \in Simulations |-> simulation[x].amount]
  OBVIOUS
<1>2. PICK g : g = [x \in Simulations |-> simulation'[x].amount]
  OBVIOUS
<1>3. simulation'[s] = row /\ \A x \in Simulations : x # s => simulation'[x] = simulation[x]
  BY DEF SimulationsInv
<1>4. \A x \in Simulations : simulation[x].amount \in Nat
  BY DEF SimulationsInv, SimulationRows
<1>5. row.amount \in Nat
  BY DEF SimulationRows
<1>6. \A x \in Simulations : f[x] \in Int /\ g[x] \in Int
  <2>1. ASSUME NEW x \in Simulations PROVE f[x] \in Int /\ g[x] \in Int
    <3>1. CASE x = s
      BY <1>1, <1>2, <1>3, <1>4, <1>5, <3>1
    <3>2. CASE x # s
      BY <1>1, <1>2, <1>3, <1>4, <3>2
    <3> QED BY <3>1, <3>2
  <2> QED BY <2>1
<1>7. PICK P \in SUBSET Simulations : P = SettledIn(c)
  BY DEF SettledIn
<1>8. PICK Q \in SUBSET Simulations : Q = SettledIn(c)'
  BY DEF SettledIn
<1>9. s \notin P
  BY <1>7 DEF SettledIn
<1>10. s \in Q <=> Paying(row, c)
  BY <1>3, <1>8 DEF SettledIn, Paying
<1>11. \A x \in Simulations \ {s} : g[x] = f[x] /\ (x \in P <=> x \in Q)
  BY <1>1, <1>2, <1>3, <1>7, <1>8 DEF SettledIn
<1>12. IsFiniteSet(Simulations)
  BY FiniteBooks
<1>13. SumFunctionOnSet(g, Q) = SumFunctionOnSet(f, P)
         + (IF s \in Q THEN g[s] ELSE 0) - (IF s \in P THEN f[s] ELSE 0)
  BY <1>6, <1>11, <1>12, SumSelected
<1>14. SumFunctionOnSet(f, P) \in Int
  <2>1. IsFiniteSet(P) /\ \A x \in P : f[x] \in Int
    BY <1>6, <1>12, FS_Subset
  <2> QED BY <2>1, SumIsInteger
<1>15. g[s] = row.amount
  BY <1>2, <1>3
<1>16. SumFunctionOnSet(g, Q) = SumFunctionOnSet(f, P) + IF Paying(row, c) THEN row.amount ELSE 0
  BY <1>5, <1>9, <1>10, <1>13, <1>14, <1>15
<1>17. PaidBySimulation(c) = SumFunctionOnSet(f, P) /\ PaidBySimulation(c)' = SumFunctionOnSet(g, Q)
  BY <1>1, <1>2, <1>7, <1>8 DEF PaidBySimulation
<1> QED BY <1>14, <1>16, <1>17

LEMMA SandboxIsOurs == "external:sandbox" \in Owners \ Accounts
BY HouseBooks DEF OwnBooks, Funds

(* What a row that is settled pays is taken from the sandbox's book.       *)
LEMMA SandboxPays ==
  ASSUME LedgerTypeOK, SandboxInv, NEW s \in Simulations, NEW row \in SimulationRows,
         simulation[s].status # "settled", simulation' = [simulation EXCEPT ![s] = row],
         row.status = "awaiting_confirmation" => row.of \in Accounts \cup {NoOne},
         \A c \in Currencies : ledger'[<<"external:sandbox", c>>] =
           ledger[<<"external:sandbox", c>>] - IF Paying(row, c) THEN row.amount ELSE 0
  PROVE  SandboxInv'
<1>1. SimulationsInv'
  BY SimulationWritten DEF SandboxInv
<1>2. ASSUME NEW c \in Currencies
      PROVE  -Holds("external:sandbox", c)' = PaidBySimulation(c)'
  <2>1. PICK extra \in Nat : extra = IF Paying(row, c) THEN row.amount ELSE 0
    BY DEF SimulationRows
  <2>2. PICK before \in Int : before = ledger[<<"external:sandbox", c>>]
    BY SandboxIsOurs, BookIsInteger
  <2>3. PICK paid \in Int : paid = PaidBySimulation(c) /\ PaidBySimulation(c)' = paid + extra
    BY <2>1, PaidMore DEF SandboxInv
  <2>4. -before = paid
    BY <2>2, <2>3 DEF SandboxInv, SandboxExplained, Holds
  <2>5. PICK after \in Int : after = ledger'[<<"external:sandbox", c>>] /\ after = before - extra
    BY <2>1, <2>2
  <2>6. -after = paid + extra
    BY <2>4, <2>5
  <2> QED BY <2>3, <2>5, <2>6 DEF Holds
<1> QED BY <1>1, <1>2 DEF SandboxInv, SandboxExplained

LEMMA NothingPosted ==
  ASSUME LedgerTypeOK, NobodyOverdrawn, ledger' = ledger, NEW S
  PROVE  Touches(S) /\ OwnMoney
<1>1. LedgerTypeOK' /\ NobodyOverdrawn'
  BY DEF LedgerTypeOK, NobodyOverdrawn
<1> QED BY <1>1 DEF Touches, OwnMoney

LEMMA TouchesMore ==
  ASSUME NEW S, NEW T, S \subseteq T, Touches(S)
  PROVE  Touches(T)
BY DEF Touches

LEMMA TouchesSpares ==
  ASSUME NEW S, NEW T, T \subseteq Owners \ (S \cup Accounts), Touches(S)
  PROVE  Spared(T)
BY DEF Touches, Spared

LEMMA PaymentBooked ==
  ASSUME LedgerTypeOK, NobodyOverdrawn, SandboxInv, NEW s \in Simulations, NEW row \in SimulationRows,
         simulation[s].status # "settled", simulation' = [simulation EXCEPT ![s] = row],
         row.of \in Accounts \cup {NoOne}, CreditSandboxAccount(row.status, row.of, row.amount)
  PROVE  SandboxInv' /\ Touches({"external:sandbox"}) /\ OwnMoney
<1>1. row.amount \in Nat
  BY DEF SimulationRows
<1>2. PICK box : box = "external:sandbox"
  OBVIOUS
<1>3. box \in Owners \ Accounts /\ box = Funds[2]
  BY <1>2, SandboxIsOurs DEF Funds
<1>4. CASE row.status = "settled" /\ row.of # NoOne
  <2>1. row.of \in Accounts /\ Move(row.amount, CurrencyOf[row.of], box, row.of)
    BY <1>3, <1>4 DEF CreditSandboxAccount
  <2>2. PICK n \in Nat, a \in Accounts : n = row.amount /\ a = row.of
    BY <1>1, <2>1
  <2>3. n \in Int /\ Move(n, CurrencyOf[a], box, a)
    BY <2>1, <2>2
  <2>4. Touches({box}) /\ OwnMoney /\ Gains(box, CurrencyOf[a], -n)
    BY <1>3, <2>3, EntersAccount
  <2>5. ASSUME NEW c \in Currencies
        PROVE  ledger'[<<box, c>>] = ledger[<<box, c>>] - IF Paying(row, c) THEN row.amount ELSE 0
    <3>1. Paying(row, c) <=> c = CurrencyOf[a]
      BY <1>4, <2>2 DEF Paying
    <3>2. ledger[<<box, c>>] \in Int
      BY <1>3, BookIsInteger
    <3>3. ledger'[<<box, c>>] = ledger[<<box, c>>] + IF c = CurrencyOf[a] THEN -n ELSE 0
      BY <2>4 DEF Gains
    <3> QED BY <2>2, <3>1, <3>2, <3>3
  <2>6. SandboxInv'
    BY <1>2, <1>4, <2>5, SandboxPays
  <2> QED BY <1>2, <2>4, <2>6
<1>5. CASE ~(row.status = "settled" /\ row.of # NoOne)
  <2>1. ledger' = ledger
    BY <1>5 DEF CreditSandboxAccount
  <2>2. NoOne \notin Accounts
    BY ProductAssumption
  <2>3. ASSUME NEW c \in Currencies
        PROVE  ledger'[<<box, c>>] = ledger[<<box, c>>] - IF Paying(row, c) THEN row.amount ELSE 0
    <3>1. ~Paying(row, c)
      BY <1>5, <2>2 DEF Paying
    <3>2. ledger[<<box, c>>] \in Int
      BY <1>3, BookIsInteger
    <3> QED BY <2>1, <3>1, <3>2
  <2>4. SandboxInv'
    BY <1>2, <2>3, SandboxPays
  <2> QED BY <2>1, <2>4, NothingPosted
<1> QED BY <1>4, <1>5

LEMMA SimulatePaymentBooked ==
  ASSUME LedgerTypeOK, NobodyOverdrawn, SandboxInv, NEW s \in Simulations,
         NEW a \in Accounts \cup {NoOne}, NEW n \in Amounts,
         NEW status \in {"settled", "awaiting_confirmation", "failed"},
         SimulatePayment(s, status, a, n)
  PROVE  SandboxInv' /\ Touches({"external:sandbox"}) /\ OwnMoney
<1>1. n \in Nat
  BY CustomersAssumption
<1>2. PICK row : row = [of |-> a, status |-> status, amount |-> n]
  OBVIOUS
<1>3. row \in SimulationRows /\ row.of = a /\ row.status = status /\ row.amount = n
  BY <1>1, <1>2 DEF SimulationRows
<1>4. simulation' = [simulation EXCEPT ![s] = row] /\ simulation[s].status # "settled"
  BY <1>2 DEF SimulatePayment
<1>5. CreditSandboxAccount(row.status, row.of, row.amount)
  BY <1>3 DEF SimulatePayment
<1> QED BY <1>3, <1>4, <1>5, PaymentBooked

LEMMA AdvancePaymentBooked ==
  ASSUME LedgerTypeOK, NobodyOverdrawn, SandboxInv, NEW s \in Simulations,
         NEW status \in {"settled", "failed"}, AdvancePayment(s, status)
  PROVE  SandboxInv' /\ Touches({"external:sandbox"}) /\ OwnMoney
<1>1. PICK old \in SimulationRows : old = simulation[s]
  BY DEF SandboxInv, SimulationsInv
<1>2. old.status = "awaiting_confirmation" /\ old.of \in Accounts \cup {NoOne} /\ old.amount \in Nat
  BY <1>1 DEF SandboxInv, SimulationsInv, AdvancePayment, SimulationRows
<1>3. PICK row : row = [of |-> old.of, status |-> status, amount |-> old.amount]
  OBVIOUS
<1>4. row \in SimulationRows /\ row.of = old.of /\ row.status = status /\ row.amount = old.amount
  BY <1>2, <1>3 DEF SimulationRows
<1>5. [old EXCEPT !.status = status] = row
  BY <1>3 DEF SimulationRows
<1>6. simulation' = [simulation EXCEPT ![s] = row]
  BY <1>1, <1>5 DEF AdvancePayment
<1>7. CreditSandboxAccount(row.status, row.of, row.amount)
  BY <1>1, <1>4 DEF AdvancePayment
<1>8. simulation[s].status # "settled" /\ row.of \in Accounts \cup {NoOne}
  BY <1>1, <1>2, <1>4
<1> QED BY <1>4, <1>6, <1>7, <1>8, PaymentBooked

(* A row of an onboarding pays nothing.                                    *)
LEMMA OnboardingBooked ==
  ASSUME LedgerTypeOK, SandboxInv, NEW s \in Simulations, NEW row \in SimulationRows,
         simulation[s].status # "settled", simulation' = [simulation EXCEPT ![s] = row],
         row.status \in {"in_review", "compliance_hold", "completed"}, ledger' = ledger
  PROVE  SandboxInv'
<1>1. ASSUME NEW c \in Currencies
      PROVE  ledger'[<<"external:sandbox", c>>] =
               ledger[<<"external:sandbox", c>>] - IF Paying(row, c) THEN row.amount ELSE 0
  <2>1. ~Paying(row, c)
    BY DEF Paying
  <2>2. ledger[<<"external:sandbox", c>>] \in Int
    BY SandboxIsOurs, BookIsInteger
  <2> QED BY <2>1, <2>2
<1>2. row.status # "awaiting_confirmation"
  OBVIOUS
<1> QED BY <1>1, <1>2, SandboxPays

LEMMA SimulateOnboardingBooked ==
  ASSUME LedgerTypeOK, SandboxInv, NEW s \in Simulations, NEW c \in Customers \cup {NoOne},
         NEW w \in Scenarios, SimulateOnboarding(s, w[1], w[2], c)
  PROVE  SandboxInv' /\ ledger' = ledger
<1>1. PICK row : row = [of |-> c, status |-> w[1], amount |-> 0]
  OBVIOUS
<1>2. w[1] \in {"completed", "in_review", "compliance_hold"}
  BY DEF Scenarios
<1>3. row \in SimulationRows /\ row.status \in {"in_review", "compliance_hold", "completed"}
  BY <1>1, <1>2 DEF SimulationRows
<1>4. simulation' = [simulation EXCEPT ![s] = row] /\ simulation[s].status # "settled" /\ ledger' = ledger
  BY <1>1 DEF SimulateOnboarding
<1> QED BY <1>3, <1>4, OnboardingBooked

LEMMA AdvanceOnboardingBooked ==
  ASSUME LedgerTypeOK, SandboxInv, NEW s \in Simulations, NEW d, AdvanceOnboarding(s, d)
  PROVE  SandboxInv' /\ ledger' = ledger
<1>1. PICK old \in SimulationRows : old = simulation[s]
  BY DEF SandboxInv, SimulationsInv
<1>2. PICK row : row = [of |-> old.of, status |-> "completed", amount |-> old.amount]
  OBVIOUS
<1>3. row \in SimulationRows /\ row.status \in {"in_review", "compliance_hold", "completed"}
  BY <1>2 DEF SimulationRows
<1>4. [old EXCEPT !.status = "completed"] = row
  BY <1>2 DEF SimulationRows
<1>5. simulation' = [simulation EXCEPT ![s] = row] /\ ledger' = ledger
  BY <1>1, <1>4 DEF AdvanceOnboarding
<1>6. simulation[s].status # "settled"
  BY DEF AdvanceOnboarding, Awaiting
<1> QED BY <1>3, <1>5, <1>6, OnboardingBooked

Outside == {"external:funding", "external:sandbox"}

(* Customers and their accounts: money only enters.                        *)
LEMMA CustomersBooked ==
  ASSUME LedgerTypeOK, NobodyOverdrawn, SandboxInv,
         Onboarding({}) \/ Banking(Accounts) \/ Simulating
  PROVE  SandboxInv' /\ Touches(Outside) /\ OwnMoney
<1>1. ASSUME ledger' = ledger, simulation' = simulation
      PROVE  SandboxInv' /\ Touches(Outside) /\ OwnMoney
  <2>1. Spared({"external:sandbox"})
    BY <1>1 DEF Spared
  <2> QED BY <1>1, <2>1, SandboxKept, NothingPosted
<1>2. CASE Onboarding({})
  <2>1. ASSUME NEW c \in Customers,
               CreateCustomer(c) \/ DeleteCustomer(c, {})
                 \/ \E d \in Decisions : VerifyCustomer(c, d)
        PROVE  simulation' = simulation /\ ledger' = ledger
    BY <2>1 DEF CreateCustomer, DeleteCustomer, VerifyCustomer
  <2>2. ASSUME NEW p \in Applications,
               (\E c \in Customers \cup {NoOne} : CreateApplication(p, c)) \/ SubmitApplication(p)
                 \/ \E d \in Decisions \cup {"none"} : EnhancedDueDiligence(p, d)
        PROVE  simulation' = simulation /\ ledger' = ledger
    BY <2>2 DEF CreateApplication, SubmitApplication, EnhancedDueDiligence
  <2>3. ASSUME NEW s \in Simulations,
               (\E c \in Customers \cup {NoOne}, w \in Scenarios : SimulateOnboarding(s, w[1], w[2], c))
                 \/ \E d \in Decisions : AdvanceOnboarding(s, d)
        PROVE  SandboxInv' /\ ledger' = ledger
    BY <2>3, SimulateOnboardingBooked, AdvanceOnboardingBooked
  <2> QED BY <1>1, <1>2, <2>1, <2>2, <2>3, NothingPosted DEF Onboarding
<1>3. CASE Banking(Accounts)
  <2>1. PICK a \in Accounts : OpenAccount(a) \/ CloseAccount(a) \/ \E n \in Amounts : CreditAccount(a, n)
    BY <1>3 DEF Banking
  <2>2. simulation' = simulation
    BY <2>1 DEF OpenAccount, CloseAccount, CreditAccount, customerVars
  <2>3. ASSUME NEW n \in Amounts, CreditAccount(a, n)
        PROVE  SandboxInv' /\ Touches(Outside) /\ OwnMoney
    <3>1. PICK fund : fund = "external:funding"
      OBVIOUS
    <3>2. n \in Int /\ fund \in Owners \ Accounts
      BY <3>1, CustomersAssumption, HouseBooks DEF OwnBooks, Funds
    <3>3. Move(n, CurrencyOf[a], fund, a)
      BY <2>3, <3>1 DEF CreditAccount, Funds
    <3>4. Touches({fund}) /\ OwnMoney
      BY <3>2, <3>3, EntersAccount
    <3>5. Touches(Outside)
      BY <3>1, <3>4, TouchesMore DEF Outside
    <3>6. Spared({"external:sandbox"})
      <4>1. {"external:sandbox"} \subseteq Owners \ ({fund} \cup Accounts)
        BY <3>1, SandboxIsOurs
      <4> QED BY <3>4, <4>1, TouchesSpares
    <3> QED BY <2>2, <3>4, <3>5, <3>6, SandboxKept
  <2>4. OpenAccount(a) \/ CloseAccount(a) => ledger' = ledger
    BY DEF OpenAccount, CloseAccount
  <2> QED BY <1>1, <2>1, <2>2, <2>3, <2>4
<1>4. CASE Simulating
  <2>1. SandboxInv' /\ Touches({"external:sandbox"}) /\ OwnMoney
    BY <1>4, SimulatePaymentBooked, AdvancePaymentBooked DEF Simulating
  <2>2. Touches(Outside)
    BY <2>1, TouchesMore DEF Outside
  <2> QED BY <2>1, <2>2
<1> QED BY <1>2, <1>3, <1>4

-----------------------------------------------------------------------------
(* Transfers and the clearing accounts of their rails.                     *)
TransferRows ==
  [status : {"none", "funds_received", "settled", "canceled"}, account : Accounts \cup {NoOne},
   rail : DOMAIN Rails \cup {NoOne}, amount : Nat]

OnItsRail(x) ==
  /\ x.account \in Accounts /\ x.rail \in DOMAIN Rails
  /\ Rails[x.rail].currency = CurrencyOf[x.account]

TransfersInv ==
  /\ transfer \in [Transfers -> TransferRows]
  /\ \A t \in Transfers :
       IF transfer[t].status = "none" THEN transfer[t].rail = NoOne ELSE OnItsRail(transfer[t])

RailInv == TransfersInv /\ \A r \in DOMAIN Rails : RailExplained(r)

RailTotal(r) == SumFunctionOnSet([t \in Transfers |-> transfer[t].amount], Sent(r))
OnTheWay(x, r) == x.rail = r /\ x.status # "canceled"
Weighs(x, r) == IF OnTheWay(x, r) THEN x.amount ELSE 0

LEMMA RailIsOurs == ASSUME NEW r \in DOMAIN Rails
                    PROVE  r \in Owners \ Accounts /\ r # NoOne /\ Rails[r].currency \in Currencies
<1>1. r # NoOne
  BY ProductAssumption
<1>2. Rails[r].currency \in Currencies
  BY ProductAssumption
<1> QED BY <1>1, <1>2, HouseBooks

LEMMA RailKept ==
  ASSUME RailInv, Spared(DOMAIN Rails), transfer' = transfer
  PROVE  RailInv'
<1>1. TransfersInv'
  BY DEF RailInv, TransfersInv, OnItsRail
<1>2. ASSUME NEW r \in DOMAIN Rails PROVE RailExplained(r)'
  <2>1. Holds(r, Rails[r].currency)' = Holds(r, Rails[r].currency)
    BY RailIsOurs DEF Spared, Holds
  <2> QED BY <2>1 DEF RailInv, RailExplained, Sent
<1> QED BY <1>1, <1>2 DEF RailInv

LEMMA TransferWritten ==
  ASSUME TransfersInv, NEW t \in Transfers, NEW row \in TransferRows, OnItsRail(row),
         row.status # "none", transfer' = [transfer EXCEPT ![t] = row]
  PROVE  TransfersInv'
<1>1. transfer'[t] = row /\ \A u \in Transfers : u # t => transfer'[u] = transfer[u]
  BY DEF TransfersInv
<1>2. transfer' \in [Transfers -> TransferRows]
  BY DEF TransfersInv
<1>3. ASSUME NEW u \in Transfers
      PROVE  IF transfer'[u].status = "none" THEN transfer'[u].rail = NoOne ELSE OnItsRail(transfer'[u])
  <2>1. CASE u = t
    BY <1>1, <2>1
  <2>2. CASE u # t
    BY <1>1, <2>2 DEF TransfersInv
  <2> QED BY <2>1, <2>2
<1>4. ASSUME NEW u \in Transfers
      PROVE  (IF transfer[u].status = "none" THEN transfer[u].rail = NoOne ELSE OnItsRail(transfer[u]))'
  BY <1>3 DEF OnItsRail
<1> QED BY <1>2, <1>4 DEF TransfersInv

LEMMA RailTotalIs ==
  ASSUME TransfersInv, NEW t \in Transfers, NEW old \in TransferRows, old = transfer[t],
         NEW row \in TransferRows, transfer' = [transfer EXCEPT ![t] = row], NEW r \in DOMAIN Rails
  PROVE  /\ RailTotal(r) \in Int
         /\ RailTotal(r)' = RailTotal(r) + Weighs(row, r) - Weighs(old, r)
<1>1. PICK f : f = [x \in Transfers |-> transfer[x].amount]
  OBVIOUS
<1>2. PICK g : g = [x \in Transfers |-> transfer'[x].amount]
  OBVIOUS
<1>3. transfer'[t] = row /\ \A x \in Transfers : x # t => transfer'[x] = transfer[x]
  BY DEF TransfersInv
<1>4. \A x \in Transfers : transfer[x].amount \in Nat
  BY DEF TransfersInv, TransferRows
<1>5. row.amount \in Nat
  BY DEF TransferRows
<1>6. \A x \in Transfers : f[x] \in Int /\ g[x] \in Int
  <2>1. ASSUME NEW x \in Transfers PROVE f[x] \in Int /\ g[x] \in Int
    <3>1. CASE x = t
      BY <1>1, <1>2, <1>3, <1>4, <1>5, <3>1
    <3>2. CASE x # t
      BY <1>1, <1>2, <1>3, <1>4, <3>2
    <3> QED BY <3>1, <3>2
  <2> QED BY <2>1
<1>7. PICK P \in SUBSET Transfers : P = Sent(r)
  BY DEF Sent
<1>8. PICK Q \in SUBSET Transfers : Q = Sent(r)'
  BY DEF Sent
<1>9. t \in P <=> OnTheWay(old, r)
  BY <1>7 DEF Sent, OnTheWay
<1>10. t \in Q <=> OnTheWay(row, r)
  BY <1>3, <1>8 DEF Sent, OnTheWay
<1>11. \A x \in Transfers \ {t} : g[x] = f[x] /\ (x \in P <=> x \in Q)
  BY <1>1, <1>2, <1>3, <1>7, <1>8 DEF Sent
<1>12. IsFiniteSet(Transfers)
  BY FiniteBooks
<1>13. SumFunctionOnSet(g, Q) = SumFunctionOnSet(f, P)
         + (IF t \in Q THEN g[t] ELSE 0) - (IF t \in P THEN f[t] ELSE 0)
  BY <1>6, <1>11, <1>12, SumSelected
<1>14. SumFunctionOnSet(f, P) \in Int
  <2>1. IsFiniteSet(P) /\ \A x \in P : f[x] \in Int
    BY <1>6, <1>12, FS_Subset
  <2> QED BY <2>1, SumIsInteger
<1>15. g[t] = row.amount /\ f[t] = old.amount
  BY <1>1, <1>2, <1>3
<1>16. SumFunctionOnSet(g, Q) = SumFunctionOnSet(f, P) + Weighs(row, r) - Weighs(old, r)
  BY <1>9, <1>10, <1>13, <1>15 DEF Weighs
<1>17. RailTotal(r) = SumFunctionOnSet(f, P) /\ RailTotal(r)' = SumFunctionOnSet(g, Q)
  BY <1>1, <1>2, <1>7, <1>8 DEF RailTotal
<1> QED BY <1>14, <1>16, <1>17

(* A transfer is written while its rail's clearing account gains n.        *)
LEMMA RailMoved ==
  ASSUME LedgerTypeOK, RailInv, NEW t \in Transfers, NEW old \in TransferRows, old = transfer[t],
         NEW row \in TransferRows, OnItsRail(row), row.status # "none",
         transfer' = [transfer EXCEPT ![t] = row],
         NEW n \in Int, NEW mine \in DOMAIN Rails, Gains(mine, Rails[mine].currency, n),
         Spared(DOMAIN Rails \ {mine}), Weighs(row, mine) - Weighs(old, mine) = n,
         \A r \in DOMAIN Rails \ {mine} : Weighs(row, r) - Weighs(old, r) = 0
  PROVE  RailInv'
<1>1. TransfersInv'
  BY TransferWritten DEF RailInv
<1>2. ASSUME NEW r \in DOMAIN Rails PROVE RailExplained(r)'
  <2>1. PICK before \in Int : before = ledger[<<r, Rails[r].currency>>]
    BY RailIsOurs, BookIsInteger
  <2>2. RailTotal(r) \in Int /\ RailTotal(r)' = RailTotal(r) + Weighs(row, r) - Weighs(old, r)
    BY RailTotalIs DEF RailInv
  <2>3. before = RailTotal(r)
    BY <2>1 DEF RailInv, RailExplained, RailTotal, Holds
  <2>4. PICK up \in Int : up = Weighs(row, r)
    BY DEF Weighs, TransferRows
  <2>5. PICK down \in Int : down = Weighs(old, r)
    BY DEF Weighs, TransferRows
  <2>6. ledger'[<<r, Rails[r].currency>>] = RailTotal(r)'
    <3>1. CASE r = mine
      <4>1. ledger'[<<r, Rails[r].currency>>] = before + n
        BY <2>1, <3>1, RailIsOurs DEF Gains
      <4>2. up - down = n
        BY <2>4, <2>5, <3>1
      <4> QED BY <2>2, <2>3, <2>4, <2>5, <4>1, <4>2
    <3>2. CASE r # mine
      <4>1. ledger'[<<r, Rails[r].currency>>] = before
        BY <2>1, <3>2, RailIsOurs DEF Spared
      <4>2. up - down = 0
        BY <2>4, <2>5, <3>2
      <4> QED BY <2>2, <2>3, <2>4, <2>5, <4>1, <4>2
    <3> QED BY <3>1, <3>2
  <2> QED BY <2>6 DEF RailExplained, RailTotal, Holds
<1> QED BY <1>1, <1>2 DEF RailInv

LEMMA CreateTransferBooked ==
  ASSUME LedgerTypeOK, NobodyOverdrawn, RailInv, NEW t \in Transfers, NEW a \in Accounts,
         NEW r \in DOMAIN Rails, NEW n \in Amounts, CreateTransfer(t, a, r, n)
  PROVE  RailInv' /\ Touches({r}) /\ OwnMoney
<1>1. n \in Nat
  BY CustomersAssumption
<1>2. PICK old \in TransferRows : old = transfer[t]
  BY DEF RailInv, TransfersInv
<1>3. old.status = "none"
  BY <1>2 DEF CreateTransfer, FirstFree
<1>4. old.rail = NoOne
  BY <1>2, <1>3 DEF RailInv, TransfersInv
<1>5. PICK status \in {"settled", "funds_received"} :
        status = IF Rails[r].instant THEN "settled" ELSE "funds_received"
  OBVIOUS
<1>6. PICK row : row = [status |-> status, account |-> a, rail |-> r, amount |-> n]
  OBVIOUS
<1>7. row \in TransferRows /\ row.status # "none" /\ row.status # "canceled" /\ row.rail = r /\ row.amount = n
  BY <1>1, <1>5, <1>6 DEF TransferRows
<1>8. transfer' = [transfer EXCEPT ![t] = row]
  BY <1>5, <1>6 DEF CreateTransfer
<1>9. Rails[r].currency = CurrencyOf[a] /\ Move(n, CurrencyOf[a], a, r)
  BY DEF CreateTransfer
<1>10. OnItsRail(row)
  BY <1>6, <1>9 DEF OnItsRail
<1>11. Touches({r}) /\ OwnMoney /\ Gains(r, CurrencyOf[a], n)
  BY <1>1, <1>9, RailIsOurs, LeavesAccount
<1>12. Spared(DOMAIN Rails \ {r})
  <2>1. DOMAIN Rails \ {r} \subseteq Owners \ ({r} \cup Accounts)
    BY RailIsOurs
  <2> QED BY <1>11, <2>1, TouchesSpares
<1>13. \A x \in DOMAIN Rails : Weighs(old, x) = 0
  BY <1>4, RailIsOurs DEF Weighs, OnTheWay
<1>14. Weighs(row, r) = n /\ \A x \in DOMAIN Rails \ {r} : Weighs(row, x) = 0
  BY <1>7 DEF Weighs, OnTheWay
<1>15. Weighs(row, r) - Weighs(old, r) = n /\ \A x \in DOMAIN Rails \ {r} : Weighs(row, x) - Weighs(old, x) = 0
  BY <1>1, <1>13, <1>14
<1>16. Gains(r, Rails[r].currency, n) /\ n \in Int
  BY <1>1, <1>9, <1>11
<1>17. RailInv'
  BY <1>2, <1>7, <1>8, <1>10, <1>12, <1>15, <1>16, RailMoved
<1> QED BY <1>11, <1>17

(* A transfer under way, and the row it is rewritten as.                   *)
LEMMA UnderWay ==
  ASSUME RailInv, NEW t \in Transfers, transfer[t].status = "funds_received",
         NEW status \in {"settled", "canceled"}, transfer' = [transfer EXCEPT ![t].status = status]
  PROVE  \E old \in TransferRows, row \in TransferRows :
           /\ old = transfer[t] /\ OnItsRail(old)
           /\ row.status = status /\ row.account = old.account /\ row.rail = old.rail
           /\ row.amount = old.amount
           /\ transfer' = [transfer EXCEPT ![t] = row]
<1>1. PICK old \in TransferRows : old = transfer[t]
  BY DEF RailInv, TransfersInv
<1>2. OnItsRail(old)
  BY <1>1 DEF RailInv, TransfersInv
<1>3. PICK row : row = [status |-> status, account |-> old.account, rail |-> old.rail, amount |-> old.amount]
  OBVIOUS
<1>4. /\ row \in TransferRows /\ row.status = status /\ row.account = old.account
      /\ row.rail = old.rail /\ row.amount = old.amount
  BY <1>3 DEF TransferRows
<1>5. [old EXCEPT !.status = status] = row
  BY <1>3 DEF TransferRows
<1>6. transfer' = [transfer EXCEPT ![t] = row]
  BY <1>1, <1>5
<1> QED BY <1>1, <1>2, <1>4, <1>6

LEMMA SettleBooked ==
  ASSUME LedgerTypeOK, NobodyOverdrawn, RailInv, NEW t \in Transfers, Settle(t)
  PROVE  RailInv' /\ ledger' = ledger
<1>1. /\ transfer[t].status = "funds_received" /\ ledger' = ledger
      /\ transfer' = [transfer EXCEPT ![t].status = "settled"]
  BY DEF Settle
<1>2. PICK old \in TransferRows, row \in TransferRows :
        /\ old = transfer[t] /\ OnItsRail(old)
        /\ row.status = "settled" /\ row.account = old.account /\ row.rail = old.rail
        /\ row.amount = old.amount
        /\ transfer' = [transfer EXCEPT ![t] = row]
  BY <1>1, UnderWay
<1>3. PICK mine \in DOMAIN Rails : mine = old.rail
  BY <1>2 DEF OnItsRail
<1>4. OnItsRail(row)
  BY <1>2 DEF OnItsRail
<1>5. \A x \in DOMAIN Rails : Weighs(row, x) - Weighs(old, x) = 0
  <2>1. ASSUME NEW x \in DOMAIN Rails PROVE Weighs(row, x) - Weighs(old, x) = 0
    <3>1. OnTheWay(row, x) <=> OnTheWay(old, x)
      BY <1>1, <1>2 DEF OnTheWay
    <3>2. PICK n \in Nat : n = old.amount /\ n = row.amount
      BY <1>2 DEF TransferRows
    <3>3. Weighs(row, x) = Weighs(old, x) /\ Weighs(old, x) \in Int
      BY <3>1, <3>2 DEF Weighs
    <3> QED BY <3>3
  <2> QED BY <2>1
<1>6. Spared(DOMAIN Rails \ {mine})
  BY <1>1 DEF Spared
<1>7. Gains(mine, Rails[mine].currency, 0)
  <2>1. \A d \in Currencies : ledger[<<mine, d>>] \in Int
    BY RailIsOurs, BookIsInteger
  <2> QED BY <1>1, <2>1 DEF Gains
<1>8. RailInv'
  <2>1. row.status # "none" /\ 0 \in Int /\ Weighs(row, mine) - Weighs(old, mine) = 0
    BY <1>2, <1>5
  <2>2. \A x \in DOMAIN Rails \ {mine} : Weighs(row, x) - Weighs(old, x) = 0
    BY <1>5
  <2> QED BY <1>2, <1>4, <1>6, <1>7, <2>1, <2>2, RailMoved
<1> QED BY <1>1, <1>8

LEMMA CancelTransferBooked ==
  ASSUME LedgerTypeOK, NobodyOverdrawn, RailInv, NEW t \in Transfers, CancelTransfer(t)
  PROVE  RailInv' /\ (\E r \in DOMAIN Rails : Touches({r})) /\ OwnMoney
<1>1. /\ transfer[t].status = "funds_received"
      /\ transfer' = [transfer EXCEPT ![t].status = "canceled"]
  BY DEF CancelTransfer, Cancelable
<1>2. PICK old \in TransferRows, row \in TransferRows :
        /\ old = transfer[t] /\ OnItsRail(old)
        /\ row.status = "canceled" /\ row.account = old.account /\ row.rail = old.rail
        /\ row.amount = old.amount
        /\ transfer' = [transfer EXCEPT ![t] = row]
  BY <1>1, UnderWay
<1>3. PICK r \in DOMAIN Rails : r = old.rail
  BY <1>2 DEF OnItsRail
<1>4. PICK a \in Accounts : a = old.account /\ Rails[r].currency = CurrencyOf[a]
  BY <1>2, <1>3 DEF OnItsRail
<1>5. PICK n \in Nat : n = old.amount
  BY DEF TransferRows
<1>6. OnItsRail(row)
  BY <1>2 DEF OnItsRail
<1>7. Move(n, CurrencyOf[a], r, a)
  BY <1>2, <1>3, <1>4, <1>5 DEF CancelTransfer
<1>8. Touches({r}) /\ OwnMoney /\ Gains(r, CurrencyOf[a], -n)
  <2>1. n \in Int /\ r \in Owners \ Accounts
    BY <1>5, RailIsOurs
  <2> QED BY <1>7, <2>1, EntersAccount
<1>9. Spared(DOMAIN Rails \ {r})
  <2>1. DOMAIN Rails \ {r} \subseteq Owners \ ({r} \cup Accounts)
    BY RailIsOurs
  <2> QED BY <1>8, <2>1, TouchesSpares
<1>10. \A x \in DOMAIN Rails : Weighs(row, x) = 0
  BY <1>2 DEF Weighs, OnTheWay
<1>11. Weighs(old, r) = n /\ \A x \in DOMAIN Rails \ {r} : Weighs(old, x) = 0
  BY <1>1, <1>2, <1>3, <1>5 DEF Weighs, OnTheWay
<1>12. PICK back \in Int : back = -n
  OBVIOUS
<1>13. /\ Weighs(row, r) - Weighs(old, r) = back
       /\ \A x \in DOMAIN Rails \ {r} : Weighs(row, x) - Weighs(old, x) = 0
  <2>1. Weighs(row, r) - Weighs(old, r) = back
    BY <1>10, <1>11, <1>12
  <2>2. \A x \in DOMAIN Rails \ {r} : Weighs(row, x) - Weighs(old, x) = 0
    BY <1>10, <1>11
  <2> QED BY <2>1, <2>2
<1>14. Gains(r, Rails[r].currency, back)
  BY <1>4, <1>8, <1>12
<1>15. RailInv'
  <2>1. row.status # "none"
    BY <1>2
  <2> QED BY <1>2, <1>6, <1>9, <1>13, <1>14, <2>1, RailMoved
<1> QED BY <1>8, <1>15

LEMMA RailBooked ==
  ASSUME LedgerTypeOK, NobodyOverdrawn, RailInv, Rail
  PROVE  RailInv' /\ Touches(DOMAIN Rails) /\ OwnMoney
<1>1. PICK t \in Transfers :
        (\E a \in Accounts, r \in DOMAIN Rails, n \in Amounts : CreateTransfer(t, a, r, n))
          \/ Settle(t) \/ CancelTransfer(t)
  BY DEF Rail
<1>2. ASSUME NEW r \in DOMAIN Rails, Touches({r}) PROVE Touches(DOMAIN Rails)
  BY <1>2, TouchesMore
<1>3. CASE \E a \in Accounts, r \in DOMAIN Rails, n \in Amounts : CreateTransfer(t, a, r, n)
  BY <1>2, <1>3, CreateTransferBooked
<1>4. CASE Settle(t)
  BY <1>4, SettleBooked, NothingPosted
<1>5. CASE CancelTransfer(t)
  BY <1>2, <1>5, CancelTransferBooked
<1> QED BY <1>1, <1>3, <1>4, <1>5

-----------------------------------------------------------------------------
(* Credit lines and the two books that stand against what is drawn.        *)
CreditInv == \A c \in Currencies : CreditExplained(c)
CreditBooks == Lines \cup {"clearing:credit", "clearing:credit:liability"}

LEMMA LineIsOurs ==
  ASSUME NEW l \in Lines
  PROVE  l \in Held /\ l \in Owners \ Accounts /\ InCurrencyOf(l) \in Currencies
<1>1. AccountOf[l] \in Accounts /\ l \in Held \ Accounts
  BY VaultsAndLines
<1> QED BY <1>1, AccountsAreHeld DEF Owners, InCurrencyOf

LEMMA ClearingIsOurs ==
  "clearing:credit" \in Owners \ Accounts /\ "clearing:credit:liability" \in Owners \ Accounts
BY HouseBooks DEF OwnBooks

LEMMA DrawnIsNatural ==
  ASSUME LedgerTypeOK, NobodyOverdrawn, NEW l \in Lines
  PROVE  Drawn(l) \in Nat
<1>1. PICK c \in Currencies : c = InCurrencyOf(l)
  BY LineIsOurs
<1>2. PICK b \in Books : b = <<l, c>>
  BY LineIsOurs DEF Books
<1>3. b[1] \in Held
  BY <1>2, LineIsOurs
<1>4. ledger[b] \in Int /\ ledger[b] >= 0
  BY <1>3 DEF LedgerTypeOK, NobodyOverdrawn
<1> QED BY <1>1, <1>2, <1>4 DEF Drawn, Holds

LEMMA CreditKept ==
  ASSUME CreditInv, Spared(CreditBooks)
  PROVE  CreditInv'
<1>1. \A l \in Lines : Drawn(l)' = Drawn(l)
  BY LineIsOurs DEF Spared, CreditBooks, Drawn, Holds
<1>2. ASSUME NEW c \in Currencies PROVE CreditExplained(c)'
  <2>1. [l \in Lines |-> Drawn(l)'] = [l \in Lines |-> Drawn(l)]
    BY <1>1
  <2>2. DrawnIn(c)' = DrawnIn(c)
    BY <2>1 DEF DrawnIn, LinesIn
  <2>3. /\ Holds("clearing:credit", c)' = Holds("clearing:credit", c)
        /\ Holds("clearing:credit:liability", c)' = Holds("clearing:credit:liability", c)
    BY DEF Spared, CreditBooks, Holds
  <2>4. \A l \in LinesIn(c) : Drawn(l)' >= 0
    BY <1>1 DEF CreditInv, CreditExplained, LinesIn
  <2> QED BY <2>2, <2>3, <2>4 DEF CreditInv, CreditExplained, LinesIn
<1> QED BY <1>2 DEF CreditInv

(* What is drawn on one line changes by n.                                 *)
LEMMA DrawnInIs ==
  ASSUME LedgerTypeOK, NobodyOverdrawn, LedgerTypeOK', NobodyOverdrawn',
         NEW l \in Lines, NEW n \in Int, Gains(l, InCurrencyOf(l), n), Spared(Lines \ {l}),
         NEW c \in Currencies
  PROVE  /\ DrawnIn(c) \in Int
         /\ DrawnIn(c)' = DrawnIn(c) + IF c = InCurrencyOf(l) THEN n ELSE 0
<1>1. PICK f : f = [x \in Lines |-> Drawn(x)]
  OBVIOUS
<1>2. PICK g : g = [x \in Lines |-> Drawn(x)']
  OBVIOUS
<1>3. \A x \in Lines : f[x] \in Int /\ g[x] \in Int
  <2>1. ASSUME NEW x \in Lines PROVE Drawn(x) \in Nat /\ Drawn(x)' \in Nat
    <3>1. Drawn(x) \in Nat
      BY DrawnIsNatural
    <3>2. Drawn(x)' \in Nat
      <4>1. PICK k \in Currencies : k = InCurrencyOf(x)
        BY LineIsOurs
      <4>2. PICK b \in Books : b = <<x, k>>
        BY LineIsOurs DEF Books
      <4>3. b[1] \in Held
        BY <4>2, LineIsOurs
      <4>4. ledger'[b] \in Int /\ ledger'[b] >= 0
        BY <4>3 DEF LedgerTypeOK, NobodyOverdrawn, Books
      <4> QED BY <4>1, <4>2, <4>4 DEF Drawn, Holds
    <3> QED BY <3>1, <3>2
  <2> QED BY <1>1, <1>2, <2>1
<1>4. PICK P \in SUBSET Lines : P = LinesIn(c)
  BY DEF LinesIn
<1>5. \A x \in Lines \ {l} : g[x] = f[x]
  BY <1>1, <1>2, LineIsOurs DEF Spared, Drawn, Holds
<1>6. g[l] = f[l] + n
  <2>1. ledger'[<<l, InCurrencyOf(l)>>] = ledger[<<l, InCurrencyOf(l)>>] + n
    BY LineIsOurs DEF Gains
  <2> QED BY <1>1, <1>2, <2>1 DEF Drawn, Holds
<1>7. IsFiniteSet(Lines)
  BY FiniteBooks
<1>8. SumFunctionOnSet(g, P) = SumFunctionOnSet(f, P)
         + (IF l \in P THEN g[l] ELSE 0) - (IF l \in P THEN f[l] ELSE 0)
  BY <1>3, <1>5, <1>7, SumSelected
<1>9. SumFunctionOnSet(f, P) \in Int
  <2>1. IsFiniteSet(P) /\ \A x \in P : f[x] \in Int
    BY <1>3, <1>7, FS_Subset
  <2> QED BY <2>1, SumIsInteger
<1>10. l \in P <=> c = InCurrencyOf(l)
  BY <1>4 DEF LinesIn
<1>11. SumFunctionOnSet(g, P) = SumFunctionOnSet(f, P) + IF c = InCurrencyOf(l) THEN n ELSE 0
  <2>1. PICK had \in Int : had = f[l]
    BY <1>3
  <2>2. PICK has \in Int : has = g[l] /\ has = had + n
    BY <1>3, <1>6, <2>1
  <2>3. CASE l \in P
    BY <1>8, <1>9, <1>10, <2>1, <2>2, <2>3
  <2>4. CASE l \notin P
    BY <1>8, <1>9, <1>10, <2>4
  <2> QED BY <2>3, <2>4
<1>12. DrawnIn(c) = SumFunctionOnSet(f, P) /\ DrawnIn(c)' = SumFunctionOnSet(g, P)
  BY <1>1, <1>2, <1>4 DEF DrawnIn, LinesIn
<1> QED BY <1>9, <1>11, <1>12

LEMMA CreditMoved ==
  ASSUME LedgerTypeOK, NobodyOverdrawn, CreditInv, NEW l \in Lines, NEW n \in Int, Post(FourLegs(l, n))
  PROVE  CreditInv' /\ Touches(CreditBooks) /\ OwnMoney
<1>1. /\ Touches(CreditOwners(l)) /\ OwnMoney /\ Gains(l, InCurrencyOf(l), n)
      /\ Gains("clearing:credit", InCurrencyOf(l), -n)
      /\ Gains("clearing:credit:liability", InCurrencyOf(l), -n)
  BY CreditPosted
<1>2. Touches(CreditBooks)
  <2>1. CreditOwners(l) \subseteq CreditBooks
    BY DEF CreditOwners, CreditBooks
  <2> QED BY <1>1, <2>1, TouchesMore
<1>3. LedgerTypeOK' /\ NobodyOverdrawn'
  BY <1>1 DEF Touches
<1>4. Spared(Lines \ {l})
  <2>1. "clearing:credit" \notin Held /\ "clearing:credit:liability" \notin Held
    BY HouseBooks DEF OwnBooks
  <2>2. Lines \ {l} \subseteq Owners \ (CreditOwners(l) \cup Accounts)
    BY <2>1, LineIsOurs DEF CreditOwners
  <2> QED BY <1>1, <2>2, TouchesSpares
<1>5. ASSUME NEW c \in Currencies PROVE CreditExplained(c)'
  <2>1. PICK m \in Int : m = IF c = InCurrencyOf(l) THEN n ELSE 0
    OBVIOUS
  <2>2. PICK drawn \in Int : drawn = DrawnIn(c) /\ DrawnIn(c)' = drawn + m
    BY <1>1, <1>3, <1>4, <2>1, DrawnInIs
  <2>3. PICK cash \in Int : cash = ledger[<<"clearing:credit", c>>]
    BY ClearingIsOurs, BookIsInteger
  <2>4. PICK debt \in Int : debt = ledger[<<"clearing:credit:liability", c>>]
    BY ClearingIsOurs, BookIsInteger
  <2>5. cash = -drawn /\ debt = -drawn
    BY <2>2, <2>3, <2>4 DEF CreditInv, CreditExplained, Holds
  <2>6. ledger'[<<"clearing:credit", c>>] = cash - m
    BY <1>1, <2>1, <2>3 DEF Gains
  <2>7. ledger'[<<"clearing:credit:liability", c>>] = debt - m
    BY <1>1, <2>1, <2>4 DEF Gains
  <2>8. cash - m = -(drawn + m) /\ debt - m = -(drawn + m)
    BY <2>5
  <2>9. \A x \in LinesIn(c) : Drawn(x)' >= 0
    <3>1. ASSUME NEW x \in LinesIn(c) PROVE Drawn(x)' >= 0
      <4>1. x \in Lines
        BY DEF LinesIn
      <4>2. PICK k \in Currencies : k = InCurrencyOf(x)
        BY <4>1, LineIsOurs
      <4>3. PICK b \in Books : b = <<x, k>>
        BY <4>1, LineIsOurs DEF Books
      <4>4. b[1] \in Held
        BY <4>1, <4>3, LineIsOurs
      <4>5. ledger'[b] >= 0
        BY <1>3, <4>4 DEF NobodyOverdrawn, Books
      <4> QED BY <4>2, <4>3, <4>5 DEF Drawn, Holds
    <3> QED BY <3>1
  <2> QED BY <2>2, <2>6, <2>7, <2>8, <2>9 DEF CreditExplained, LinesIn, Holds
<1> QED BY <1>1, <1>2, <1>5 DEF CreditInv

(* What a line may reach is no part of the books.                          *)
LEMMA CreditBooked ==
  ASSUME LedgerTypeOK, NobodyOverdrawn, CreditInv, NEW l \in Lines,
         OpenLine(l) \/ (\E w \in Worths : AdjustCollateral(l, w))
           \/ (\E n \in Amounts : Draw(l, n) \/ Repay(l, n))
  PROVE  CreditInv' /\ Touches(CreditBooks) /\ OwnMoney
<1>1. ASSUME ledger' = ledger PROVE CreditInv' /\ Touches(CreditBooks) /\ OwnMoney
  <2>1. Spared(CreditBooks)
    BY <1>1 DEF Spared
  <2> QED BY <1>1, <2>1, CreditKept, NothingPosted
<1>2. CASE OpenLine(l)
  BY <1>1, <1>2 DEF OpenLine
<1>3. CASE \E w \in Worths : AdjustCollateral(l, w)
  BY <1>1, <1>3 DEF AdjustCollateral
<1>4. ASSUME NEW n \in Amounts, Draw(l, n) PROVE CreditInv' /\ Touches(CreditBooks) /\ OwnMoney
  <2>1. n \in Int /\ Post(FourLegs(l, n))
    BY <1>4, CustomersAssumption DEF Draw
  <2> QED BY <2>1, CreditMoved
<1>5. ASSUME NEW n \in Amounts, Repay(l, n) PROVE CreditInv' /\ Touches(CreditBooks) /\ OwnMoney
  <2>1. n \in Nat
    BY CustomersAssumption
  <2>2. -n \in Int
    BY <2>1
  <2>3. Post(FourLegs(l, -n))
    BY <1>5 DEF Repay
  <2> QED BY <2>2, <2>3, CreditMoved
<1> QED BY <1>2, <1>3, <1>4, <1>5

-----------------------------------------------------------------------------
(* Vaults: one that was closed holds nothing, and nothing enters it again. *)
VaultsInv ==
  /\ vault \in [Vaults -> {"none", "active", "closed"}]
  /\ \A v \in Vaults : vault[v] = "closed" => Holds(v, InCurrencyOf(v)) = 0

LEMMA VaultIsOurs ==
  ASSUME NEW v \in Vaults
  PROVE  v \in Held /\ v \in Owners \ Accounts /\ InCurrencyOf(v) \in Currencies
<1>1. AccountOf[v] \in Accounts /\ v \in Held \ Accounts
  BY VaultsAndLines
<1> QED BY <1>1, AccountsAreHeld DEF Owners, InCurrencyOf

LEMMA VaultsKept ==
  ASSUME VaultsInv, Spared(Vaults), vault' = vault
  PROVE  VaultsInv'
<1>1. \A v \in Vaults : Holds(v, InCurrencyOf(v))' = Holds(v, InCurrencyOf(v))
  BY VaultIsOurs DEF Spared, Holds
<1> QED BY <1>1 DEF VaultsInv

LEMMA SweptIsNatural ==
  ASSUME LedgerTypeOK, NobodyOverdrawn, NEW v \in Vaults
  PROVE  Swept(v) \in Nat
<1>1. PICK c \in Currencies : c = InCurrencyOf(v)
  BY VaultIsOurs
<1>2. PICK b \in Books : b = <<v, c>>
  BY VaultIsOurs DEF Books
<1>3. b[1] \in Held
  BY <1>2, VaultIsOurs
<1>4. ledger[b] \in Int /\ ledger[b] >= 0
  BY <1>3 DEF LedgerTypeOK, NobodyOverdrawn
<1> QED BY <1>1, <1>2, <1>4 DEF Swept, Holds

(* Money moves between a vault and its account.                            *)
LEMMA VaultMoved ==
  ASSUME LedgerTypeOK, NobodyOverdrawn, VaultsInv, NEW v \in Vaults, NEW n \in Int,
         \/ Move(n, InCurrencyOf(v), AccountOf[v], v)
         \/ Move(-n, InCurrencyOf(v), v, AccountOf[v])
  PROVE  /\ Touches(Vaults) /\ OwnMoney /\ Spared(Vaults \ {v})
         /\ Holds(v, InCurrencyOf(v))' = Holds(v, InCurrencyOf(v)) + n
<1>1. PICK a \in Accounts : a = AccountOf[v] /\ InCurrencyOf(v) = CurrencyOf[a]
  BY VaultsAndLines DEF InCurrencyOf
<1>2. v \in Owners \ Accounts
  BY VaultIsOurs
<1>3. Touches({v}) /\ OwnMoney /\ Gains(v, CurrencyOf[a], n)
  <2>1. CASE Move(n, InCurrencyOf(v), AccountOf[v], v)
    <3>1. Move(n, CurrencyOf[a], a, v)
      BY <1>1, <2>1
    <3> QED BY <1>2, <3>1, LeavesAccount
  <2>2. CASE Move(-n, InCurrencyOf(v), v, AccountOf[v])
    <3>1. PICK m \in Int : m = -n /\ n = -m
      OBVIOUS
    <3>2. Move(m, CurrencyOf[a], v, a)
      BY <1>1, <2>2, <3>1
    <3>3. Touches({v}) /\ OwnMoney /\ Gains(v, CurrencyOf[a], -m)
      BY <1>2, <3>2, EntersAccount
    <3> QED BY <3>1, <3>3
  <2> QED BY <2>1, <2>2
<1>4. Touches(Vaults)
  BY <1>3, TouchesMore
<1>5. Spared(Vaults \ {v})
  <2>1. Vaults \ {v} \subseteq Owners \ ({v} \cup Accounts)
    BY VaultIsOurs
  <2> QED BY <1>3, <2>1, TouchesSpares
<1>6. ledger'[<<v, CurrencyOf[a]>>] = ledger[<<v, CurrencyOf[a]>>] + n
  BY <1>3, AccountsAreHeld DEF Gains
<1> QED BY <1>1, <1>3, <1>4, <1>5, <1>6 DEF Holds

LEMMA VaultUsed ==
  ASSUME LedgerTypeOK, NobodyOverdrawn, VaultsInv, NEW v \in Vaults, NEW n \in Amounts,
         Deposit(v, n) \/ Withdraw(v, n)
  PROVE  VaultsInv' /\ Touches(Vaults) /\ OwnMoney
<1>1. n \in Nat
  BY CustomersAssumption
<1>2. vault[v] = "active" /\ vault' = vault
  BY DEF Deposit, Withdraw, productVars
<1>3. Touches(Vaults) /\ OwnMoney /\ Spared(Vaults \ {v})
  <2>1. CASE Deposit(v, n)
    <3>1. Move(n, InCurrencyOf(v), AccountOf[v], v) /\ n \in Int
      BY <1>1, <2>1 DEF Deposit
    <3> QED BY <3>1, VaultMoved
  <2>2. CASE Withdraw(v, n)
    <3>1. PICK m \in Int : m = -n /\ n = -m
      BY <1>1
    <3>2. Move(-m, InCurrencyOf(v), v, AccountOf[v])
      BY <2>2, <3>1 DEF Withdraw
    <3> QED BY <3>2, VaultMoved
  <2> QED BY <2>1, <2>2
<1>4. ASSUME NEW x \in Vaults, vault'[x] = "closed" PROVE Holds(x, InCurrencyOf(x))' = 0
  <2>1. x \in Vaults \ {v} /\ vault[x] = "closed"
    BY <1>2, <1>4
  <2>2. Holds(x, InCurrencyOf(x))' = Holds(x, InCurrencyOf(x))
    BY <1>3, <2>1, VaultIsOurs DEF Spared, Holds
  <2> QED BY <2>1, <2>2 DEF VaultsInv
<1> QED BY <1>2, <1>3, <1>4 DEF VaultsInv

LEMMA CreateVaultBooked ==
  ASSUME LedgerTypeOK, NobodyOverdrawn, VaultsInv, NEW v \in Vaults, CreateVault(v)
  PROVE  VaultsInv' /\ Touches(Vaults) /\ OwnMoney
<1>1. ledger' = ledger /\ vault' = [vault EXCEPT ![v] = "active"]
  BY DEF CreateVault
<1>2. \A x \in Vaults : vault'[x] = "closed" => vault[x] = "closed"
  BY <1>1 DEF VaultsInv
<1>3. VaultsInv'
  BY <1>1, <1>2 DEF VaultsInv, Holds
<1> QED BY <1>1, <1>3, NothingPosted

(* Closing sweeps what is left into the account, all of it.                *)
LEMMA CloseVaultBooked ==
  ASSUME LedgerTypeOK, NobodyOverdrawn, VaultsInv, NEW v \in Vaults, CloseVault(v)
  PROVE  VaultsInv' /\ Touches(Vaults) /\ OwnMoney
<1>1. vault' = [vault EXCEPT ![v] = "closed"]
  BY DEF CloseVault
<1>2. PICK left \in Nat : left = Swept(v) /\ left = Holds(v, InCurrencyOf(v))
  BY SweptIsNatural DEF Swept
<1>3. Touches(Vaults) /\ OwnMoney /\ Spared(Vaults \ {v}) /\ Holds(v, InCurrencyOf(v))' = 0
  <2>1. CASE left > 0
    <3>1. PICK m \in Int : m = -left /\ left = -m
      OBVIOUS
    <3>2. Move(-m, InCurrencyOf(v), v, AccountOf[v])
      BY <1>2, <2>1, <3>1 DEF CloseVault
    <3>3. /\ Touches(Vaults) /\ OwnMoney /\ Spared(Vaults \ {v})
          /\ Holds(v, InCurrencyOf(v))' = Holds(v, InCurrencyOf(v)) + m
      BY <3>2, VaultMoved
    <3>4. left + m = 0
      BY <3>1
    <3>5. Holds(v, InCurrencyOf(v))' = left + m
      BY <1>2, <3>3
    <3> QED BY <3>3, <3>4, <3>5
  <2>2. CASE ~(left > 0)
    <3>1. ledger' = ledger
      BY <1>2, <2>2 DEF CloseVault
    <3>2. Holds(v, InCurrencyOf(v))' = 0
      BY <1>2, <2>2, <3>1 DEF Holds
    <3> QED BY <3>1, <3>2, NothingPosted DEF Spared
  <2> QED BY <2>1, <2>2
<1>4. ASSUME NEW x \in Vaults, vault'[x] = "closed" PROVE Holds(x, InCurrencyOf(x))' = 0
  <2>1. CASE x = v
    BY <1>3, <2>1
  <2>2. CASE x # v
    <3>1. vault[x] = "closed"
      BY <1>1, <1>4, <2>2 DEF VaultsInv
    <3>2. Holds(x, InCurrencyOf(x))' = Holds(x, InCurrencyOf(x))
      BY <1>3, <2>2, VaultIsOurs DEF Spared, Holds
    <3> QED BY <3>1, <3>2 DEF VaultsInv
  <2> QED BY <2>1, <2>2
<1>5. vault' \in [Vaults -> {"none", "active", "closed"}]
  BY <1>1 DEF VaultsInv
<1> QED BY <1>3, <1>4, <1>5 DEF VaultsInv

LEMMA VaultsBooked ==
  ASSUME LedgerTypeOK, NobodyOverdrawn, VaultsInv, NEW v \in Vaults,
         CreateVault(v) \/ CloseVault(v) \/ (\E n \in Amounts : Deposit(v, n) \/ Withdraw(v, n))
  PROVE  VaultsInv' /\ Touches(Vaults) /\ OwnMoney
BY VaultUsed, CreateVaultBooked, CloseVaultBooked

-----------------------------------------------------------------------------
(* Cards: an approved authorisation leaves the card's account.             *)
AuthorisationRows ==
  [status : {"none", "pending", "settled", "declined"}, card : Cards \cup {NoOne},
   amount : Nat, at : Nat]

AuthorisationsInv ==
  /\ authorisation \in [Authorisations -> AuthorisationRows]
  /\ \A u \in Authorisations : authorisation[u].status # "none" => authorisation[u].card \in Cards

CardOwners == {"clearing:card_authorisations"}

LEMMA AuthorisationWritten ==
  ASSUME AuthorisationsInv, NEW u \in Authorisations, NEW row \in AuthorisationRows, row.card \in Cards,
         authorisation' = [authorisation EXCEPT ![u] = row]
  PROVE  AuthorisationsInv'
<1>1. authorisation'[u] = row /\ \A x \in Authorisations : x # u => authorisation'[x] = authorisation[x]
  BY DEF AuthorisationsInv
<1>2. authorisation' \in [Authorisations -> AuthorisationRows]
  BY DEF AuthorisationsInv
<1>3. ASSUME NEW x \in Authorisations, authorisation'[x].status # "none"
      PROVE  authorisation'[x].card \in Cards
  BY <1>1, <1>3 DEF AuthorisationsInv
<1> QED BY <1>2, <1>3 DEF AuthorisationsInv

LEMMA AuthorisationDecided ==
  ASSUME AuthorisationsInv, NEW u \in Authorisations, authorisation[u].status = "pending",
         NEW status \in {"settled", "declined"},
         authorisation' = [authorisation EXCEPT ![u].status = status]
  PROVE  AuthorisationsInv'
<1>1. PICK old \in AuthorisationRows : old = authorisation[u]
  BY DEF AuthorisationsInv
<1>2. PICK row : row = [status |-> status, card |-> old.card, amount |-> old.amount, at |-> old.at]
  OBVIOUS
<1>3. row \in AuthorisationRows /\ row.card = old.card
  BY <1>2 DEF AuthorisationRows
<1>4. [old EXCEPT !.status = status] = row
  BY <1>2 DEF AuthorisationRows
<1>5. old.card \in Cards
  BY <1>1 DEF AuthorisationsInv
<1>6. authorisation' = [authorisation EXCEPT ![u] = row]
  BY <1>1, <1>4
<1> QED BY <1>3, <1>5, <1>6, AuthorisationWritten

LEMMA AuthoriseBooked ==
  ASSUME now \in Nat, AuthorisationsInv, NEW u \in Authorisations, NEW k \in Cards, NEW n \in Amounts,
         NEW category \in MerchantCategories, Authorise(u, k, n, category)
  PROVE  AuthorisationsInv' /\ ledger' = ledger
<1>1. n \in Nat
  BY CustomersAssumption
<1>2. PICK status \in {"pending", "declined"} :
        status = IF DeclinedAtOnce(k, category) THEN "declined" ELSE "pending"
  OBVIOUS
<1>3. PICK row : row = [status |-> status, card |-> k, amount |-> n, at |-> now]
  OBVIOUS
<1>4. row \in AuthorisationRows /\ row.card \in Cards
  BY <1>1, <1>3 DEF AuthorisationRows
<1>5. authorisation' = [authorisation EXCEPT ![u] = row]
  BY <1>2, <1>3 DEF Authorise
<1> QED BY <1>4, <1>5, AuthorisationWritten DEF Authorise

LEMMA ApprovalBooked ==
  ASSUME LedgerTypeOK, NobodyOverdrawn, AuthorisationsInv, NEW u \in Authorisations,
         ApproveAuthorisation(u)
  PROVE  AuthorisationsInv' /\ Touches(CardOwners) /\ OwnMoney
<1>1. authorisation[u].status = "pending"
  BY DEF ApproveAuthorisation
<1>2. PICK k \in Cards : k = authorisation[u].card
  BY <1>1 DEF AuthorisationsInv
<1>3. PICK a \in Accounts : a = CardAccount[k]
  BY CardsAssumption
<1>4. PICK n \in Nat : n = authorisation[u].amount
  BY DEF AuthorisationsInv, AuthorisationRows
<1>5. PICK clearing : clearing = "clearing:card_authorisations"
  OBVIOUS
<1>6. clearing \in Owners \ Accounts /\ n \in Int
  BY <1>5, HouseBooks DEF OwnBooks
<1>7. Move(n, CurrencyOf[a], a, clearing)
  BY <1>2, <1>3, <1>4, <1>5 DEF ApproveAuthorisation
<1>8. Touches({clearing}) /\ OwnMoney
  BY <1>6, <1>7, LeavesAccount
<1>9. AuthorisationsInv'
  BY <1>1, AuthorisationDecided DEF ApproveAuthorisation
<1> QED BY <1>5, <1>8, <1>9 DEF CardOwners

LEMMA CardsBooked ==
  ASSUME now \in Nat, LedgerTypeOK, NobodyOverdrawn, AuthorisationsInv, CardNext
  PROVE  AuthorisationsInv' /\ Touches(CardOwners) /\ OwnMoney
<1>1. ASSUME ledger' = ledger, authorisation' = authorisation
      PROVE  AuthorisationsInv' /\ Touches(CardOwners) /\ OwnMoney
  BY <1>1, NothingPosted DEF AuthorisationsInv
<1>2. CASE \E k \in Cards :
             \/ \E key \in CardKeys : Freeze(k, key) \/ Unfreeze(k, key)
             \/ \E set \in Controls : CreateCard(k, set) \/ SetControls(k, set)
  <2>1. ledger' = ledger /\ authorisation' = authorisation
    BY <1>2 DEF Freeze, Unfreeze, CreateCard, SetControls
  <2> QED BY <1>1, <2>1
<1>3. CASE \E k \in Cards, u \in Authorisations, n \in Amounts, category \in MerchantCategories :
             Authorise(u, k, n, category)
  BY <1>3, AuthoriseBooked, NothingPosted
<1>4. CASE \E u \in Authorisations : ApproveAuthorisation(u)
  BY <1>4, ApprovalBooked
<1>5. CASE \E u \in Authorisations : DeclineAuthorisation(u)
  BY <1>5, AuthorisationDecided, NothingPosted DEF DeclineAuthorisation
<1>6. CASE \E d \in Disputes : SubmitEvidence(d) \/ \E u \in Authorisations : CreateDispute(d, u)
  <2>1. ledger' = ledger /\ authorisation' = authorisation
    BY <1>6 DEF SubmitEvidence, CreateDispute
  <2> QED BY <1>1, <2>1
<1>7. CASE UNCHANGED <<ledger, customerVars, cardVars>>
  BY <1>1, <1>7 DEF cardVars
<1> QED BY <1>2, <1>3, <1>4, <1>5, <1>6, <1>7 DEF CardNext

-----------------------------------------------------------------------------
(* Coins: what was issued is what the accounts hold, and the reserve of a  *)
(* currency backs the coins redeemed in it.                                *)
CoinHolders(coin) == {a \in Accounts : CurrencyOf[a] = Coins[coin]}
CoinHeld(coin) == SumFunctionOnSet([a \in Accounts |-> Holds(a, coin)], CoinHolders(coin))

CoinsInv ==
  /\ \A coin \in DOMAIN Coins : Holds("issuance:coin", coin) = -CoinHeld(coin)
  /\ \A c \in Currencies : ReserveExplained(c)

LEMMA CoinBooks == CoinOwners \subseteq Owners \ Accounts
BY HouseBooks DEF CoinOwners, OwnBooks

(* A coin is never the currency of an account that holds it.               *)
LEMMA CoinIsForeign ==
  ASSUME NEW coin \in DOMAIN Coins, NEW a \in CoinHolders(coin)
  PROVE  a \in Accounts /\ coin \in Currencies /\ coin # CurrencyOf[a]
BY CoinsAssumed DEF CoinHolders

LEMMA CoinsKept ==
  ASSUME LedgerTypeOK, CoinsInv, Spared(CoinOwners), OwnMoney
  PROVE  CoinsInv'
<1>1. ASSUME NEW coin \in DOMAIN Coins PROVE Holds("issuance:coin", coin)' = -CoinHeld(coin)'
  <2>1. PICK f : f = [a \in Accounts |-> Holds(a, coin)]
    OBVIOUS
  <2>2. PICK g : g = [a \in Accounts |-> Holds(a, coin)']
    OBVIOUS
  <2>3. PICK P \in SUBSET Accounts : P = CoinHolders(coin)
    BY DEF CoinHolders
  <2>4. IsFiniteSet(P)
    BY FiniteBooks, FS_Subset
  <2>5. \A a \in P : g[a] = f[a]
    BY <2>1, <2>2, <2>3, CoinIsForeign DEF OwnMoney, Holds
  <2>6. SumFunctionOnSet(g, P) = SumFunctionOnSet(f, P)
    BY <2>4, <2>5, SumSame
  <2>7. CoinHeld(coin)' = CoinHeld(coin)
    BY <2>1, <2>2, <2>3, <2>6 DEF CoinHeld, CoinHolders
  <2>8. Holds("issuance:coin", coin)' = Holds("issuance:coin", coin)
    BY CoinsAssumed DEF Spared, CoinOwners, Holds
  <2> QED BY <2>7, <2>8 DEF CoinsInv
<1>2. ASSUME NEW c \in Currencies PROVE ReserveExplained(c)'
  <2>1. \A coin \in DOMAIN Coins : Holds("issuance:coin", coin)' = Holds("issuance:coin", coin)
    BY CoinsAssumed DEF Spared, CoinOwners, Holds
  <2>2. [coin \in DOMAIN Coins |-> Holds("issuance:coin", coin)'] =
          [coin \in DOMAIN Coins |-> Holds("issuance:coin", coin)]
    BY <2>1
  <2>3. Holds("reserve:issuer", c)' = Holds("reserve:issuer", c)
    BY DEF Spared, CoinOwners, Holds
  <2> QED BY <2>2, <2>3 DEF CoinsInv, ReserveExplained, RedeemedIn
<1> QED BY <1>1, <1>2 DEF CoinsInv

LEMMA CoinHeldIs ==
  ASSUME LedgerTypeOK, NEW a \in Accounts, NEW coin \in DOMAIN Coins, CurrencyOf[a] = Coins[coin],
         NEW n \in Int, NEW k \in DOMAIN Coins,
         \A z \in Accounts, d \in Currencies :
           d # CurrencyOf[z] => ledger'[<<z, d>>] = ledger[<<z, d>>] + IF z = a /\ d = coin THEN n ELSE 0
  PROVE  CoinHeld(k) \in Int /\ CoinHeld(k)' = CoinHeld(k) + IF k = coin THEN n ELSE 0
<1>1. PICK f : f = [z \in Accounts |-> Holds(z, k)]
  OBVIOUS
<1>2. PICK g : g = [z \in Accounts |-> Holds(z, k)']
  OBVIOUS
<1>3. PICK P \in SUBSET Accounts : P = CoinHolders(k)
  BY DEF CoinHolders
<1>4. IsFiniteSet(P)
  BY FiniteBooks, FS_Subset
<1>5. \A z \in P : f[z] \in Int
  <2>1. ASSUME NEW z \in P PROVE f[z] \in Int
    <3>1. z \in Owners /\ k \in Currencies
      BY CoinsAssumed, AccountsAreHeld
    <3>2. ledger[<<z, k>>] \in Int
      BY <3>1, BookIsInteger
    <3> QED BY <1>1, <3>2 DEF Holds
  <2> QED BY <2>1
<1>6. SumFunctionOnSet(f, P) \in Int
  BY <1>4, <1>5, SumIsInteger
<1>7. \A z \in P : g[z] = f[z] + IF z = a /\ k = coin THEN n ELSE 0
  <2>1. ASSUME NEW z \in P PROVE g[z] = f[z] + IF z = a /\ k = coin THEN n ELSE 0
    <3>1. z \in Accounts /\ k \in Currencies /\ k # CurrencyOf[z]
      BY <1>3, CoinIsForeign
    <3>2. ledger'[<<z, k>>] = ledger[<<z, k>>] + IF z = a /\ k = coin THEN n ELSE 0
      BY <3>1
    <3> QED BY <1>1, <1>2, <3>1, <3>2 DEF Holds
  <2> QED BY <2>1
<1>8. SumFunctionOnSet(g, P) = SumFunctionOnSet(f, P) + IF k = coin THEN n ELSE 0
  <2>1. CASE k = coin
    <3>1. a \in P
      BY <1>3, <2>1 DEF CoinHolders
    <3>2. PICK had \in Int : had = f[a]
      BY <1>5, <3>1
    <3>3. g[a] = had + n
      BY <1>7, <2>1, <3>1, <3>2
    <3>4. g[a] \in Int
      BY <3>3
    <3>5. \A z \in P : z # a => g[z] = f[z]
      BY <1>5, <1>7
    <3>6. SumFunctionOnSet(g, P) = SumFunctionOnSet(f, P) + g[a] - f[a]
      BY <1>4, <1>5, <3>1, <3>4, <3>5, SumChange
    <3> QED BY <1>6, <2>1, <3>2, <3>3, <3>6
  <2>2. CASE k # coin
    <3>1. \A z \in P : g[z] = f[z]
      BY <1>5, <1>7, <2>2
    <3>2. SumFunctionOnSet(g, P) = SumFunctionOnSet(f, P)
      BY <1>4, <3>1, SumSame
    <3> QED BY <1>6, <2>2, <3>2
  <2> QED BY <2>1, <2>2
<1>9. CoinHeld(k) = SumFunctionOnSet(f, P) /\ CoinHeld(k)' = SumFunctionOnSet(g, P)
  BY <1>1, <1>2, <1>3 DEF CoinHeld, CoinHolders
<1> QED BY <1>6, <1>8, <1>9

IssuedIn(c) == SumFunctionOnSet([coin \in DOMAIN Coins |-> Holds("issuance:coin", coin)], RedeemedIn(c))

LEMMA IssuedInIs ==
  ASSUME LedgerTypeOK, NEW coin \in DOMAIN Coins, NEW n \in Int, Gains("issuance:coin", coin, -n),
         NEW c \in Currencies
  PROVE  IssuedIn(c) \in Int /\ IssuedIn(c)' = IssuedIn(c) - IF c = Coins[coin] THEN n ELSE 0
<1>1. PICK f : f = [y \in DOMAIN Coins |-> Holds("issuance:coin", y)]
  OBVIOUS
<1>2. PICK g : g = [y \in DOMAIN Coins |-> Holds("issuance:coin", y)']
  OBVIOUS
<1>3. PICK P \in SUBSET DOMAIN Coins : P = RedeemedIn(c)
  BY DEF RedeemedIn
<1>4. IsFiniteSet(P)
  <2>1. P \in SUBSET Currencies /\ IsFiniteSet(Currencies)
    BY CoinsAssumed, FiniteBooks
  <2> QED BY <2>1, FS_Subset
<1>5. \A y \in P : f[y] \in Int
  <2>1. ASSUME NEW y \in P PROVE f[y] \in Int
    <3>1. "issuance:coin" \in Owners /\ y \in Currencies
      BY CoinBooks, CoinsAssumed DEF CoinOwners
    <3>2. ledger[<<"issuance:coin", y>>] \in Int
      BY <3>1, BookIsInteger
    <3> QED BY <1>1, <3>2 DEF Holds
  <2> QED BY <2>1
<1>6. SumFunctionOnSet(f, P) \in Int
  BY <1>4, <1>5, SumIsInteger
<1>7. \A y \in P : g[y] = f[y] + IF y = coin THEN -n ELSE 0
  BY <1>1, <1>2, CoinsAssumed DEF Gains, Holds
<1>8. coin \in P <=> c = Coins[coin]
  BY <1>3 DEF RedeemedIn
<1>9. SumFunctionOnSet(g, P) = SumFunctionOnSet(f, P) - IF c = Coins[coin] THEN n ELSE 0
  <2>1. CASE coin \in P
    <3>1. PICK had \in Int : had = f[coin]
      BY <1>5, <2>1
    <3>2. g[coin] = had - n
      BY <1>7, <2>1, <3>1
    <3>3. g[coin] \in Int
      BY <3>2
    <3>4. \A y \in P : y # coin => g[y] = f[y]
      BY <1>5, <1>7
    <3>5. SumFunctionOnSet(g, P) = SumFunctionOnSet(f, P) + g[coin] - f[coin]
      BY <1>4, <1>5, <2>1, <3>3, <3>4, SumChange
    <3> QED BY <1>6, <1>8, <2>1, <3>1, <3>2, <3>5
  <2>2. CASE coin \notin P
    <3>1. \A y \in P : f[y] = g[y]
      BY <1>5, <1>7, <2>2
    <3>2. SumFunctionOnSet(f, P) = SumFunctionOnSet(g, P)
      BY <1>4, <3>1, SumSame
    <3> QED BY <1>6, <1>8, <2>2, <3>2
  <2> QED BY <2>1, <2>2
<1>10. IssuedIn(c) = SumFunctionOnSet(f, P) /\ IssuedIn(c)' = SumFunctionOnSet(g, P)
  BY <1>1, <1>2, <1>3 DEF IssuedIn, RedeemedIn
<1> QED BY <1>6, <1>9, <1>10

LEMMA RampBooked ==
  ASSUME LedgerTypeOK, NobodyOverdrawn, CoinsInv, NEW a \in Accounts, NEW coin \in DOMAIN Coins,
         CurrencyOf[a] = Coins[coin], NEW n \in Int, Ramp(a, coin, n)
  PROVE  CoinsInv' /\ Touches(CoinOwners)
<1>1. /\ Touches(CoinOwners)
      /\ Gains("reserve:issuer", Coins[coin], n) /\ Gains("issuance:coin", coin, -n)
      /\ \A z \in Accounts, k \in Currencies :
           k # CurrencyOf[z] =>
             ledger'[<<z, k>>] = ledger[<<z, k>>] + IF z = a /\ k = coin THEN n ELSE 0
  BY RampPosted
<1>2. ASSUME NEW k \in DOMAIN Coins PROVE Holds("issuance:coin", k)' = -CoinHeld(k)'
  <2>1. PICK m \in Int : m = IF k = coin THEN n ELSE 0
    OBVIOUS
  <2>2. PICK held \in Int : held = CoinHeld(k) /\ CoinHeld(k)' = held + m
    BY <1>1, <2>1, CoinHeldIs
  <2>3. PICK issued \in Int : issued = ledger[<<"issuance:coin", k>>]
    <3>1. "issuance:coin" \in Owners /\ k \in Currencies
      BY CoinBooks, CoinsAssumed DEF CoinOwners
    <3> QED BY <3>1, BookIsInteger
  <2>4. issued = -held
    BY <2>2, <2>3 DEF CoinsInv, Holds
  <2>5. ledger'[<<"issuance:coin", k>>] = issued + IF k = coin THEN -n ELSE 0
    BY <1>1, <2>3, CoinsAssumed DEF Gains
  <2>6. ledger'[<<"issuance:coin", k>>] = issued - m
    BY <2>1, <2>5
  <2>7. issued - m = -(held + m)
    BY <2>4
  <2> QED BY <2>2, <2>6, <2>7 DEF Holds
<1>3. ASSUME NEW c \in Currencies PROVE ReserveExplained(c)'
  <2>1. PICK m \in Int : m = IF c = Coins[coin] THEN n ELSE 0
    OBVIOUS
  <2>2. PICK issued \in Int : issued = IssuedIn(c) /\ IssuedIn(c)' = issued - m
    BY <1>1, <2>1, IssuedInIs
  <2>3. PICK kept \in Int : kept = ledger[<<"reserve:issuer", c>>]
    <3>1. "reserve:issuer" \in Owners
      BY CoinBooks DEF CoinOwners
    <3> QED BY <3>1, BookIsInteger
  <2>4. kept = -issued
    BY <2>2, <2>3 DEF CoinsInv, ReserveExplained, IssuedIn, Holds
  <2>5. ledger'[<<"reserve:issuer", c>>] = kept + m
    BY <1>1, <2>1, <2>3 DEF Gains
  <2>6. kept + m = -(issued - m)
    BY <2>4
  <2> QED BY <2>2, <2>5, <2>6 DEF ReserveExplained, IssuedIn, Holds
<1> QED BY <1>1, <1>2, <1>3 DEF CoinsInv

LEMMA CoinsBooked ==
  ASSUME LedgerTypeOK, NobodyOverdrawn, CoinsInv, NEW a \in Accounts, NEW coin \in DOMAIN Coins,
         NEW n \in Amounts, OnRamp(a, coin, n) \/ OffRamp(a, coin, n)
  PROVE  CoinsInv' /\ Touches(CoinOwners)
<1>1. CurrencyOf[a] = Coins[coin] /\ n \in Nat
  BY CustomersAssumption DEF OnRamp, OffRamp
<1>2. PICK m \in Int : Ramp(a, coin, m)
  <2>1. n \in Int /\ -n \in Int
    BY <1>1
  <2> QED BY <2>1 DEF OnRamp, OffRamp
<1> QED BY <1>1, <1>2, RampBooked

(* No more of a coin is ever taken back than was issued.                   *)
LEMMA IssuedIsOwed ==
  ASSUME LedgerTypeOK, NobodyOverdrawn, CoinsInv, NEW coin \in DOMAIN Coins
  PROVE  Holds("issuance:coin", coin) <= 0
<1>1. PICK f : f = [a \in Accounts |-> Holds(a, coin)]
  OBVIOUS
<1>2. PICK P \in SUBSET Accounts : P = CoinHolders(coin)
  BY DEF CoinHolders
<1>3. IsFiniteSet(P)
  BY FiniteBooks, FS_Subset
<1>4. ASSUME NEW a \in P PROVE f[a] \in Nat
  <2>1. PICK b \in Books : b = <<a, coin>>
    BY AccountsAreHeld, CoinsAssumed DEF Books, Owners
  <2>2. b[1] \in Held
    BY <2>1, AccountsAreHeld
  <2>3. ledger[b] \in Int /\ ledger[b] >= 0
    BY <2>2 DEF LedgerTypeOK, NobodyOverdrawn
  <2> QED BY <1>1, <2>1, <2>3 DEF Holds
<1>5. PICK held \in Nat : held = SumFunctionOnSet(f, P)
  BY <1>3, <1>4, SumIsNatural
<1>6. Holds("issuance:coin", coin) = -held
  BY <1>1, <1>2, <1>5 DEF CoinsInv, CoinHeld
<1>7. -held <= 0
  OBVIOUS
<1> QED BY <1>6, <1>7

-----------------------------------------------------------------------------
(* Exchange: a quote never gives more than it takes at the mids, so the    *)
(* clearing account is covered whatever currencies it holds.               *)
QuoteRows ==
  [status : {"none", "open", "executed"}, from : Currencies, to : Currencies,
   pays : Nat, gets : Nat, expiresAt : Nat]

FairQuote(x) ==
  x \in QuoteRows /\ x.gets * Mid[x.to] <= x.pays * Mid[x.from]

QuotesInv ==
  /\ quote = [q \in Quotes |-> quote[q]]
  /\ \A q \in Quotes : quote[q].status # "none" => FairQuote(quote[q])

ExchangeInv == QuotesInv /\ ExchangeCovered

KeptPart(worth, keeps, mid) == (worth * keeps) \div (mid * 10000)

(* Rounding down is in the bank's favour.                                  *)
LEMMA RoundedDown ==
  ASSUME NEW worth \in Nat, NEW keeps \in Nat, keeps <= 10000, NEW mid \in Nat, mid # 0
  PROVE  \E gets \in Nat : gets = KeptPart(worth, keeps, mid) /\ gets * mid <= worth
<1>1. PICK p \in Nat : p = worth * keeps
  BY ProductMonotone
<1>2. PICK d \in Nat : d = mid * 10000 /\ d > 0
  OBVIOUS
<1>3. PICK q \in Nat, r \in Nat : q = p \div d /\ p = d * q + r
  <2>1. (p \div d) \in Nat /\ (p % d) \in Nat /\ p = d * (p \div d) + (p % d)
    BY <1>2, SMTT(30)
  <2> QED BY <2>1
<1>4. keeps * worth <= 10000 * worth
  BY ProductMonotone
<1>5. p <= 10000 * worth
  BY <1>1, <1>4
<1>6. PICK g \in Nat : g = q * mid
  BY ProductMonotone
<1>7. d * q = 10000 * g
  BY <1>2, <1>6
<1>8. 10000 * g <= 10000 * worth
  BY <1>3, <1>5, <1>7
<1>9. g <= worth
  BY <1>8
<1> QED BY <1>1, <1>2, <1>3, <1>6, <1>9 DEF KeptPart

LEMMA ConvertedIsCovered ==
  ASSUME NEW n \in Nat, NEW c \in Currencies, NEW d \in Currencies
  PROVE  /\ Converted(n, c, d, Spread) \in Nat
         /\ Converted(n, c, d, Spread) * Mid[d] <= n * Mid[c]
<1>1. PICK mine \in Nat \ {0} : mine = Mid[c]
  BY RatesAssumed
<1>2. PICK mid \in Nat \ {0} : mid = Mid[d]
  BY RatesAssumed
<1>3. PICK keeps \in 0 .. 10000 : keeps = 10000 - Spread
  BY RatesAssumed
<1>4. PICK worth \in Nat : worth = n * mine
  BY ProductMonotone
<1>5. Converted(n, c, d, Spread) = KeptPart(worth, keeps, mid)
  BY <1>1, <1>2, <1>3, <1>4 DEF Converted, KeptPart
<1>6. PICK gets \in Nat : gets = KeptPart(worth, keeps, mid) /\ gets * mid <= worth
  <2>1. keeps \in Nat /\ keeps <= 10000 /\ mid \in Nat /\ mid # 0
    OBVIOUS
  <2> QED BY <2>1, RoundedDown
<1> QED BY <1>1, <1>2, <1>4, <1>5, <1>6

LEMMA QuoteWritten ==
  ASSUME QuotesInv, NEW q \in Quotes, NEW row, FairQuote(row), quote' = [quote EXCEPT ![q] = row]
  PROVE  QuotesInv'
<1>1. /\ quote' = [x \in Quotes |-> quote'[x]]
      /\ quote'[q] = row /\ \A x \in Quotes : x # q => quote'[x] = quote[x]
  BY DEF QuotesInv
<1>2. ASSUME NEW x \in Quotes, quote'[x].status # "none" PROVE FairQuote(quote'[x])
  BY <1>1, <1>2 DEF QuotesInv
<1>3. ASSUME NEW x \in Quotes, quote'[x].status # "none" PROVE FairQuote(quote[x])'
  BY <1>2, <1>3 DEF FairQuote, QuoteRows
<1> QED BY <1>1, <1>3 DEF QuotesInv

LEMMA ExchangeIsOurs == "fx:clearing" \in Owners \ Accounts
BY HouseBooks DEF OwnBooks

LEMMA CoverKept ==
  ASSUME ExchangeCovered, Spared({"fx:clearing"})
  PROVE  ExchangeCovered'
<1>1. \A c \in Currencies : Holds("fx:clearing", c)' = Holds("fx:clearing", c)
  BY DEF Spared, Holds
<1>2. [c \in Currencies |-> Holds("fx:clearing", c)' * Mid[c]] = [c \in Currencies |-> Holds("fx:clearing", c) * Mid[c]]
  BY <1>1
<1> QED BY <1>2 DEF ExchangeCovered

LEMMA ExchangeKept ==
  ASSUME ExchangeInv, Spared({"fx:clearing"}), quote' = quote
  PROVE  ExchangeInv'
<1>1. QuotesInv'
  BY DEF ExchangeInv, QuotesInv, FairQuote, QuoteRows
<1> QED BY <1>1, CoverKept DEF ExchangeInv

(* n of one currency for m of another that is worth no more.               *)
LEMMA CoverMoved ==
  ASSUME LedgerTypeOK, ExchangeCovered, NEW c \in Currencies, NEW k \in Currencies, NEW n \in Nat, NEW m \in Nat,
         m * Mid[k] <= n * Mid[c], Swaps(c, n, k, m)
  PROVE  ExchangeCovered'
<1>1. PICK f : f = [d \in Currencies |-> Holds("fx:clearing", d) * Mid[d]]
  OBVIOUS
<1>2. PICK g : g = [d \in Currencies |-> Holds("fx:clearing", d)' * Mid[d]]
  OBVIOUS
<1>3. PICK paid \in Nat : paid = n * Mid[c]
  BY RatesAssumed, ProductMonotone
<1>4. PICK given \in Nat : given = m * Mid[k]
  BY RatesAssumed, ProductMonotone
<1>5. given <= paid
  BY <1>3, <1>4
<1>6. ASSUME NEW d \in Currencies
      PROVE  /\ f[d] \in Int
             /\ g[d] = f[d] + ((IF d = c THEN paid ELSE 0) + (IF d = k THEN -given ELSE 0))
  <2>1. d \in Currencies
    OBVIOUS
  <2>2. PICK mid \in Nat : mid = Mid[d]
    BY <2>1, RatesAssumed
  <2>3. PICK had \in Int : had = ledger[<<"fx:clearing", d>>]
    BY <2>1, ExchangeIsOurs, BookIsInteger
  <2>4. PICK in \in Nat : in = IF d = c THEN n ELSE 0
    OBVIOUS
  <2>5. PICK out \in Nat : out = IF d = k THEN m ELSE 0
    OBVIOUS
  <2>6. ledger'[<<"fx:clearing", d>>] = had + in - out
    BY <2>1, <2>3, <2>4, <2>5 DEF Swaps
  <2>7. f[d] = had * mid /\ g[d] = (had + in - out) * mid
    BY <1>1, <1>2, <2>2, <2>3, <2>6 DEF Holds
  <2>8. PICK x \in Int, y \in Int, z \in Int : x = had * mid /\ y = in * mid /\ z = out * mid
    OBVIOUS
  <2>9. (had + in - out) * mid = x + y - z
    BY <2>8
  <2>10. y = IF d = c THEN paid ELSE 0
    BY <1>3, <2>2, <2>4, <2>8
  <2>11. z = IF d = k THEN given ELSE 0
    BY <1>4, <2>2, <2>5, <2>8
  <2> QED BY <2>7, <2>8, <2>9, <2>10, <2>11
<1>7. PICK h : h = [d \in Currencies |-> f[d] + IF d = c THEN paid ELSE 0]
  OBVIOUS
<1>8. \A d \in Currencies : f[d] \in Int /\ h[d] \in Int /\ g[d] \in Int
  <2>1. ASSUME NEW d \in Currencies PROVE f[d] \in Int /\ h[d] \in Int /\ g[d] \in Int
    <3>1. PICK had \in Int : had = f[d]
      BY <1>6
    <3>2. h[d] = had + IF d = c THEN paid ELSE 0
      BY <1>7, <3>1
    <3>3. g[d] = had + ((IF d = c THEN paid ELSE 0) + (IF d = k THEN -given ELSE 0))
      BY <1>6, <3>1
    <3> QED BY <3>1, <3>2, <3>3
  <2> QED BY <2>1
<1>9. SumFunctionOnSet(h, Currencies) = SumFunctionOnSet(f, Currencies) + h[c] - f[c]
  <2>1. \A d \in Currencies : d # c => h[d] = f[d]
    BY <1>7, <1>8
  <2> QED BY <1>8, <2>1, FiniteBooks, SumChange
<1>10. \A d \in Currencies : g[d] = h[d] + IF d = k THEN -given ELSE 0
  <2>1. ASSUME NEW d \in Currencies PROVE g[d] = h[d] + IF d = k THEN -given ELSE 0
    <3>1. PICK had \in Int : had = f[d]
      BY <1>6
    <3>2. h[d] = had + IF d = c THEN paid ELSE 0
      BY <1>7, <3>1
    <3>3. g[d] = had + ((IF d = c THEN paid ELSE 0) + (IF d = k THEN -given ELSE 0))
      BY <1>6, <3>1
    <3> QED BY <3>2, <3>3
  <2> QED BY <2>1
<1>11. SumFunctionOnSet(g, Currencies) = SumFunctionOnSet(h, Currencies) + g[k] - h[k]
  <2>1. \A d \in Currencies : d # k => g[d] = h[d]
    BY <1>8, <1>10
  <2> QED BY <1>8, <2>1, FiniteBooks, SumChange
<1>12. PICK before \in Int : before = SumFunctionOnSet(f, Currencies)
  BY <1>8, FiniteBooks, SumIsInteger
<1>13. before >= 0
  BY <1>1, <1>12 DEF ExchangeCovered
<1>14. SumFunctionOnSet(h, Currencies) = before + paid
  <2>1. PICK had \in Int : had = f[c]
    BY <1>8
  <2>2. h[c] = had + paid
    BY <1>7, <2>1
  <2> QED BY <1>9, <1>12, <2>1, <2>2
<1>15. SumFunctionOnSet(g, Currencies) = before + paid - given
  <2>1. PICK had \in Int : had = h[k]
    BY <1>8
  <2>2. g[k] = had - given
    BY <1>10, <2>1
  <2> QED BY <1>11, <1>14, <2>1, <2>2
<1>16. SumFunctionOnSet(g, Currencies) >= 0
  BY <1>5, <1>13, <1>15
<1> QED BY <1>2, <1>16 DEF ExchangeCovered

LEMMA CreateQuoteBooked ==
  ASSUME now \in Nat, LedgerTypeOK, ExchangeInv, NEW q \in Quotes, NEW c \in Currencies, NEW d \in Currencies,
         NEW n \in Amounts, CreateQuote(q, c, d, n)
  PROVE  ExchangeInv' /\ ledger' = ledger
<1>1. n \in Nat /\ c \in Currencies /\ d \in Currencies
  BY CustomersAssumption
<1>2. PICK gets \in Nat : gets = Converted(n, c, d, Spread) /\ gets * Mid[d] <= n * Mid[c]
  BY <1>1, ConvertedIsCovered
<1>3. PICK until \in Nat : until = now + QuoteLife
  BY RatesAssumed
<1>4. PICK row : row = [status |-> "open", from |-> c, to |-> d, pays |-> n, gets |-> gets, expiresAt |-> until]
  OBVIOUS
<1>5. row \in QuoteRows /\ row.from = c /\ row.to = d /\ row.pays = n /\ row.gets = gets
  BY <1>1, <1>4 DEF QuoteRows
<1>6. FairQuote(row)
  BY <1>2, <1>5 DEF FairQuote
<1>7. quote' = [quote EXCEPT ![q] = row] /\ ledger' = ledger
  BY <1>2, <1>3, <1>4 DEF CreateQuote
<1>8. QuotesInv'
  BY <1>6, <1>7, QuoteWritten DEF ExchangeInv
<1>9. Spared({"fx:clearing"})
  BY <1>7 DEF Spared
<1> QED BY <1>7, <1>8, <1>9, CoverKept DEF ExchangeInv

LEMMA ExecuteQuoteBooked ==
  ASSUME LedgerTypeOK, NobodyOverdrawn, ExchangeInv, NEW q \in Quotes, NEW a \in Accounts,
         NEW b \in Accounts, ExecuteQuote(q, a, b)
  PROVE  ExchangeInv' /\ Touches({"fx:clearing"}) /\ OwnMoney
<1>1. quote[q].status = "open"
  BY DEF ExecuteQuote, Executable
<1>2. PICK old \in QuoteRows : old = quote[q] /\ FairQuote(old)
  BY <1>1 DEF ExchangeInv, QuotesInv, FairQuote
<1>3. PICK row : row = [status |-> "executed", from |-> old.from, to |-> old.to, pays |-> old.pays,
                        gets |-> old.gets, expiresAt |-> old.expiresAt]
  OBVIOUS
<1>4. row \in QuoteRows /\ row.from = old.from /\ row.to = old.to /\ row.pays = old.pays /\ row.gets = old.gets
  BY <1>3 DEF QuoteRows
<1>5. [old EXCEPT !.status = "executed"] = row
  BY <1>3 DEF QuoteRows
<1>6. FairQuote(row)
  BY <1>2, <1>4 DEF FairQuote
<1>7. quote' = [quote EXCEPT ![q] = row]
  BY <1>2, <1>5 DEF ExecuteQuote
<1>8. QuotesInv'
  BY <1>6, <1>7, QuoteWritten DEF ExchangeInv
<1>9. PICK n \in Nat, m \in Nat : n = old.pays /\ m = old.gets
  BY DEF QuoteRows
<1>10. CurrencyOf[a] = old.from /\ CurrencyOf[b] = old.to
  BY <1>2 DEF ExecuteQuote
<1>11. n \in Int /\ m \in Int
  OBVIOUS
<1>12. Post(Together(Moved(n, CurrencyOf[a], a, "fx:clearing"), Moved(m, CurrencyOf[b], "fx:clearing", b)))
  BY <1>2, <1>9, <1>10 DEF ExecuteQuote
<1>13. Touches({"fx:clearing"}) /\ OwnMoney /\ Swaps(CurrencyOf[a], n, CurrencyOf[b], m)
  BY <1>11, <1>12, ExchangePosted
<1>14. PICK c \in Currencies, k \in Currencies : c = CurrencyOf[a] /\ k = CurrencyOf[b]
  BY <1>2, <1>10 DEF QuoteRows
<1>15. m * Mid[k] <= n * Mid[c]
  BY <1>2, <1>9, <1>10, <1>14 DEF FairQuote
<1>16. ExchangeCovered'
  <2>1. Swaps(c, n, k, m)
    BY <1>13, <1>14
  <2> QED BY <1>15, <2>1, CoverMoved DEF ExchangeInv
<1> QED BY <1>8, <1>13, <1>16 DEF ExchangeInv

LEMMA ExchangeBooked ==
  ASSUME now \in Nat, LedgerTypeOK, NobodyOverdrawn, ExchangeInv, NEW q \in Quotes,
         \/ \E c \in Currencies, d \in Currencies, n \in Amounts :
              CreateQuote(q, c, d, n)
         \/ \E a \in Accounts, b \in Accounts : ExecuteQuote(q, a, b)
  PROVE  ExchangeInv' /\ Touches({"fx:clearing"}) /\ OwnMoney
<1>1. CASE \E c \in Currencies, d \in Currencies, n \in Amounts :
             CreateQuote(q, c, d, n)
  BY <1>1, CreateQuoteBooked, NothingPosted
<1>2. CASE \E a \in Accounts, b \in Accounts : ExecuteQuote(q, a, b)
  BY <1>2, ExecuteQuoteBooked
<1> QED BY <1>1, <1>2

-----------------------------------------------------------------------------
(* The builder: what its projects were given and what they paid.           *)
ProjectRows ==
  [status : {"none", "blueprint_ready", "ready"}, currencies : Seq(Currencies),
   accounts : SUBSET Accounts]

JourneyRows ==
  [status : {"none", "settled"}, of : Projects \cup {NoOne}, from : Accounts \cup {NoOne}, amount : Nat]

AskedFor(blueprint) == {blueprint[i] : i \in DOMAIN blueprint \cap 1 .. MaxSeeded}

GoodProject(x) ==
  /\ x.status = "blueprint_ready" => x.currencies \in Blueprints
  /\ x.status # "ready" => x.accounts = {}
  /\ x.status = "ready" => {CurrencyOf[a] : a \in x.accounts} = AskedFor(x.currencies)

ProjectsInv == project \in [Projects -> ProjectRows] /\ \A p \in Projects : GoodProject(project[p])

JourneysInv ==
  /\ journey \in [Payments -> JourneyRows]
  /\ \A j \in Payments : journey[j].status = "none" => journey[j].of = NoOne
  /\ \A p \in Projects, j \in Payments : journey[j].of = p => journey[j].from \in project[p].accounts

PayoutsInv == \A p \in Projects, c \in Currencies : Holds(PayoutBook[p], c) = PaidOut(p, c)
SeedsInv == \A p \in Projects, c \in Currencies : -Holds(SeedBook[p], c) = SeedTotal(project[p].accounts, c)

BuilderInv == ProjectsInv /\ JourneysInv /\ PayoutsInv /\ SeedsInv

LEMMA BooksOfProject ==
  ASSUME NEW p \in Projects
  PROVE  /\ SeedBook[p] \in ProjectBooks /\ PayoutBook[p] \in ProjectBooks
         /\ SeedBook[p] \in Owners \ Accounts /\ PayoutBook[p] \in Owners \ Accounts
<1>1. SeedBook[p] \in ProjectBooks /\ PayoutBook[p] \in ProjectBooks
  BY DEF ProjectBooks
<1> QED BY <1>1, HouseBooks

LEMMA BooksApart ==
  ASSUME NEW p \in Projects, NEW q \in Projects
  PROVE  /\ SeedBook[p] # PayoutBook[q]
         /\ p # q => SeedBook[p] # SeedBook[q] /\ PayoutBook[p] # PayoutBook[q]
BY ProjectsAssumption

LEMMA PayoutsKept ==
  ASSUME PayoutsInv, Spared({PayoutBook[p] : p \in Projects}), journey' = journey
  PROVE  PayoutsInv'
<1>1. ASSUME NEW p \in Projects, NEW c \in Currencies PROVE Holds(PayoutBook[p], c)' = PaidOut(p, c)'
  <2>1. Holds(PayoutBook[p], c)' = Holds(PayoutBook[p], c)
    BY DEF Spared, Holds
  <2>2. PaidOut(p, c)' = PaidOut(p, c)
    BY DEF PaidOut
  <2> QED BY <2>1, <2>2 DEF PayoutsInv
<1> QED BY <1>1 DEF PayoutsInv

LEMMA BuilderKept ==
  ASSUME BuilderInv, Spared(ProjectBooks), project' = project, journey' = journey
  PROVE  BuilderInv'
<1>1. ProjectsInv' /\ JourneysInv'
  BY DEF BuilderInv, ProjectsInv, GoodProject, AskedFor, JourneysInv
<1>2. PayoutsInv'
  <2>1. Spared({PayoutBook[p] : p \in Projects})
    BY DEF Spared, ProjectBooks
  <2> QED BY <2>1, PayoutsKept DEF BuilderInv
<1>3. ASSUME NEW p \in Projects, NEW c \in Currencies
      PROVE  Holds(SeedBook[p], c)' = Holds(SeedBook[p], c)
  BY BooksOfProject DEF Spared, Holds
<1>4. SeedsInv'
  BY <1>3 DEF BuilderInv, SeedsInv, SeedTotal
<1> QED BY <1>1, <1>2, <1>4 DEF BuilderInv

LEMMA ProjectWritten ==
  ASSUME ProjectsInv, NEW p \in Projects, NEW row \in ProjectRows, GoodProject(row),
         project' = [project EXCEPT ![p] = row]
  PROVE  /\ ProjectsInv'
         /\ project'[p] = row /\ \A q \in Projects : q # p => project'[q] = project[q]
<1>1. project'[p] = row /\ \A q \in Projects : q # p => project'[q] = project[q]
  BY DEF ProjectsInv
<1>2. project' \in [Projects -> ProjectRows]
  BY DEF ProjectsInv
<1>3. ASSUME NEW q \in Projects PROVE GoodProject(project'[q])
  <2>1. CASE q = p
    BY <1>1, <2>1
  <2>2. CASE q # p
    BY <1>1, <2>2 DEF ProjectsInv
  <2> QED BY <2>1, <2>2
<1>4. ASSUME NEW q \in Projects PROVE GoodProject(project[q])'
  BY <1>3 DEF GoodProject, AskedFor
<1> QED BY <1>1, <1>2, <1>4 DEF ProjectsInv

LEMMA JourneysKept ==
  ASSUME JourneysInv, journey' = journey, \A q \in Projects : project[q].accounts \subseteq project'[q].accounts
  PROVE  JourneysInv'
BY DEF JourneysInv

(* A project that is not ready yet is described anew.                      *)
LEMMA BlueprintBooked ==
  ASSUME BuilderInv, NEW p \in Projects, project[p].status # "ready", NEW row \in ProjectRows,
         GoodProject(row), row.status # "ready", project' = [project EXCEPT ![p] = row],
         journey' = journey, ledger' = ledger
  PROVE  BuilderInv'
<1>1. project[p].accounts = {} /\ row.accounts = {}
  BY DEF BuilderInv, ProjectsInv, GoodProject
<1>2. /\ ProjectsInv'
      /\ project'[p] = row /\ \A q \in Projects : q # p => project'[q] = project[q]
  BY ProjectWritten DEF BuilderInv
<1>3. \A q \in Projects : project'[q].accounts = project[q].accounts
  BY <1>1, <1>2
<1>4. JourneysInv'
  BY <1>3, JourneysKept DEF BuilderInv
<1>5. PayoutsInv'
  BY PayoutsKept DEF BuilderInv, Spared
<1>6. SeedsInv'
  BY <1>3 DEF BuilderInv, SeedsInv, SeedTotal, Holds
<1> QED BY <1>2, <1>4, <1>5, <1>6 DEF BuilderInv

LEMMA CreateProjectBooked ==
  ASSUME BuilderInv, NEW p \in Projects, NEW blueprint \in Blueprints, CreateProject(p, blueprint)
  PROVE  BuilderInv' /\ ledger' = ledger
<1>1. PICK row : row = [status |-> "blueprint_ready", currencies |-> blueprint, accounts |-> {}]
  OBVIOUS
<1>2. blueprint \in Seq(Currencies)
  BY ProjectsAssumption
<1>3. row \in ProjectRows /\ row.status = "blueprint_ready" /\ GoodProject(row)
  BY <1>1, <1>2 DEF ProjectRows, GoodProject
<1>4. /\ project[p].status # "ready" /\ project' = [project EXCEPT ![p] = row]
      /\ journey' = journey /\ ledger' = ledger
  BY <1>1 DEF CreateProject
<1> QED BY <1>3, <1>4, BlueprintBooked

LEMMA PatchProjectBooked ==
  ASSUME BuilderInv, NEW p \in Projects, NEW blueprint \in Blueprints, PatchProject(p, blueprint)
  PROVE  BuilderInv' /\ ledger' = ledger
<1>1. project[p].status = "blueprint_ready"
  BY DEF PatchProject
<1>2. PICK old \in ProjectRows : old = project[p] /\ old.status = "blueprint_ready" /\ old.accounts = {}
  BY <1>1 DEF BuilderInv, ProjectsInv, GoodProject
<1>3. PICK row : row = [status |-> old.status, currencies |-> blueprint, accounts |-> old.accounts]
  OBVIOUS
<1>4. blueprint \in Seq(Currencies)
  BY ProjectsAssumption
<1>5. row \in ProjectRows /\ row.status = "blueprint_ready" /\ GoodProject(row)
  BY <1>2, <1>3, <1>4 DEF ProjectRows, GoodProject
<1>6. [old EXCEPT !.currencies = blueprint] = row
  BY <1>3 DEF ProjectRows
<1>7. /\ project[p].status # "ready" /\ project' = [project EXCEPT ![p] = row]
      /\ journey' = journey /\ ledger' = ledger
  BY <1>1, <1>2, <1>6 DEF PatchProject
<1> QED BY <1>5, <1>7, BlueprintBooked

LEMMA SeedTotalIsNatural ==
  ASSUME NEW S \in SUBSET Accounts, NEW c \in Currencies
  PROVE  SeedTotal(S, c) \in Nat
<1>1. PICK P \in SUBSET Accounts : P = {a \in S : CurrencyOf[a] = c}
  OBVIOUS
<1>2. IsFiniteSet(P)
  BY FiniteBooks, FS_Subset
<1>3. \A a \in P : SeedAmount[a] \in Nat
  BY ProjectsAssumption
<1>4. SumFunctionOnSet(SeedAmount, P) \in Nat
  BY <1>2, <1>3, SumIsNatural
<1> QED BY <1>1, <1>4 DEF SeedTotal

(* Seeding gives every new account its money out of the project's book.    *)
LEMMA SeedPosted ==
  ASSUME LedgerTypeOK, NobodyOverdrawn, NEW p \in Projects, Post(SeedEntries(p))
  PROVE  /\ Touches({SeedBook[p]}) /\ OwnMoney
         /\ \A c \in Currencies :
              ledger'[<<SeedBook[p], c>>] = ledger[<<SeedBook[p], c>>] - SeedTotal(ToSeed(p), c)
<1>1. PICK book : book = SeedBook[p]
  OBVIOUS
<1>2. PICK S \in SUBSET Accounts : S = ToSeed(p)
  <2>1. Seeds[p] \subseteq Accounts
    BY ProjectsAssumption
  <2> QED BY <2>1 DEF ToSeed
<1>3. book \in Owners \ Accounts
  BY <1>1, BooksOfProject
<1>4. PICK posted : posted = SeedEntries(p)
  OBVIOUS
<1>5. posted = [b \in (S \cup {book}) \X Currencies |->
                  IF b[1] = book THEN -SeedTotal(S, b[2])
                  ELSE IF CurrencyOf[b[1]] = b[2] THEN SeedAmount[b[1]] ELSE 0]
  BY <1>1, <1>2, <1>4 DEF SeedEntries
<1>6. ASSUME NEW x \in Owners, NEW c \in Currencies
      PROVE  /\ Part(posted, <<x, c>>) \in Int
             /\ x = book => Part(posted, <<x, c>>) = -SeedTotal(S, c)
             /\ x \notin S \cup {book} => Part(posted, <<x, c>>) = 0
             /\ x \in S => c = CurrencyOf[x] \/ Part(posted, <<x, c>>) = 0
  <2> DEFINE b == <<x, c>>
  <2>1. b = <<x, c>> /\ b[1] = x /\ b[2] = c
    OBVIOUS
  <2>2. PICK total \in Nat : total = SeedTotal(S, c)
    BY SeedTotalIsNatural
  <2>3. CASE x = book
    <3>1. b \in (S \cup {book}) \X Currencies
      BY <2>1, <2>3
    <3>2. posted[b] = -total
      BY <1>5, <2>1, <2>2, <2>3, <3>1
    <3>3. Part(posted, b) = -total
      BY <1>5, <3>1, <3>2 DEF Part
    <3> QED BY <1>3, <2>1, <2>2, <2>3, <3>3
  <2>4. CASE x \in S
    <3>1. b \in (S \cup {book}) \X Currencies /\ x # book
      BY <1>3, <2>1, <2>4
    <3>2. PICK seed \in Nat : seed = SeedAmount[x]
      BY <2>4, ProjectsAssumption
    <3>3. posted[b] = IF CurrencyOf[x] = c THEN seed ELSE 0
      BY <1>5, <2>1, <3>1, <3>2
    <3>4. Part(posted, b) = IF CurrencyOf[x] = c THEN seed ELSE 0
      BY <1>5, <3>1, <3>3 DEF Part
    <3> QED BY <2>1, <2>4, <3>1, <3>4
  <2>5. CASE x \notin S \cup {book}
    <3>1. b \notin (S \cup {book}) \X Currencies
      BY <2>1, <2>5
    <3>2. Part(posted, b) = 0
      BY <1>5, <3>1 DEF Part
    <3> QED BY <2>1, <2>5, <3>2
  <2> QED BY <2>3, <2>4, <2>5
<1>7. \A b \in Books : Part(posted, b) \in Int
  <2>1. ASSUME NEW b \in Books PROVE Part(posted, b) \in Int
    <3>1. PICK x \in Owners, c \in Currencies : b = <<x, c>>
      BY DEF Books, Owners
    <3> QED BY <1>6, <3>1
  <2> QED BY <2>1
<1>8. /\ LedgerTypeOK' /\ NobodyOverdrawn'
      /\ \A b \in Books : ledger'[b] = ledger[b] + Part(posted, b)
  BY <1>4, <1>7, PostIs
<1>9. ASSUME NEW x \in Owners, NEW c \in Currencies
      PROVE  /\ ledger'[<<x, c>>] = ledger[<<x, c>>] + Part(posted, <<x, c>>)
             /\ ledger[<<x, c>>] \in Int
  <2>1. <<x, c>> \in Books
    BY DEF Books, Owners
  <2> QED BY <1>8, <2>1 DEF LedgerTypeOK
<1>10. ASSUME NEW x \in Owners \ ({book} \cup Accounts), NEW c \in Currencies
       PROVE  ledger'[<<x, c>>] = ledger[<<x, c>>]
  <2>1. Part(posted, <<x, c>>) = 0
    BY <1>6
  <2> QED BY <1>9, <2>1
<1>11. ASSUME NEW a \in Accounts, NEW c \in Currencies, c # CurrencyOf[a]
       PROVE  ledger'[<<a, c>>] = ledger[<<a, c>>]
  <2>1. a \in Owners /\ a # book
    BY <1>3, AccountsAreHeld
  <2>2. Part(posted, <<a, c>>) = 0
    BY <1>6, <1>11, <2>1
  <2> QED BY <1>9, <2>1, <2>2
<1>12. ASSUME NEW c \in Currencies
       PROVE  ledger'[<<book, c>>] = ledger[<<book, c>>] - SeedTotal(S, c)
  <2>1. PICK total \in Nat : total = SeedTotal(S, c)
    BY SeedTotalIsNatural
  <2>2. Part(posted, <<book, c>>) = -total
    BY <1>3, <1>6, <2>1
  <2>3. PICK had \in Int : had = ledger[<<book, c>>]
    BY <1>3, <1>9
  <2>4. ledger'[<<book, c>>] = had + Part(posted, <<book, c>>)
    BY <1>3, <1>9, <2>3
  <2> QED BY <2>1, <2>2, <2>3, <2>4
<1> QED BY <1>1, <1>2, <1>8, <1>10, <1>11, <1>12 DEF Touches, OwnMoney

LEMMA NothingSeeded ==
  ASSUME NEW c \in Currencies PROVE SeedTotal({}, c) = 0
<1>1. PICK P : P = {a \in {} : CurrencyOf[a] = c}
  OBVIOUS
<1>2. P = {}
  BY <1>1
<1>3. SumFunctionOnSet(SeedAmount, {}) = 0
  BY SumEmpty
<1> QED BY <1>1, <1>2, <1>3 DEF SeedTotal

LEMMA ProvisionBooked ==
  ASSUME LedgerTypeOK, NobodyOverdrawn, BuilderInv, NEW p \in Projects, Provision(p)
  PROVE  BuilderInv' /\ Touches(ProjectBooks) /\ OwnMoney
<1>1. project[p].status = "blueprint_ready"
  BY DEF Provision
<1>2. PICK old \in ProjectRows :
        /\ old = project[p] /\ old.status = "blueprint_ready" /\ old.accounts = {}
        /\ old.currencies \in Blueprints
  BY <1>1 DEF BuilderInv, ProjectsInv, GoodProject
<1>3. Seeds[p] \subseteq Accounts
  BY ProjectsAssumption
<1>4. PICK S \in SUBSET Accounts : S = ToSeed(p)
  BY <1>3 DEF ToSeed
<1>5. PICK row : row = [status |-> "ready", currencies |-> old.currencies, accounts |-> S]
  OBVIOUS
<1>6. row \in ProjectRows /\ row.status = "ready" /\ row.accounts = S /\ row.currencies = old.currencies
  BY <1>5 DEF ProjectRows
<1>7. {CurrencyOf[a] : a \in S} = AskedFor(old.currencies)
  <2>1. S = {a \in Seeds[p] : CurrencyOf[a] \in AskedFor(old.currencies)}
    BY <1>2, <1>4 DEF ToSeed, Opening, AskedFor
  <2>2. ASSUME NEW c \in AskedFor(old.currencies) PROVE \E a \in S : CurrencyOf[a] = c
    <3>1. PICK i \in DOMAIN old.currencies \cap 1 .. MaxSeeded : c = old.currencies[i]
      BY DEF AskedFor
    <3>2. \E a \in Seeds[p] : CurrencyOf[a] = old.currencies[i]
      BY <1>2, ProjectsAssumption
    <3> QED BY <2>1, <3>1, <3>2
  <2> QED BY <2>1, <2>2
<1>8. GoodProject(row)
  BY <1>6, <1>7 DEF GoodProject
<1>9. project' = [project EXCEPT ![p] = row]
  <2>1. [old EXCEPT !.status = "ready", !.accounts = S] = row
    <3>1. PICK mid : mid = [old EXCEPT !.status = "ready"]
      OBVIOUS
    <3>2. mid = [status |-> "ready", currencies |-> old.currencies, accounts |-> old.accounts]
      BY <3>1 DEF ProjectRows
    <3>3. [mid EXCEPT !.accounts = S] = row
      BY <1>5, <3>2
    <3> QED BY <3>1, <3>3
  <2>2. project \in [Projects -> ProjectRows]
    BY DEF BuilderInv, ProjectsInv
  <2> QED BY <1>2, <1>4, <2>1, <2>2 DEF Provision
<1>10. /\ ProjectsInv'
       /\ project'[p] = row /\ \A q \in Projects : q # p => project'[q] = project[q]
  BY <1>6, <1>8, <1>9, ProjectWritten DEF BuilderInv
<1>11. journey' = journey
  BY DEF Provision
<1>12. JourneysInv'
  <2>1. \A q \in Projects : project[q].accounts \subseteq project'[q].accounts
    BY <1>2, <1>10
  <2> QED BY <1>11, <2>1, JourneysKept DEF BuilderInv
<1>13. /\ Touches({SeedBook[p]}) /\ OwnMoney
       /\ \A c \in Currencies :
            ledger'[<<SeedBook[p], c>>] = ledger[<<SeedBook[p], c>>] - SeedTotal(S, c)
  <2>1. Post(SeedEntries(p))
    BY DEF Provision
  <2> QED BY <1>4, <2>1, SeedPosted
<1>14. Touches(ProjectBooks)
  BY <1>13, BooksOfProject, TouchesMore
<1>15. PayoutsInv'
  <2>1. {PayoutBook[q] : q \in Projects} \subseteq Owners \ ({SeedBook[p]} \cup Accounts)
    BY BooksOfProject, BooksApart
  <2>2. Spared({PayoutBook[q] : q \in Projects})
    BY <1>13, <2>1, TouchesSpares
  <2> QED BY <1>11, <2>2, PayoutsKept DEF BuilderInv
<1>16. ASSUME NEW q \in Projects, NEW c \in Currencies
       PROVE  -ledger'[<<SeedBook[q], c>>] = SeedTotal(project'[q].accounts, c)
  <2>1. PICK had \in Int : had = ledger[<<SeedBook[q], c>>]
    BY BooksOfProject, BookIsInteger
  <2>2. -had = SeedTotal(project[q].accounts, c)
    BY <2>1 DEF BuilderInv, SeedsInv, Holds
  <2>3. CASE q = p
    <3>1. -had = 0
      BY <1>2, <2>2, <2>3, NothingSeeded
    <3>2. PICK total \in Nat : total = SeedTotal(S, c)
      BY SeedTotalIsNatural
    <3>3. ledger'[<<SeedBook[q], c>>] = had - total
      BY <1>13, <2>1, <2>3, <3>2
    <3>4. -(had - total) = total
      BY <3>1
    <3>5. SeedTotal(project'[q].accounts, c) = total
      BY <1>6, <1>10, <2>3, <3>2
    <3> QED BY <3>3, <3>4, <3>5
  <2>4. CASE q # p
    <3>1. SeedBook[q] \in Owners \ ({SeedBook[p]} \cup Accounts)
      BY <2>4, BooksOfProject, BooksApart
    <3>2. ledger'[<<SeedBook[q], c>>] = had
      BY <1>13, <2>1, <3>1 DEF Touches
    <3>3. project'[q] = project[q]
      BY <1>10, <2>4
    <3> QED BY <2>2, <3>2, <3>3
  <2> QED BY <2>3, <2>4
<1>17. SeedsInv'
  BY <1>16 DEF SeedsInv, SeedTotal, Holds
<1> QED BY <1>10, <1>12, <1>13, <1>14, <1>15, <1>17 DEF BuilderInv

PaysFor(x, p, c) == x.of = p /\ CurrencyOf[x.from] = c

LEMMA PaidOutIs ==
  ASSUME JourneysInv, NEW j \in Payments, journey[j].status = "none", NEW row \in JourneyRows,
         journey' = [journey EXCEPT ![j] = row], NEW p \in Projects, NEW c \in Currencies
  PROVE  /\ PaidOut(p, c) \in Int
         /\ PaidOut(p, c)' = PaidOut(p, c) + IF PaysFor(row, p, c) THEN row.amount ELSE 0
<1>1. PICK f : f = [x \in Payments |-> journey[x].amount]
  OBVIOUS
<1>2. PICK g : g = [x \in Payments |-> journey'[x].amount]
  OBVIOUS
<1>3. journey'[j] = row /\ \A x \in Payments : x # j => journey'[x] = journey[x]
  BY DEF JourneysInv
<1>4. \A x \in Payments : journey[x].amount \in Nat
  BY DEF JourneysInv, JourneyRows
<1>5. row.amount \in Nat
  BY DEF JourneyRows
<1>6. \A x \in Payments : f[x] \in Int /\ g[x] \in Int
  <2>1. ASSUME NEW x \in Payments PROVE f[x] \in Int /\ g[x] \in Int
    <3>1. CASE x = j
      BY <1>1, <1>2, <1>3, <1>4, <1>5, <3>1
    <3>2. CASE x # j
      BY <1>1, <1>2, <1>3, <1>4, <3>2
    <3> QED BY <3>1, <3>2
  <2> QED BY <2>1
<1>7. PICK P \in SUBSET Payments : P = {x \in Payments : journey[x].of = p /\ CurrencyOf[journey[x].from] = c}
  OBVIOUS
<1>8. PICK Q \in SUBSET Payments : Q = {x \in Payments : journey'[x].of = p /\ CurrencyOf[journey'[x].from] = c}
  OBVIOUS
<1>9. j \notin P
  <2>1. journey[j].of = NoOne /\ NoOne \notin Projects
    BY ProjectsAssumption DEF JourneysInv
  <2> QED BY <1>7, <2>1
<1>10. j \in Q <=> PaysFor(row, p, c)
  BY <1>3, <1>8 DEF PaysFor
<1>11. \A x \in Payments \ {j} : g[x] = f[x] /\ (x \in P <=> x \in Q)
  BY <1>1, <1>2, <1>3, <1>7, <1>8
<1>12. IsFiniteSet(Payments)
  BY FiniteBooks
<1>13. SumFunctionOnSet(g, Q) = SumFunctionOnSet(f, P)
         + (IF j \in Q THEN g[j] ELSE 0) - (IF j \in P THEN f[j] ELSE 0)
  BY <1>6, <1>11, <1>12, SumSelected
<1>14. SumFunctionOnSet(f, P) \in Int
  <2>1. IsFiniteSet(P) /\ \A x \in P : f[x] \in Int
    BY <1>6, <1>12, FS_Subset
  <2> QED BY <2>1, SumIsInteger
<1>15. g[j] = row.amount
  BY <1>2, <1>3
<1>16. SumFunctionOnSet(g, Q) = SumFunctionOnSet(f, P) + IF PaysFor(row, p, c) THEN row.amount ELSE 0
  BY <1>5, <1>9, <1>10, <1>13, <1>14, <1>15
<1>17. PaidOut(p, c) = SumFunctionOnSet(f, P) /\ PaidOut(p, c)' = SumFunctionOnSet(g, Q)
  BY <1>1, <1>2, <1>7, <1>8 DEF PaidOut
<1> QED BY <1>14, <1>16, <1>17

LEMMA TestPaymentBooked ==
  ASSUME LedgerTypeOK, NobodyOverdrawn, BuilderInv, NEW p \in Projects, NEW j \in Payments,
         NEW a \in Accounts, NEW n \in Amounts, TestPayment(j, p, a, n)
  PROVE  BuilderInv' /\ Touches(ProjectBooks) /\ OwnMoney
<1>1. n \in Nat
  BY CustomersAssumption
<1>2. PICK row : row = [status |-> "settled", of |-> p, from |-> a, amount |-> n]
  OBVIOUS
<1>3. row \in JourneyRows /\ row.status = "settled" /\ row.of = p /\ row.from = a /\ row.amount = n
  BY <1>1, <1>2 DEF JourneyRows
<1>4. /\ journey' = [journey EXCEPT ![j] = row] /\ project' = project /\ a \in project[p].accounts
      /\ Move(n, CurrencyOf[a], a, PayoutBook[p])
  BY <1>2 DEF TestPayment, OfProject
<1>5. journey[j].status = "none"
  BY DEF TestPayment, FirstFree
<1>6. JourneysInv'
  <2>1. journey'[j] = row /\ \A x \in Payments : x # j => journey'[x] = journey[x]
    BY <1>4 DEF BuilderInv, JourneysInv
  <2>2. journey' \in [Payments -> JourneyRows]
    BY <1>3, <1>4 DEF BuilderInv, JourneysInv
  <2>3. ASSUME NEW x \in Payments, journey'[x].status = "none" PROVE journey'[x].of = NoOne
    <3>1. x # j
      BY <1>3, <2>1, <2>3
    <3> QED BY <2>1, <2>3, <3>1 DEF BuilderInv, JourneysInv
  <2>4. ASSUME NEW q \in Projects, NEW x \in Payments, journey'[x].of = q
        PROVE  journey'[x].from \in project'[q].accounts
    <3>1. CASE x = j
      BY <1>3, <1>4, <2>1, <2>4, <3>1
    <3>2. CASE x # j
      BY <1>4, <2>1, <2>4, <3>2 DEF BuilderInv, JourneysInv
    <3> QED BY <3>1, <3>2
  <2> QED BY <2>2, <2>3, <2>4 DEF JourneysInv
<1>7. ProjectsInv'
  BY <1>4 DEF BuilderInv, ProjectsInv, GoodProject, AskedFor
<1>8. PICK book \in Owners \ Accounts : book = PayoutBook[p]
  BY BooksOfProject
<1>9. Touches({book}) /\ OwnMoney /\ Gains(book, CurrencyOf[a], n)
  <2>1. n \in Int /\ Move(n, CurrencyOf[a], a, book)
    BY <1>1, <1>4, <1>8
  <2> QED BY <2>1, LeavesAccount
<1>10. Touches(ProjectBooks)
  BY <1>8, <1>9, BooksOfProject, TouchesMore
<1>11. ASSUME NEW q \in Projects, NEW c \in Currencies
       PROVE  Holds(PayoutBook[q], c)' = PaidOut(q, c)'
  <2>1. PICK had \in Int : had = ledger[<<PayoutBook[q], c>>]
    BY BooksOfProject, BookIsInteger
  <2>2. PICK more \in Nat : more = IF PaysFor(row, q, c) THEN row.amount ELSE 0
    BY <1>1, <1>3
  <2>3. PICK paid \in Int : paid = PaidOut(q, c) /\ PaidOut(q, c)' = paid + more
    BY <1>3, <1>4, <1>5, <2>2, PaidOutIs DEF BuilderInv
  <2>4. had = paid
    BY <2>1, <2>3 DEF BuilderInv, PayoutsInv, Holds
  <2>5. ledger'[<<PayoutBook[q], c>>] = had + more
    <3>1. CASE q = p
      <4>1. ledger'[<<book, c>>] = had + IF c = CurrencyOf[a] THEN n ELSE 0
        BY <1>8, <1>9, <2>1, <3>1 DEF Gains
      <4>2. more = IF c = CurrencyOf[a] THEN n ELSE 0
        BY <1>3, <2>2, <3>1 DEF PaysFor
      <4> QED BY <1>8, <3>1, <4>1, <4>2
    <3>2. CASE q # p
      <4>1. PayoutBook[q] \in Owners \ ({book} \cup Accounts)
        BY <1>8, <3>2, BooksOfProject, BooksApart
      <4>2. ledger'[<<PayoutBook[q], c>>] = had
        BY <1>9, <2>1, <4>1 DEF Touches
      <4>3. more = 0
        BY <1>3, <2>2, <3>2 DEF PaysFor
      <4> QED BY <4>2, <4>3
    <3> QED BY <3>1, <3>2
  <2> QED BY <2>3, <2>4, <2>5 DEF Holds
<1>12. PayoutsInv'
  BY <1>11 DEF PayoutsInv
<1>13. ASSUME NEW q \in Projects, NEW c \in Currencies
       PROVE  Holds(SeedBook[q], c)' = Holds(SeedBook[q], c)
  <2>1. SeedBook[q] \in Owners \ ({book} \cup Accounts)
    BY <1>8, BooksOfProject, BooksApart
  <2> QED BY <1>9, <2>1 DEF Touches, Holds
<1>14. SeedsInv'
  BY <1>4, <1>13 DEF BuilderInv, SeedsInv, SeedTotal
<1> QED BY <1>6, <1>7, <1>9, <1>10, <1>12, <1>14 DEF BuilderInv

LEMMA BuilderBooked ==
  ASSUME LedgerTypeOK, NobodyOverdrawn, BuilderInv, BuilderNext
  PROVE  BuilderInv' /\ Touches(ProjectBooks) /\ OwnMoney
<1>1. PICK p \in Projects :
        \/ \E blueprint \in Blueprints : CreateProject(p, blueprint) \/ PatchProject(p, blueprint)
        \/ Provision(p)
        \/ \E j \in Payments, a \in Accounts, n \in Amounts : TestPayment(j, p, a, n)
  BY DEF BuilderNext
<1>2. CASE \E blueprint \in Blueprints : CreateProject(p, blueprint) \/ PatchProject(p, blueprint)
  BY <1>2, CreateProjectBooked, PatchProjectBooked, NothingPosted
<1>3. CASE Provision(p)
  BY <1>3, ProvisionBooked
<1>4. CASE \E j \in Payments, a \in Accounts, n \in Amounts : TestPayment(j, p, a, n)
  BY <1>4, TestPaymentBooked
<1> QED BY <1>1, <1>2, <1>3, <1>4

-----------------------------------------------------------------------------
(***************************************************************************)
(* All parts together. Each owner's books belong to one part, and the part *)
(* that moves spares the others.                                           *)
(***************************************************************************)
HomeOf(x) ==
  IF x \in Vaults THEN "vaults"
  ELSE IF x \in Lines THEN "credit"
  ELSE IF x \in DOMAIN Rails THEN "rails"
  ELSE IF x \in ProjectBooks THEN "builder"
  ELSE IF x \in Outside THEN "outside"
  ELSE IF x \in CoinOwners THEN "coins"
  ELSE IF x \in CardOwners THEN "cards"
  ELSE IF x = "fx:clearing" THEN "exchange" ELSE "credit"

BelongsTo(home) == {x \in Owners \ Accounts : HomeOf(x) = home}

LEMMA HouseHomes ==
  ASSUME NEW x \in OwnBooks
  PROVE  /\ x \in Owners \ Accounts
         /\ HomeOf(x) = IF x \in Outside THEN "outside" ELSE IF x \in CoinOwners THEN "coins"
                        ELSE IF x \in CardOwners THEN "cards"
                        ELSE IF x = "fx:clearing" THEN "exchange" ELSE "credit"
<1>1. x \in House /\ x \in Owners \ Accounts
  BY HouseBooks
<1>2. x \notin Vaults /\ x \notin Lines
  BY <1>1, HouseBooks, VaultsAndLines
<1>3. x \notin DOMAIN Rails /\ x \notin ProjectBooks
  BY HouseBooks
<1> QED BY <1>1, <1>2, <1>3 DEF HomeOf

LEMMA Homes ==
  /\ Outside \subseteq BelongsTo("outside")
  /\ DOMAIN Rails \subseteq BelongsTo("rails")
  /\ CreditBooks \subseteq BelongsTo("credit")
  /\ Vaults \subseteq BelongsTo("vaults")
  /\ CoinOwners \subseteq BelongsTo("coins")
  /\ {"fx:clearing"} \subseteq BelongsTo("exchange")
  /\ CardOwners \subseteq BelongsTo("cards")
  /\ ProjectBooks \subseteq BelongsTo("builder")
<1>1. Vaults \subseteq BelongsTo("vaults")
  BY VaultIsOurs DEF BelongsTo, HomeOf
<1>2. Lines \subseteq BelongsTo("credit")
  BY LineIsOurs, VaultsAndLines DEF BelongsTo, HomeOf
<1>3. DOMAIN Rails \subseteq BelongsTo("rails")
  BY RailIsOurs, VaultsAndLines, HouseBooks DEF BelongsTo, HomeOf
<1>4. ProjectBooks \subseteq BelongsTo("builder")
  BY VaultsAndLines, HouseBooks DEF BelongsTo, HomeOf
<1>5. Outside \subseteq BelongsTo("outside")
  <2>1. Outside \subseteq OwnBooks
    BY DEF Outside, OwnBooks, Funds
  <2> QED BY <2>1, HouseHomes DEF BelongsTo
<1>6. CoinOwners \subseteq BelongsTo("coins")
  <2>1. CoinOwners \subseteq OwnBooks /\ \A x \in CoinOwners : x \notin Outside
    BY DEF Outside, OwnBooks, CoinOwners
  <2> QED BY <2>1, HouseHomes DEF BelongsTo
<1>7. CardOwners \subseteq BelongsTo("cards")
  <2>1. /\ CardOwners \subseteq OwnBooks
        /\ \A x \in CardOwners : x \notin Outside /\ x \notin CoinOwners
    BY DEF Outside, OwnBooks, CoinOwners, CardOwners
  <2> QED BY <2>1, HouseHomes DEF BelongsTo
<1>8. {"fx:clearing"} \subseteq BelongsTo("exchange")
  <2>1. PICK x : x = "fx:clearing"
    OBVIOUS
  <2>2. x \in OwnBooks /\ x \notin Outside /\ x \notin CoinOwners /\ x \notin CardOwners
    BY <2>1 DEF Outside, OwnBooks, CoinOwners, CardOwners
  <2> QED BY <2>1, <2>2, HouseHomes DEF BelongsTo
<1>9. CreditBooks \subseteq BelongsTo("credit")
  <2>1. ASSUME NEW x \in {"clearing:credit", "clearing:credit:liability"} PROVE x \in BelongsTo("credit")
    <3>1. /\ x \in OwnBooks /\ x \notin Outside /\ x \notin CoinOwners /\ x \notin CardOwners
          /\ x # "fx:clearing"
      BY DEF Outside, OwnBooks, CoinOwners, CardOwners
    <3> QED BY <3>1, HouseHomes DEF BelongsTo
  <2> QED BY <1>2, <2>1 DEF CreditBooks
<1> QED BY <1>1, <1>3, <1>4, <1>5, <1>6, <1>7, <1>8, <1>9

LEMMA OthersSpared ==
  ASSUME NEW home, NEW S, S \subseteq BelongsTo(home), Touches(S),
         NEW other, other # home, NEW T, T \subseteq BelongsTo(other)
  PROVE  Spared(T)
<1>1. T \subseteq Owners \ (S \cup Accounts)
  BY DEF BelongsTo
<1> QED BY <1>1, TouchesSpares

BooksInv ==
  /\ now \in Nat /\ LedgerTypeOK /\ NobodyOverdrawn
  /\ SandboxInv /\ RailInv /\ CreditInv /\ VaultsInv /\ CoinsInv /\ ExchangeInv
  /\ AuthorisationsInv /\ BuilderInv

(* What stays of the parts other than the one that moves.                  *)
Undisturbed(home) ==
  /\ home # "outside" /\ simulation' = simulation => SandboxInv'
  /\ home # "rails" /\ transfer' = transfer => RailInv'
  /\ home # "credit" => CreditInv'
  /\ home # "vaults" /\ vault' = vault => VaultsInv'
  /\ home # "coins" /\ OwnMoney => CoinsInv'
  /\ home # "exchange" /\ quote' = quote => ExchangeInv'
  /\ authorisation' = authorisation => AuthorisationsInv'
  /\ home # "builder" /\ project' = project /\ journey' = journey => BuilderInv'

LEMMA OthersKept ==
  ASSUME BooksInv, NEW home, NEW S, S \subseteq BelongsTo(home), Touches(S)
  PROVE  Undisturbed(home)
<1>1. ASSUME home # "outside", simulation' = simulation PROVE SandboxInv'
  <2>1. {"external:sandbox"} \subseteq BelongsTo("outside")
    BY Homes DEF Outside
  <2>2. Spared({"external:sandbox"})
    BY <1>1, <2>1, OthersSpared
  <2> QED BY <1>1, <2>2, SandboxKept DEF BooksInv
<1>2. ASSUME home # "rails", transfer' = transfer PROVE RailInv'
  <2>1. Spared(DOMAIN Rails)
    BY <1>2, Homes, OthersSpared
  <2> QED BY <1>2, <2>1, RailKept DEF BooksInv
<1>3. ASSUME home # "credit" PROVE CreditInv'
  <2>1. Spared(CreditBooks)
    BY <1>3, Homes, OthersSpared
  <2> QED BY <2>1, CreditKept DEF BooksInv
<1>4. ASSUME home # "vaults", vault' = vault PROVE VaultsInv'
  <2>1. Spared(Vaults)
    BY <1>4, Homes, OthersSpared
  <2> QED BY <1>4, <2>1, VaultsKept DEF BooksInv
<1>5. ASSUME home # "coins", OwnMoney PROVE CoinsInv'
  <2>1. Spared(CoinOwners)
    BY <1>5, Homes, OthersSpared
  <2> QED BY <1>5, <2>1, CoinsKept DEF BooksInv
<1>6. ASSUME home # "exchange", quote' = quote PROVE ExchangeInv'
  <2>1. Spared({"fx:clearing"})
    BY <1>6, Homes, OthersSpared
  <2> QED BY <1>6, <2>1, ExchangeKept DEF BooksInv
<1>7. ASSUME authorisation' = authorisation PROVE AuthorisationsInv'
  BY <1>7 DEF BooksInv, AuthorisationsInv
<1>8. ASSUME home # "builder", project' = project, journey' = journey PROVE BuilderInv'
  <2>1. Spared(ProjectBooks)
    BY <1>8, Homes, OthersSpared
  <2> QED BY <1>8, <2>1, BuilderKept DEF BooksInv
<1> QED BY <1>1, <1>2, <1>3, <1>4, <1>5, <1>6, <1>7, <1>8 DEF Undisturbed

LEMMA SavingStep ==
  ASSUME BooksInv, Saving, now' = now, UNCHANGED <<cardVars, policy, builderVars>>
  PROVE  BooksInv'
<1>1. /\ now' \in Nat /\ simulation' = simulation /\ transfer' = transfer /\ quote' = quote
      /\ authorisation' = authorisation /\ project' = project /\ journey' = journey
  BY DEF BooksInv, Saving, CreateVault, CloseVault, Deposit, Withdraw, OpenLine, AdjustCollateral,
         Draw, Repay, customerVars, productVars, cardVars, builderVars
<1>2. CASE \E v \in Vaults :
             CreateVault(v) \/ CloseVault(v) \/ (\E n \in Amounts : Deposit(v, n) \/ Withdraw(v, n))
  <2>1. VaultsInv' /\ Touches(Vaults) /\ OwnMoney
    BY <1>2, VaultsBooked DEF BooksInv
  <2>2. Undisturbed("vaults")
    BY <2>1, Homes, OthersKept
  <2> QED BY <1>1, <2>1, <2>2 DEF BooksInv, Undisturbed, Touches
<1>3. CASE \E l \in Lines :
             OpenLine(l) \/ (\E w \in Worths : AdjustCollateral(l, w))
               \/ (\E n \in Amounts : Draw(l, n) \/ Repay(l, n))
  <2>1. CreditInv' /\ Touches(CreditBooks) /\ OwnMoney
    BY <1>3, CreditBooked DEF BooksInv
  <2>2. Undisturbed("credit")
    BY <2>1, Homes, OthersKept
  <2>3. vault' = vault
    BY <1>3 DEF OpenLine, AdjustCollateral, Draw, Repay, productVars
  <2> QED BY <1>1, <2>1, <2>2, <2>3 DEF BooksInv, Undisturbed, Touches
<1> QED BY <1>2, <1>3 DEF Saving

LEMMA ExchangingStep ==
  ASSUME BooksInv, Exchanging, now' = now, UNCHANGED <<cardVars, policy, builderVars>>
  PROVE  BooksInv'
<1>1. /\ now' \in Nat /\ simulation' = simulation /\ transfer' = transfer /\ vault' = vault
      /\ authorisation' = authorisation /\ project' = project /\ journey' = journey
  BY DEF BooksInv, Exchanging, CreateQuote, ExecuteQuote, OnRamp, OffRamp,
         customerVars, productVars, cardVars, builderVars
<1>2. ASSUME NEW q \in Quotes,
             \/ \E c \in Currencies, d \in Currencies, n \in Amounts :
                  CreateQuote(q, c, d, n)
             \/ \E a \in Accounts, b \in Accounts : ExecuteQuote(q, a, b)
      PROVE  BooksInv'
  <2>1. ExchangeInv' /\ Touches({"fx:clearing"}) /\ OwnMoney
    BY <1>2, ExchangeBooked DEF BooksInv
  <2>2. Undisturbed("exchange")
    BY <2>1, Homes, OthersKept
  <2> QED BY <1>1, <2>1, <2>2 DEF BooksInv, Undisturbed, Touches
<1>3. ASSUME NEW a \in Accounts, NEW coin \in DOMAIN Coins, NEW n \in Amounts,
             OnRamp(a, coin, n) \/ OffRamp(a, coin, n)
      PROVE  BooksInv'
  <2>1. CoinsInv' /\ Touches(CoinOwners)
    BY <1>3, CoinsBooked DEF BooksInv
  <2>2. Undisturbed("coins")
    BY <2>1, Homes, OthersKept
  <2>3. quote' = quote
    BY <1>3 DEF OnRamp, OffRamp, productVars
  <2> QED BY <1>1, <2>1, <2>2, <2>3 DEF BooksInv, Undisturbed, Touches
<1> QED BY <1>2, <1>3 DEF Exchanging

LEMMA BooksStep == ASSUME BooksInv, [BooksNext]_booksVars PROVE BooksInv'
<1>1. ASSUME now' \in Nat,
             UNCHANGED <<ledger, customerVars, productVars, cardVars, builderVars>>
      PROVE  BooksInv'
  <2>1. /\ ledger' = ledger /\ simulation' = simulation /\ transfer' = transfer /\ vault' = vault
        /\ quote' = quote /\ authorisation' = authorisation /\ project' = project /\ journey' = journey
    BY <1>1 DEF customerVars, productVars, cardVars, builderVars
  <2>2. Touches({}) /\ OwnMoney
    BY <2>1, NothingPosted DEF BooksInv
  <2>3. Undisturbed("nobody")
    BY <2>2, OthersKept
  <2> QED BY <1>1, <2>1, <2>2, <2>3 DEF BooksInv, Undisturbed, Touches
<1>2. CASE Tick /\ UNCHANGED <<ledger, customerVars, productVars, cardVars, policy, builderVars>>
  BY <1>1, <1>2 DEF Tick, BooksInv
<1>3. CASE UNCHANGED booksVars
  BY <1>1, <1>3 DEF booksVars, BooksInv
<1>4. CASE /\ now' = now
           /\ Onboarding({}) \/ Banking(Accounts) \/ Simulating
           /\ UNCHANGED <<productVars, cardVars, policy, builderVars>>
  <2>1. SandboxInv' /\ Touches(Outside) /\ OwnMoney
    BY <1>4, CustomersBooked DEF BooksInv
  <2>2. Undisturbed("outside")
    BY <2>1, Homes, OthersKept
  <2>3. /\ now' \in Nat /\ transfer' = transfer /\ vault' = vault
        /\ quote' = quote /\ authorisation' = authorisation /\ project' = project /\ journey' = journey
    BY <1>4 DEF BooksInv, productVars, cardVars, builderVars
  <2> QED BY <2>1, <2>2, <2>3 DEF BooksInv, Undisturbed, Touches
<1>5. CASE now' = now /\ Rail /\ UNCHANGED <<cardVars, policy, builderVars>>
  <2>1. RailInv' /\ Touches(DOMAIN Rails) /\ OwnMoney
    BY <1>5, RailBooked DEF BooksInv
  <2>2. Undisturbed("rails")
    BY <2>1, Homes, OthersKept
  <2>3. /\ now' \in Nat /\ simulation' = simulation /\ vault' = vault
        /\ quote' = quote /\ authorisation' = authorisation /\ project' = project /\ journey' = journey
    BY <1>5 DEF BooksInv, Rail, CreateTransfer, Settle, CancelTransfer, customerVars, cardVars, builderVars
  <2> QED BY <2>1, <2>2, <2>3 DEF BooksInv, Undisturbed, Touches
<1>6. CASE now' = now /\ Saving /\ UNCHANGED <<cardVars, policy, builderVars>>
  BY <1>6, SavingStep
<1>7. CASE now' = now /\ Exchanging /\ UNCHANGED <<cardVars, policy, builderVars>>
  BY <1>7, ExchangingStep
<1>8. CASE now' = now /\ CardNext /\ UNCHANGED <<productVars, builderVars>>
  <2>1. AuthorisationsInv' /\ Touches(CardOwners) /\ OwnMoney
    BY <1>8, CardsBooked DEF BooksInv
  <2>2. Undisturbed("cards")
    BY <2>1, Homes, OthersKept
  <2>3. /\ now' \in Nat /\ transfer' = transfer /\ vault' = vault
        /\ quote' = quote /\ project' = project /\ journey' = journey
    BY <1>8 DEF BooksInv, productVars, builderVars
  <2>4. simulation' = simulation
    BY <1>8 DEF CardNext, Freeze, Unfreeze, CreateCard, SetControls, Authorise, ApproveAuthorisation,
                DeclineAuthorisation, CreateDispute, SubmitEvidence, customerVars, cardVars
  <2> QED BY <2>1, <2>2, <2>3, <2>4 DEF BooksInv, Undisturbed, Touches
<1>9. CASE now' = now /\ BuilderNext /\ UNCHANGED <<productVars, cardVars, policy>>
  <2>1. BuilderInv' /\ Touches(ProjectBooks) /\ OwnMoney
    BY <1>9, BuilderBooked DEF BooksInv
  <2>2. Undisturbed("builder")
    BY <2>1, Homes, OthersKept
  <2>3. /\ now' \in Nat /\ transfer' = transfer /\ vault' = vault
        /\ quote' = quote /\ authorisation' = authorisation
    BY <1>9 DEF BooksInv, productVars, cardVars
  <2>4. simulation' = simulation
    BY <1>9 DEF BuilderNext, CreateProject, PatchProject, Provision, TestPayment, customerVars
  <2> QED BY <2>1, <2>2, <2>3, <2>4 DEF BooksInv, Undisturbed, Touches
<1> QED BY <1>2, <1>3, <1>4, <1>5, <1>6, <1>7, <1>8, <1>9 DEF BooksNext

LEMMA EmptyLedger ==
  ASSUME LedgerInit, NEW x \in Owners, NEW c \in Currencies
  PROVE  ledger[<<x, c>>] = 0
<1>1. <<x, c>> \in Books
  BY DEF Books, Owners
<1> QED BY <1>1 DEF LedgerInit

LEMMA NothingOwed == ASSUME NEW n \in Int, n = 0 PROVE -n = 0
<1>1. PICK m \in Int : m = -n
  OBVIOUS
<1>2. n + m = 0
  BY <1>1
<1>3. m = 0
  BY <1>2
<1> QED BY <1>1, <1>3

LEMMA NothingSummed ==
  ASSUME NEW f, NEW S, IsFiniteSet(S), NEW P \in SUBSET S, \A x \in S : f[x] = 0
  PROVE  SumFunctionOnSet(f, P) = 0 /\ 0 = -SumFunctionOnSet(f, P)
<1>1. IsFiniteSet(P)
  BY FS_Subset
<1>2. PICK sum \in Int : sum = 0 /\ sum = SumFunctionOnSet(f, P)
  <2>1. SumFunctionOnSet(f, P) = 0
    BY <1>1, SumZero
  <2> QED BY <2>1
<1>3. 0 = -sum
  BY <1>2, NothingOwed
<1> QED BY <1>2, <1>3

LEMMA SandboxStarts == ASSUME BooksInit PROVE SandboxInv
<1>1. SimulationsInv
  <2>1. simulation = [s \in Simulations |-> [of |-> NoOne, status |-> "none", amount |-> 0]]
    BY DEF BooksInit, CustomerInit
  <2>2. [of |-> NoOne, status |-> "none", amount |-> 0] \in SimulationRows
    BY DEF SimulationRows
  <2> QED BY <2>1, <2>2 DEF SimulationsInv
<1>2. ASSUME NEW c \in Currencies PROVE -Holds("external:sandbox", c) = PaidBySimulation(c)
  <2>1. PICK f : f = [s \in Simulations |-> simulation[s].amount]
    OBVIOUS
  <2>2. \A s \in Simulations : f[s] = 0
    BY <2>1 DEF BooksInit, CustomerInit
  <2>3. PICK P \in SUBSET Simulations : P = SettledIn(c)
    BY DEF SettledIn
  <2>4. SumFunctionOnSet(f, P) = 0
    BY <2>2, FiniteBooks, NothingSummed
  <2>5. PICK had \in Int : had = 0 /\ had = ledger[<<"external:sandbox", c>>]
    BY SandboxIsOurs, EmptyLedger DEF BooksInit
  <2>6. -had = 0
    BY <2>5, NothingOwed
  <2> QED BY <2>1, <2>3, <2>4, <2>5, <2>6 DEF PaidBySimulation, Holds
<1> QED BY <1>1, <1>2 DEF SandboxInv, SandboxExplained

LEMMA RailStarts == ASSUME BooksInit PROVE RailInv
<1>1. transfer = [t \in Transfers |-> [status |-> "none", account |-> NoOne, rail |-> NoOne, amount |-> 0]]
  BY DEF BooksInit, ProductInit
<1>2. [status |-> "none", account |-> NoOne, rail |-> NoOne, amount |-> 0] \in TransferRows
  BY DEF TransferRows
<1>3. TransfersInv
  BY <1>1, <1>2 DEF TransfersInv
<1>4. ASSUME NEW r \in DOMAIN Rails PROVE RailExplained(r)
  <2>1. PICK f : f = [t \in Transfers |-> transfer[t].amount]
    OBVIOUS
  <2>2. \A t \in Transfers : f[t] = 0
    BY <1>1, <2>1
  <2>3. PICK P \in SUBSET Transfers : P = Sent(r)
    BY DEF Sent
  <2>4. SumFunctionOnSet(f, P) = 0
    BY <2>2, FiniteBooks, NothingSummed
  <2>5. ledger[<<r, Rails[r].currency>>] = 0
    BY RailIsOurs, EmptyLedger DEF BooksInit
  <2> QED BY <2>1, <2>3, <2>4, <2>5 DEF RailExplained, Holds
<1> QED BY <1>3, <1>4 DEF RailInv

LEMMA CreditStarts == ASSUME BooksInit PROVE CreditInv
<1>1. \A l \in Lines : Drawn(l) = 0
  BY LineIsOurs, EmptyLedger DEF BooksInit, Drawn, Holds
<1>2. ASSUME NEW c \in Currencies PROVE CreditExplained(c)
  <2>1. PICK f : f = [l \in Lines |-> Drawn(l)]
    OBVIOUS
  <2>2. \A l \in Lines : f[l] = 0
    BY <1>1, <2>1
  <2>3. PICK P \in SUBSET Lines : P = LinesIn(c)
    BY DEF LinesIn
  <2>4. 0 = -SumFunctionOnSet(f, P)
    BY <2>2, FiniteBooks, NothingSummed
  <2>5. ledger[<<"clearing:credit", c>>] = 0 /\ ledger[<<"clearing:credit:liability", c>>] = 0
    BY ClearingIsOurs, EmptyLedger DEF BooksInit
  <2>6. DrawnIn(c) = SumFunctionOnSet(f, P)
    BY <2>1, <2>3 DEF DrawnIn
  <2>7. /\ Holds("clearing:credit", c) = -DrawnIn(c)
        /\ Holds("clearing:credit:liability", c) = -DrawnIn(c)
    BY <2>4, <2>5, <2>6 DEF Holds
  <2>8. \A l \in LinesIn(c) : Drawn(l) >= 0
    <3>1. ASSUME NEW l \in LinesIn(c) PROVE Drawn(l) >= 0
      <4>1. Drawn(l) = 0
        BY <1>1 DEF LinesIn
      <4> QED BY <4>1
    <3> QED BY <3>1
  <2> QED BY <2>7, <2>8 DEF CreditExplained
<1> QED BY <1>2 DEF CreditInv

LEMMA CoinsStart == ASSUME BooksInit PROVE CoinsInv
<1>1. ASSUME NEW coin \in DOMAIN Coins PROVE Holds("issuance:coin", coin) = -CoinHeld(coin)
  <2>1. PICK f : f = [a \in Accounts |-> Holds(a, coin)]
    OBVIOUS
  <2>2. \A a \in Accounts : f[a] = 0
    BY <2>1, AccountsAreHeld, CoinsAssumed, EmptyLedger DEF BooksInit, Holds
  <2>3. PICK P \in SUBSET Accounts : P = CoinHolders(coin)
    BY DEF CoinHolders
  <2>4. 0 = -SumFunctionOnSet(f, P)
    BY <2>2, FiniteBooks, NothingSummed
  <2>5. ledger[<<"issuance:coin", coin>>] = 0
    <3>1. "issuance:coin" \in Owners /\ coin \in Currencies
      BY CoinBooks, CoinsAssumed DEF CoinOwners
    <3> QED BY <3>1, EmptyLedger DEF BooksInit
  <2> QED BY <2>1, <2>3, <2>4, <2>5 DEF CoinHeld, Holds
<1>2. ASSUME NEW c \in Currencies PROVE ReserveExplained(c)
  <2>1. PICK f : f = [coin \in DOMAIN Coins |-> Holds("issuance:coin", coin)]
    OBVIOUS
  <2>2. \A coin \in DOMAIN Coins : f[coin] = 0
    <3>1. ASSUME NEW coin \in DOMAIN Coins PROVE f[coin] = 0
      <4>1. "issuance:coin" \in Owners /\ coin \in Currencies
        BY CoinBooks, CoinsAssumed DEF CoinOwners
      <4> QED BY <2>1, <4>1, EmptyLedger DEF BooksInit, Holds
    <3> QED BY <3>1
  <2>3. PICK P \in SUBSET DOMAIN Coins : P = RedeemedIn(c)
    BY DEF RedeemedIn
  <2>4. IsFiniteSet(DOMAIN Coins)
    BY CoinsAssumed, FiniteBooks, FS_Subset
  <2>5. 0 = -SumFunctionOnSet(f, P)
    BY <2>2, <2>4, NothingSummed
  <2>6. ledger[<<"reserve:issuer", c>>] = 0
    <3>1. "reserve:issuer" \in Owners
      BY CoinBooks DEF CoinOwners
    <3> QED BY <3>1, EmptyLedger DEF BooksInit
  <2> QED BY <2>1, <2>3, <2>5, <2>6 DEF ReserveExplained, Holds
<1> QED BY <1>1, <1>2 DEF CoinsInv

LEMMA ExchangeStarts == ASSUME BooksInit PROVE ExchangeInv
<1>1. QuotesInv
  BY DEF BooksInit, ProductInit, QuotesInv
<1>2. PICK f : f = [c \in Currencies |-> Holds("fx:clearing", c) * Mid[c]]
  OBVIOUS
<1>3. ASSUME NEW c \in Currencies PROVE f[c] = 0
  <2>1. ledger[<<"fx:clearing", c>>] = 0
    BY ExchangeIsOurs, EmptyLedger DEF BooksInit
  <2>2. PICK mid \in Nat : mid = Mid[c]
    BY RatesAssumed
  <2>3. f[c] = 0 * mid
    BY <1>2, <2>1, <2>2 DEF Holds
  <2> QED BY <2>3
<1>4. SumFunctionOnSet(f, Currencies) = 0
  BY <1>3, FiniteBooks, SumZero
<1>5. SumFunctionOnSet(f, Currencies) >= 0
  BY <1>4
<1> QED BY <1>1, <1>2, <1>5 DEF ExchangeInv, ExchangeCovered

LEMMA BuilderStarts == ASSUME BooksInit PROVE BuilderInv
<1>1. project = [p \in Projects |-> NoProject] /\ journey = [j \in Payments |-> NoJourney]
  BY DEF BooksInit, BuilderInit
<1>2. ProjectsInv
  <2>1. NoProject \in ProjectRows /\ GoodProject(NoProject)
    <3>1. <<>> \in Seq(Currencies)
      OBVIOUS
    <3> QED BY <3>1 DEF NoProject, ProjectRows, GoodProject
  <2> QED BY <1>1, <2>1 DEF ProjectsInv
<1>3. JourneysInv
  <2>1. NoJourney \in JourneyRows /\ NoJourney.of = NoOne
    BY DEF NoJourney, JourneyRows
  <2>2. NoOne \notin Projects
    BY ProjectsAssumption
  <2> QED BY <1>1, <2>1, <2>2 DEF JourneysInv
<1>4. ASSUME NEW p \in Projects, NEW c \in Currencies
      PROVE  Holds(PayoutBook[p], c) = PaidOut(p, c)
  <2>1. PICK f : f = [j \in Payments |-> journey[j].amount]
    OBVIOUS
  <2>2. \A j \in Payments : f[j] = 0
    BY <1>1, <2>1 DEF NoJourney
  <2>3. PICK P \in SUBSET Payments :
          P = {j \in Payments : journey[j].of = p /\ CurrencyOf[journey[j].from] = c}
    OBVIOUS
  <2>4. SumFunctionOnSet(f, P) = 0
    BY <2>2, FiniteBooks, NothingSummed
  <2>5. ledger[<<PayoutBook[p], c>>] = 0
    BY BooksOfProject, EmptyLedger DEF BooksInit
  <2> QED BY <2>1, <2>3, <2>4, <2>5 DEF PaidOut, Holds
<1>5. ASSUME NEW p \in Projects, NEW c \in Currencies
      PROVE  -Holds(SeedBook[p], c) = SeedTotal(project[p].accounts, c)
  <2>1. PICK had \in Int : had = 0 /\ had = ledger[<<SeedBook[p], c>>]
    BY BooksOfProject, EmptyLedger DEF BooksInit
  <2>2. -had = 0
    BY <2>1, NothingOwed
  <2>3. SeedTotal(project[p].accounts, c) = 0
    BY <1>1, NothingSeeded DEF NoProject
  <2> QED BY <2>1, <2>2, <2>3 DEF Holds
<1> QED BY <1>2, <1>3, <1>4, <1>5 DEF BuilderInv, PayoutsInv, SeedsInv

LEMMA BooksStart == ASSUME BooksInit PROVE BooksInv
<1>1. now \in Nat
  BY DEF BooksInit
<1>2. LedgerTypeOK /\ NobodyOverdrawn
  BY DEF BooksInit, LedgerInit, LedgerTypeOK, NobodyOverdrawn
<1>3. VaultsInv
  BY DEF BooksInit, ProductInit, VaultsInv
<1>4. AuthorisationsInv
  <2>1. authorisation = [u \in Authorisations |-> [status |-> "none", card |-> NoOne, amount |-> 0, at |-> 0]]
    BY DEF BooksInit, CardInit
  <2>2. [status |-> "none", card |-> NoOne, amount |-> 0, at |-> 0] \in AuthorisationRows
    BY DEF AuthorisationRows
  <2> QED BY <2>1, <2>2 DEF AuthorisationsInv
<1> QED BY <1>1, <1>2, <1>3, <1>4, SandboxStarts, RailStarts, CreditStarts, CoinsStart,
           ExchangeStarts, BuilderStarts DEF BooksInv

(* No book of a customer is ever overdrawn, and every part of the bank's   *)
(* own books follows from the records, whatever customers, accounts,       *)
(* rails, coins and projects there are (kernel.js, server.js, products.js, *)
(* fx.js, platform.js, builder.js).                                        *)
THEOREM BooksInvariant == BooksSpec => []BooksInv
<1>1. BooksInit => BooksInv
  BY BooksStart
<1>2. BooksInv /\ [BooksNext]_booksVars => BooksInv'
  BY BooksStep
<1> QED BY <1>1, <1>2, PTL DEF BooksSpec

LEMMA BooksAddUp == ASSUME BooksInv PROVE BooksExplained
<1>1. ProductBooksExplained
  <2>1. \A coin \in DOMAIN Coins : Holds("issuance:coin", coin) <= 0
    BY IssuedIsOwed DEF BooksInv
  <2>2. /\ \A r \in DOMAIN Rails : RailExplained(r)
        /\ \A c \in Currencies : CreditExplained(c)
        /\ ExchangeCovered
    BY DEF BooksInv, RailInv, CreditInv, ExchangeInv
  <2>3. \A v \in Vaults : vault[v] = "closed" => Holds(v, InCurrencyOf(v)) = 0
    BY DEF BooksInv, VaultsInv
  <2>4. \A c \in Currencies : ReserveExplained(c)
    BY DEF BooksInv, CoinsInv
  <2>5. \A c \in Currencies : -Holds("external:sandbox", c) = PaidBySimulation(c)
    BY DEF BooksInv, SandboxInv, SandboxExplained
  <2> QED BY <2>1, <2>2, <2>3, <2>4, <2>5 DEF ProductBooksExplained
<1>2. ASSUME NEW p \in Projects
      PROVE  /\ \A c \in Currencies :
                  /\ Holds(PayoutBook[p], c) = PaidOut(p, c)
                  /\ -Holds(SeedBook[p], c) = SeedTotal(project[p].accounts, c)
             /\ project[p].status = "ready" =>
                  {CurrencyOf[a] : a \in project[p].accounts} = Opening(p)
             /\ \A j \in Payments : journey[j].of = p => journey[j].from \in project[p].accounts
  <2>1. \A c \in Currencies :
          /\ Holds(PayoutBook[p], c) = PaidOut(p, c)
          /\ -Holds(SeedBook[p], c) = SeedTotal(project[p].accounts, c)
    BY DEF BooksInv, BuilderInv, PayoutsInv, SeedsInv
  <2>2. project[p].status = "ready" => {CurrencyOf[a] : a \in project[p].accounts} = AskedFor(project[p].currencies)
    BY DEF BooksInv, BuilderInv, ProjectsInv, GoodProject
  <2>3. AskedFor(project[p].currencies) = Opening(p)
    BY DEF AskedFor, Opening
  <2>4. \A j \in Payments : journey[j].of = p => journey[j].from \in project[p].accounts
    BY DEF BooksInv, BuilderInv, JourneysInv
  <2> QED BY <2>1, <2>2, <2>3, <2>4
<1> QED BY <1>1, <1>2 DEF BooksExplained, ProjectsExplained

(* Every book of the bank accounts for what the products and the builder   *)
(* did, in whatever order they did it.                                     *)
THEOREM BooksAlwaysExplained == BooksSpec => []BooksExplained
BY BooksInvariant, BooksAddUp, PTL
=============================================================================
