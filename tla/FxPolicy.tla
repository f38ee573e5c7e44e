------------------------------ MODULE FxPolicy ------------------------------
(***************************************************************************)
(* FxPolicyEngine (packages/fx-policy/src/policy-engine.js) and the two    *)
(* verifiers built on it (market-verifier.js, settlement-verifier.js).     *)
(*                                                                         *)
(* Every call is one synchronous transaction, so each is one action. A     *)
(* policy is a record of what it allows. An authorization is a row that is *)
(* never deleted; its identifier is its place in the sequence. Provider    *)
(* references, risk tiers and the text of the reasons are left out; a      *)
(* corridor stands for a pair of assets that is allowed as a pair.         *)
(***************************************************************************)
EXTENDS NodeClock, Integers, SequencesExt, FiniteSets

CONSTANTS
  Participants, CredentialTypes, Accounts, Corridors, Actions,
  Facts,          \* what upsertParticipant may be told: [type, status, jurisdiction]
  Policies,       \* what configurePolicy may be given
  Reports,        \* statuses a credential is reported with
  Lifetimes,      \* lifetimes of a credential
  Amounts,        \* amounts an authorization may be for
  Requests,       \* what authorize is asked for
  MaxEpoch, MaxAsked   \* bounds of the exploration

Statuses == {"ACTIVE", "SUSPENDED", "CLOSED"}
CredentialStatuses == {"PASSED", "FAILED", "PENDING", "EXPIRED"}

None == "none"

(* Two policies of one id and version are the same policy: an operator who *)
(* changes the rules changes the version.                                  *)
ASSUME PolicyAssumption ==
  /\ MaxEpoch \in [Participants -> Nat] /\ MaxAsked \in Nat
  /\ IsFiniteSet(CredentialTypes) /\ None \notin Participants
  /\ Reports \subseteq CredentialStatuses
  /\ Lifetimes \subseteq Nat \ {0} /\ Amounts \subseteq Nat \ {0}
  /\ Facts # {} /\ \A f \in Facts : f.status \in Statuses
  /\ \A p \in Policies : p.ttl \in Nat \ {0}
  /\ \A p, r \in Policies : p.id = r.id /\ p.version = r.version => p = r
  /\ \A p \in Policies, f \in Facts :
       p.required[f.type] \subseteq CredentialTypes /\ p.ticket[f.type] \in Nat

VARIABLES
  policy,          \* fx_policy, the only row
  participants,    \* fx_participants: [facts, epoch]; epoch 0 without a row
  credentials,     \* fx_credentials: [status, issuedAt, expiresAt]
  accounts,        \* fx_accounts: the participant of an account, or None
  authorizations   \* fx_authorizations

policyVars == <<policy, participants, credentials, accounts, authorizations>>

NoCredential == [status |-> None, issuedAt |-> 0, expiresAt |-> 0]
Credential == [status : CredentialStatuses \cup {None}, issuedAt : Nat, expiresAt : Nat]
Request == [participant : Participants, action : Actions, corridor : Corridors,
            amount : Amounts, account : Accounts \cup {None}]
Authorization == [request : Request, epoch : Nat, policyId : {p.id : p \in Policies},
                  version : {p.version : p \in Policies}, expiresAt : Nat,
                  revoked : BOOLEAN]

ASSUME RequestsAssumption == Requests \subseteq Request

PolicyTypeOK ==
  /\ policy \in Policies
  /\ participants \in [Participants -> [facts : Facts, epoch : Nat]]
  /\ credentials \in [Participants -> [CredentialTypes -> Credential]]
  /\ accounts \in [Accounts -> Participants \cup {None}]
  /\ authorizations \in Seq(Authorization)

PolicyInit ==
  /\ policy \in Policies
  /\ participants = [p \in Participants |-> [facts |-> CHOOSE f \in Facts : TRUE, epoch |-> 0]]
  /\ credentials = [p \in Participants |-> [t \in CredentialTypes |-> NoCredential]]
  /\ accounts = [a \in Accounts |-> None]
  /\ authorizations = <<>>

-----------------------------------------------------------------------------
(* Facts about participants. Any change of one bumps the epoch.            *)

Known(p) == participants[p].epoch > 0
Bumped(p) == [participants EXCEPT ![p] = [facts |-> @.facts, epoch |-> @.epoch + 1]]
EpochLeft(p) == participants[p].epoch < MaxEpoch[p]   \* bound

ConfigurePolicy(new) ==
  /\ policy' = new
  /\ UNCHANGED <<participants, credentials, accounts, authorizations>>

StatusIsNoFact(p, facts) ==              \* mutant: a suspension keeps the epoch
  ~Known(p) \/ participants[p].facts.jurisdiction # facts.jurisdiction
FactsChanged(p, facts) == ~Known(p) \/ participants[p].facts # facts

UpsertParticipant(p, facts) ==
  /\ EpochLeft(p)
  /\ participants' = [participants EXCEPT ![p] =
       [facts |-> facts, epoch |-> @.epoch + IF FactsChanged(p, facts) THEN 1 ELSE 0]]
  /\ UNCHANGED <<policy, credentials, accounts, authorizations>>

CredentialChanged(p, t, c) == credentials[p][t] # c

UpsertCredential(p, t, c) ==
  /\ Known(p) /\ EpochLeft(p)
  /\ credentials' = [credentials EXCEPT ![p] = [@ EXCEPT ![t] = c]]
  /\ participants' = IF CredentialChanged(p, t, c) THEN Bumped(p) ELSE participants
  /\ UNCHANGED <<policy, accounts, authorizations>>

(* An account stays with the participant it was first attributed to. *)
MapAccount(p, a) ==
  /\ Known(p) /\ EpochLeft(p)
  /\ accounts[a] \in {p, None}
  /\ accounts' = [accounts EXCEPT ![a] = p]
  /\ participants' = IF accounts[a] = None THEN Bumped(p) ELSE participants
  /\ UNCHANGED <<policy, credentials, authorizations>>

-----------------------------------------------------------------------------
(* authorize *)

Passed(c) == c.status = "PASSED" /\ c.expiresAt > now

RequiredOf(p) == policy.required[participants[p].facts.type]

Eligible(r) ==
  LET facts == participants[r.participant].facts IN
  /\ Known(r.participant)
  /\ facts.status = "ACTIVE"
  /\ facts.type \in policy.types
  /\ facts.jurisdiction \notin policy.blocked
  /\ r.corridor \in policy.corridors
  /\ r.amount <= policy.ticket[facts.type]
  /\ \A t \in RequiredOf(r.participant) : Passed(credentials[r.participant][t])
  /\ r.account # None => accounts[r.account] = r.participant

TtlOnly(p) == now + policy.ttl           \* mutant: credentials do not shorten it
(* The earliest of the time to live and the expiry of a credential used. *)
ExpiryOf(p) ==
  LET ends == {now + policy.ttl} \cup {credentials[p][t].expiresAt : t \in RequiredOf(p)}
  IN  CHOOSE e \in ends : \A x \in ends : e <= x

Issued(r) == [request |-> r, epoch |-> participants[r.participant].epoch,
              policyId |-> policy.id, version |-> policy.version,
              expiresAt |-> ExpiryOf(r.participant), revoked |-> FALSE]

Authorize(r) ==
  /\ Eligible(r)
  /\ Len(authorizations) < MaxAsked      \* bound
  /\ authorizations' = Append(authorizations, Issued(r))
  /\ UNCHANGED <<policy, participants, credentials, accounts>>

RevokeAuthorization(i) ==
  /\ authorizations' = [authorizations EXCEPT ![i].revoked = TRUE]
  /\ UNCHANGED <<policy, participants, credentials, accounts>>

-----------------------------------------------------------------------------
(* verifyAuthorization and the verifiers. A caller keeps the identifier of *)
(* an authorization for as long as it likes and asks at each use.          *)

SamePolicy(a) == a.policyId = policy.id /\ a.version = policy.version

UpToPolicy(a) ==
  LET p == participants[a.request.participant] IN
  /\ ~a.revoked
  /\ a.expiresAt > now
  /\ p.facts.status = "ACTIVE"
  /\ p.epoch = a.epoch

VerifyAuthorization(i) ==
  i \in DOMAIN authorizations /\ UpToPolicy(authorizations[i]) /\ SamePolicy(authorizations[i])

(* createMarketAuthorizationVerifier and createSettlementAuthorization-    *)
(* Verifier: the row must also cover what it is used for.                  *)
MarketVerifies(i, corridor, amount, account) ==
  /\ VerifyAuthorization(i)
  /\ LET r == authorizations[i].request IN
     r.action = "PROVIDE_LIQUIDITY" /\ r.corridor = corridor /\ amount <= r.amount
       /\ r.account = account

SettlementVerifies(i, corridor, amount, provider) ==
  /\ VerifyAuthorization(i)
  /\ LET r == authorizations[i].request IN
     r.action = "SETTLE_FIAT_EDGE" /\ r.corridor = corridor /\ amount <= r.amount
       /\ r.participant = provider

-----------------------------------------------------------------------------
NewCredential == [status : Reports, issuedAt : {now},
                  expiresAt : {now + l : l \in Lifetimes}]

PolicyNext ==
  \/ \E new \in Policies : ConfigurePolicy(new)
  \/ \E p \in Participants, facts \in Facts : UpsertParticipant(p, facts)
  \/ \E p \in Participants, t \in CredentialTypes, c \in NewCredential :
       UpsertCredential(p, t, c)
  \/ \E p \in Participants, a \in Accounts : MapAccount(p, a)
  \/ \E r \in Requests : Authorize(r)
  \/ \E i \in DOMAIN authorizations : RevokeAuthorization(i)

-----------------------------------------------------------------------------
(* An authorization that verifies is still deserved: authorize would grant *)
(* the same request again now. verifyAuthorization itself looks neither at *)
(* credentials, jurisdiction, ticket nor attribution; it leans on the      *)
(* epoch, on the policy's version and on the expiry that authorize chose.  *)
ValidIsDeserved ==
  \A i \in DOMAIN authorizations :
    VerifyAuthorization(i) => Eligible(authorizations[i].request)

(* What a participant's change or the clock took away stays away: facts    *)
(* that are changed back do not bring an old authorization back to life.   *)
(* (An operator who goes back to an earlier version of the policy is       *)
(* another matter: its authorizations verify again.)                       *)
NeverRevived ==
  [][\A i \in DOMAIN authorizations :
       UpToPolicy(authorizations[i])' => UpToPolicy(authorizations[i])]_policyVars

-----------------------------------------------------------------------------
(***************************************************************************)
(* What the FX node offers under the policy: the reference sources and the *)
(* settlement edges that apps/fx-node/src/reference-runtime.js seeds when  *)
(* it starts, the scenarios of public-reference-runtime.js, and the        *)
(* settlement graph (packages/fx-fiat/src/settlement-graph.js).            *)
(*                                                                         *)
(* The policy database outlives the process; the graph does not and is     *)
(* seeded again, so a crash is a Startup. Startup runs through without     *)
(* giving way, and every part of it may be run again. Prices, capacities   *)
(* in use and the market's seed orders are left out: FxQuotes and FxMarket *)
(* have them.                                                              *)
(***************************************************************************)
CONSTANTS
  Offers,          \* the seeds in their order: [name, request, from, to, group]
  ReferencePolicy, \* configureReferencePolicy
  ReferenceFacts,  \* the facts of each participant in it
  Margin, Term,    \* a credential is renewed Margin before its end, for Term
  MaxIssued        \* bound of the exploration

Source(o) == o.request.action = "PROVIDE_LIQUIDITY"
Seeds == {Offers[k] : k \in DOMAIN Offers}
Edges == {o \in Seeds : ~Source(o)}

(* The reference policy admits whom the seeds name.                        *)
Configured(o) ==
  LET facts == ReferenceFacts[o.request.participant] IN
  /\ o.request.account # None
  /\ facts.status = "ACTIVE"
  /\ facts.type \in ReferencePolicy.types
  /\ facts.jurisdiction \notin ReferencePolicy.blocked
  /\ o.request.corridor \in ReferencePolicy.corridors
  /\ o.request.amount <= ReferencePolicy.ticket[facts.type]

ASSUME NodeAssumption ==
  /\ ReferencePolicy \in Policies
  /\ ReferenceFacts \in [Participants -> Facts]
  /\ Offers \in Seq(Seeds)
  /\ \A o \in Seeds : o.request \in Request /\ Configured(o)
  /\ \A o, x \in Seeds :
       o.request.account = x.request.account => o.request.participant = x.request.participant
  /\ Margin \in Nat /\ Term \in Nat /\ Term > Margin /\ MaxIssued \in Nat

VARIABLE offers    \* what is offered for a seed: [id, available]; id 0 before it is

nodeVars == <<policyVars, offers>>

NodeTypeOK ==
  /\ PolicyTypeOK
  /\ offers \in [Seeds -> [id : 0..Len(authorizations), available : BOOLEAN]]

NodeInit ==
  /\ PolicyInit
  /\ offers = [o \in Seeds |-> [id |-> 0, available |-> FALSE]]

-----------------------------------------------------------------------------
(* Startup: configureReferencePolicy and the seeds of both runtimes *)

Fresh(c) == c.status = "PASSED" /\ c.expiresAt > now + Margin
Renewed == [status |-> "PASSED", issuedAt |-> now, expiresAt |-> now + Term]

SeedAccounts(p) == {o.request.account : o \in {x \in Seeds : x.request.participant = p}}

(* The epoch counts every fact that the start changed. *)
StartedParticipant(p) ==
  [facts |-> ReferenceFacts[p],
   epoch |-> participants[p].epoch
     + (IF FactsChanged(p, ReferenceFacts[p]) THEN 1 ELSE 0)
     + Cardinality({t \in ReferencePolicy.required[ReferenceFacts[p].type] :
                      ~Fresh(credentials[p][t])})
     + Cardinality({a \in SeedAccounts(p) : accounts[a] = None})]

(* ensureAuthorization: the last one for the same request that verifies,   *)
(* else a new one. The state asked is the one the start leads to.          *)
Reusable(r) ==
  {i \in DOMAIN authorizations :
     /\ authorizations[i].request = r
     /\ \E a \in {authorizations[i]} : (UpToPolicy(a) /\ SamePolicy(a))'}

(* The places of Offers in S, in their order. *)
AsListed(S) ==
  {s \in [1..Cardinality(S) -> S] : \A j, k \in DOMAIN s : j < k => s[j] < s[k]}

(* Identifiers of the authorizations the seeds get when those of `fresh`   *)
(* are issued in order.                                                    *)
IdOf(o, fresh) ==
  IF Reusable(o.request) # {} THEN CHOOSE i \in Reusable(o.request) :
                                     \A x \in Reusable(o.request) : x <= i
  ELSE Len(authorizations) + CHOOSE k \in DOMAIN fresh : Offers[fresh[k]] = o

Startup ==
  /\ \A o \in Seeds : accounts[o.request.account] \in {o.request.participant, None}
  /\ policy' = ReferencePolicy
  /\ participants' = [p \in Participants |-> StartedParticipant(p)]
  /\ \A p \in Participants : participants'[p].epoch <= MaxEpoch[p]   \* bound
  /\ credentials' = [p \in Participants |-> [t \in CredentialTypes |->
       IF t \in ReferencePolicy.required[ReferenceFacts[p].type] /\ ~Fresh(credentials[p][t])
       THEN Renewed ELSE credentials[p][t]]]
  /\ accounts' = [a \in Accounts |->
       IF \E p \in Participants : a \in SeedAccounts(p)
       THEN CHOOSE p \in Participants : a \in SeedAccounts(p) ELSE accounts[a]]
  /\ \E fresh \in AsListed({k \in DOMAIN Offers : Reusable(Offers[k].request) = {}}) :
       /\ Len(authorizations) + Len(fresh) <= MaxIssued                \* bound
       /\ authorizations' = authorizations \o
            [k \in DOMAIN fresh |-> [o \in Seeds |-> Issued(o.request)]'[Offers[fresh[k]]]]
       /\ offers' = [o \in Seeds |-> [id |-> IdOf(o, fresh), available |-> TRUE]]

-----------------------------------------------------------------------------
(* scenario.apply: the sources are authorised afresh, then one is taken    *)
(* offline or has its authorization revoked.                               *)

Scenario == \E fresh \in AsListed({k \in DOMAIN Offers : Source(Offers[k])}) :
  /\ \A o \in Seeds : offers[o].id # 0 /\ (Source(o) => Eligible(o.request))
  /\ Len(authorizations) + Len(fresh) <= MaxIssued                \* bound
  /\ \E offline \in SUBSET {o \in Seeds : Source(o)},
        revoked \in SUBSET {o \in Seeds : Source(o)} :
       /\ Cardinality(offline) + Cardinality(revoked) <= 1
       /\ authorizations' = authorizations \o
            [k \in DOMAIN fresh |-> [Issued(Offers[fresh[k]].request)
                                       EXCEPT !.revoked = Offers[fresh[k]] \in revoked]]
       /\ offers' = [o \in Seeds |-> IF Source(o)
            THEN [id |-> Len(authorizations) + CHOOSE k \in DOMAIN fresh : Offers[fresh[k]] = o,
                  available |-> o \notin offline] ELSE offers[o]]
  /\ UNCHANGED <<policy, participants, credentials, accounts>>

-----------------------------------------------------------------------------
(* The settlement graph *)

EdgeVerifies(o, i) ==
  SettlementVerifies(i, o.request.corridor, o.request.amount, o.request.participant)

UpsertEdge(o, i) ==
  /\ EdgeVerifies(o, i)
  /\ offers' = [offers EXCEPT ![o] = [id |-> i, available |-> TRUE]]
  /\ UNCHANGED policyVars

SetAvailability(o, available) ==
  /\ offers[o].id # 0
  /\ offers' = [offers EXCEPT ![o].available = available]
  /\ UNCHANGED policyVars

AsUpserted(o) == offers[o].available     \* mutant: no second look at the policy
Active(o) ==
  /\ offers[o].available
  /\ LET i == offers[o].id IN
     IF Source(o)
     THEN MarketVerifies(i, o.request.corridor, o.request.amount, o.request.account)
     ELSE EdgeVerifies(o, i)

-----------------------------------------------------------------------------
NodeNext ==
  \/ PolicyNext /\ UNCHANGED offers
  \/ Startup
  \/ Scenario
  \/ \E o \in Edges, i \in DOMAIN authorizations : UpsertEdge(o, i)
  \/ \E o \in Edges, available \in BOOLEAN : SetAvailability(o, available)

-----------------------------------------------------------------------------
NodeSpec ==
  /\ NodeInit /\ now = 0
  /\ [][(NodeNext /\ UNCHANGED now) \/ (Tick /\ UNCHANGED nodeVars)]_<<nodeVars, now>>

-----------------------------------------------------------------------------
(* A source or an edge that policy fails is not offered at all: whoever    *)
(* provides what is offered now would be admitted now, for the corridor    *)
(* and the whole amount offered. The tables keep what was authorised once  *)
(* (30 days ago, or before a restart); policy moves on underneath them.    *)
OnlyEligibleOffered ==
  \A o \in Seeds : Active(o) =>
    Eligible([o.request EXCEPT !.account = IF Source(o) THEN @ ELSE None])
=============================================================================
