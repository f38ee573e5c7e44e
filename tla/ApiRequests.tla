---------------------------- MODULE ApiRequests ----------------------------
(***************************************************************************)
(* What a request to the banking API meets: its idempotency key, the gate  *)
(* with its turns and quotas, and the keys. First, how a mutation is run:  *)
(* the quota of the tenant, the checks of today, the lookup of the key,    *)
(* then the handler and the stored answer, all in one unit of work. What a *)
(* handler does is a line in the log of commands that took effect; an      *)
(* operation may leave its resource in a state that later requests are     *)
(* refused for.                                                            *)
(***************************************************************************)
EXTENDS NodeClock, Sequences, FiniteSets

CONSTANTS
  Tenants, Operations,     \* an operation: method and route pattern
  Things,                  \* what a path parameter names
  Closing,                 \* the operations that end the thing they name
  Bodies, Headers,         \* body and query; idempotency keys
  NoHeader,
  IdempotencyLife,         \* IDEMPOTENCY_TTL_MS
  Quota, Window,           \* requests a tenant may make in a window
  MaxCommands              \* bound of the exploration

VARIABLES
  log,               \* the commands that took effect, with when
  stored,            \* the answer kept for a slot: which command, until when
  bucket,            \* [Tenants -> [count, resetAt]]: in memory only
  ended,             \* the things today's checks refuse
  answer             \* the last request, if it was granted, and the command it was told

commandVars == <<log, stored, bucket, ended, answer>>

Slots == Tenants \X Operations \X Headers
Nothing == [command |-> 0]
Request == [tenant : Tenants, op : Operations, thing : Things, body : Bodies,
            header : Headers \cup {NoHeader}]

CommandTypeOK ==
  /\ log \in Seq([request : Request, at : 0 .. MaxNow])
  /\ stored \in [Slots -> [command : DOMAIN log, fingerprint : Bodies, until : Nat] \cup {Nothing}]
  /\ bucket \in [Tenants -> [count : Nat, resetAt : Nat]]
  /\ ended \subseteq Things
  /\ answer.command \in 0 .. Len(log)

CommandInit ==
  /\ log = <<>>
  /\ stored = [s \in Slots |-> Nothing]
  /\ bucket = [t \in Tenants |-> [count |-> 0, resetAt |-> 0]]
  /\ ended = {}
  /\ answer = [command |-> 0]

-----------------------------------------------------------------------------
Slot(q) == <<q.tenant, q.op, q.header>>
Fingerprint(q) == q.body

Known(q) ==
  /\ q.header # NoHeader
  /\ stored[Slot(q)] # Nothing
  /\ now < stored[Slot(q)].until

AnyParameters(q) == TRUE      \* mutant: no fingerprint
SameParameters(q) == stored[Slot(q)].fingerprint = Fingerprint(q)

(* Counting further than one past the quota makes no difference.           *)
Metered(t) ==
  IF bucket[t].resetAt <= now THEN [count |-> 1, resetAt |-> now + Window]
  ELSE [bucket[t] EXCEPT !.count = IF @ > Quota THEN @ ELSE @ + 1]

Within(t) == Metered(t).count <= Quota

Preflight(q) == q.thing \notin ended

Answered(q, command) == answer' = [request |-> q, command |-> command]
Refuse == answer' = [command |-> 0] /\ UNCHANGED <<log, stored, ended>>

Run(q) ==
  /\ Len(log) < MaxCommands
  /\ log' = Append(log, [request |-> q, at |-> now])
  /\ stored' = IF q.header = NoHeader THEN stored
               ELSE [stored EXCEPT ![Slot(q)] =
                 [command |-> Len(log) + 1, fingerprint |-> Fingerprint(q),
                  until |-> now + IdempotencyLife]]
  /\ ended' = IF q.op \in Closing THEN ended \cup {q.thing} ELSE ended
  /\ Answered(q, Len(log) + 1)

ReplayAnswer(q) == Answered(q, stored[Slot(q)].command) /\ UNCHANGED <<log, stored, ended>>

(* A handler may refuse for reasons of its own, and then nothing is kept.  *)
Handle(q) ==
  /\ bucket' = [bucket EXCEPT ![q.tenant] = Metered(q.tenant)]
  /\ CASE ~Within(q.tenant) \/ ~Preflight(q) -> Refuse
       [] Within(q.tenant) /\ Preflight(q) /\ Known(q) ->
            IF SameParameters(q) THEN ReplayAnswer(q) ELSE Refuse
       [] OTHER -> Run(q) \/ Refuse

(* A restart loses the quotas and nothing else.                            *)
Restart ==
  /\ \E t \in Tenants : bucket[t].count > 0
  /\ bucket' = [t \in Tenants |-> [count |-> 0, resetAt |-> 0]]
  /\ UNCHANGED <<log, stored, ended, answer>>

CommandNext == Restart \/ \E q \in Request : Handle(q)

-----------------------------------------------------------------------------
(* However often a client sends a request again, before or after an        *)
(* answer, a restart or a refusal: under one key an operation of a tenant  *)
(* takes effect once while the key is remembered, and a success is only    *)
(* ever told for a command of that tenant, operation and body              *)
(* (server.js idempotent).                                                 *)
RunOnce ==
  \A i, j \in DOMAIN log :
    /\ i < j
    /\ log[i].request.header # NoHeader
    /\ Slot(log[i].request) = Slot(log[j].request)
    => log[j].at - log[i].at >= IdempotencyLife

ToldTheirOwn ==
  answer.command # 0 =>
    LET done == log[answer.command].request
        asked == answer.request
    IN done.tenant = asked.tenant /\ done.op = asked.op /\ done.body = asked.body

AnsweredOnce == RunOnce /\ ToldTheirOwn

(* docs/API-STANDARDS.md: "Replaying the same key with the same canonical  *)
(* request returns the original outcome; reusing the key with materially   *)
(* different parameters is a conflict." A success answers a command on the *)
(* very thing the path names (server.js idempotent).                       *)
AnswersTheRequest ==
  answer.command # 0 => log[answer.command].request.thing = answer.request.thing

-----------------------------------------------------------------------------
(***************************************************************************)
(* The way of a request into the banking API. Its source pays from a quota *)
(* as it arrives; then its body is read and it waits for its turn; only    *)
(* then is its credential looked up, the tenant's quota charged, what the  *)
(* route asks of the credential and of the mode of the process checked,    *)
(* and the handler run. A key may be revoked anywhere in between. What a   *)
(* request is recorded as in the audit trail is set before and after the   *)
(* credential is known.                                                    *)
(***************************************************************************)
CONSTANTS
  Connections,
  Addresses, Proxy,      \* where clients are; the address of the proxy before the API
  Credentials,           \* keys of tenants
  HolderKey,             \* [Credentials -> Patrons]: whose key it is
  Patrons, Newcomer,     \* tenants; the one a public sign-up makes
  Operator, Anonymous,   \* the operator's key, and no key at all
  Environments,          \* [mode, trusting, operator]: what a process may be started with
  Paths,                 \* routes: [access, mutates, sandbox]
  SourceLimit, PatronLimit, GateWindow,
  MaxTurns               \* bound of the exploration

VARIABLES
  setting,               \* the environment of the process
  charged,               \* [Addresses \cup {Proxy} -> [count, resetAt]]
  spent,                 \* [Patrons -> [count, resetAt]]
  waiting,               \* the request of a connection whose turn has not come
  revokedAt,             \* 0, or the turn before which the key was revoked
  turns                  \* what became of the requests whose turn came

gateVars == <<setting, charged, spent, waiting, revokedAt, turns>>

Idle == [path |-> "none"]
Nameless == "nobody"

(* A key is no operator's, and nobody is no tenant.                        *)
ASSUME RequestsAssumption ==
  /\ IdempotencyLife \in Nat /\ PatronLimit \in Nat /\ GateWindow \in Nat
  /\ HolderKey \in [Credentials -> Patrons]
  /\ Operator \notin Credentials
  /\ Nameless \notin Patrons \cup {Operator, Newcomer}
Uncharged == [count |-> 0, resetAt |-> 0]
Asks == Credentials \cup {Operator, Anonymous}

GateTypeOK ==
  /\ setting \in Environments
  /\ charged \in [Addresses \cup {Proxy} -> [count : Nat, resetAt : Nat]]
  /\ spent \in [Patrons -> [count : Nat, resetAt : Nat]]
  /\ waiting \in [Connections -> [path : DOMAIN Paths, with : Asks] \cup {Idle}]
  /\ revokedAt \in [Credentials -> Nat]
  /\ turns \in Seq([path : DOMAIN Paths, with : Asks, at : Nat,
                    outcome : {"refused", "limited", "ran"},
                    named : Patrons \cup {Operator, Newcomer, Nameless}])

GateInit ==
  /\ setting \in Environments
  /\ charged = [a \in Addresses \cup {Proxy} |-> Uncharged]
  /\ spent = [t \in Patrons |-> Uncharged]
  /\ waiting = [c \in Connections |-> Idle]
  /\ revokedAt = [k \in Credentials |-> 0]
  /\ turns = <<>>

Access(path) == Paths[path].access
Audited(path) == Access(path) # "public" \/ Paths[path].mutates

(* What a client may present to a path that looks at it.                   *)
Presented(path) ==
  IF Access(path) = "public" THEN {Anonymous}
  ELSE Credentials \cup (IF Access(path) = "operator" THEN {Operator} ELSE {Anonymous})

-----------------------------------------------------------------------------
(* A window starts with its first request; counting further than one past  *)
(* the limit makes no difference.                                          *)
Charge(row, limit) ==
  IF row.resetAt <= now THEN [count |-> 1, resetAt |-> now + GateWindow]
  ELSE [row EXCEPT !.count = IF @ > limit THEN @ ELSE @ + 1]

(* Clients behind a proxy share its quota unless its header is trusted.    *)
SourceAddress(a) == IF setting.trusting THEN a ELSE Proxy

Paid(a) == Charge(charged[SourceAddress(a)], SourceLimit)
PayAsSource(a) == charged' = [charged EXCEPT ![SourceAddress(a)] = Paid(a)]

(* Over the quota, without a route or with a body that cannot be read: the *)
(* answer is given without a turn.                                         *)
TurnAway(a) ==
  /\ PayAsSource(a)
  /\ UNCHANGED <<setting, spent, waiting, revokedAt, turns>>

Arrive(c, a, path, with) ==
  /\ waiting[c] = Idle
  /\ Paid(a).count <= SourceLimit
  /\ PayAsSource(a)
  /\ waiting' = [waiting EXCEPT ![c] = [path |-> path, with |-> with]]
  /\ UNCHANGED <<setting, spent, revokedAt, turns>>

-----------------------------------------------------------------------------
KeyOnArrival(k) == TRUE      \* mutant: a key is looked up as the request arrives
KeyNow(k) == revokedAt[k] = 0

Authenticated(q) ==
  CASE Access(q.path) = "public" -> TRUE
    [] Access(q.path) = "operator" -> setting.operator /\ q.with = Operator
    [] OTHER -> q.with \in Credentials /\ KeyNow(q.with)

Charges(q) == Access(q.path) = "tenant" /\ Authenticated(q)
AfterCharge(q) == Charge(spent[HolderKey[q.with]], PatronLimit)
Affords(q) == Charges(q) => AfterCharge(q).count <= PatronLimit

(* assertRuntimeMode: what only a sandbox does, production refuses.        *)
FitsMode(path) == setting.mode = "production" => ~Paths[path].sandbox

(* The identity in the record: none until a credential is known; a public  *)
(* command that makes a tenant is recorded as that tenant's.               *)
Named(q, outcome) ==
  CASE Access(q.path) = "public" ->
         IF outcome = "ran" /\ Audited(q.path) THEN Newcomer ELSE Nameless
    [] ~Authenticated(q) -> Nameless
    [] OTHER -> IF q.with = Operator THEN Operator ELSE HolderKey[q.with]

Concluded(q, outcome) ==
  [path |-> q.path, with |-> q.with, at |-> now, outcome |-> outcome,
   named |-> Named(q, outcome)]

(* A handler may refuse for reasons of its own: that of a route the        *)
(* catalogue names and nobody built does nothing else.                     *)
Verdicts(q) ==
  IF ~Authenticated(q) THEN {"refused"}
  ELSE IF ~Affords(q) THEN {"limited"}
  ELSE IF ~FitsMode(q.path) THEN {"refused"}
  ELSE {"ran", "refused"}

TakeTurn(c) ==
  LET q == waiting[c] IN
  /\ q # Idle /\ Len(turns) < MaxTurns
  /\ \E outcome \in Verdicts(q) : turns' = Append(turns, Concluded(q, outcome))
  /\ spent' = IF Charges(q) THEN [spent EXCEPT ![HolderKey[q.with]] = AfterCharge(q)] ELSE spent
  /\ waiting' = [waiting EXCEPT ![c] = Idle]
  /\ UNCHANGED <<setting, charged, revokedAt>>

RevokeCredential(k) ==
  /\ revokedAt[k] = 0
  /\ revokedAt' = [revokedAt EXCEPT ![k] = Len(turns) + 1]
  /\ UNCHANGED <<setting, charged, spent, waiting, turns>>

GateNext ==
  \/ \E a \in Addresses : TurnAway(a)
  \/ \E c \in Connections, a \in Addresses, path \in DOMAIN Paths :
       \E with \in Presented(path) : Arrive(c, a, path, with)
  \/ \E c \in Connections : TakeTurn(c)
  \/ \E k \in Credentials : RevokeCredential(k)

-----------------------------------------------------------------------------
(* The earlier turns of a window that the same tenant's keys had.          *)
OwnBefore(i) ==
  {j \in 1 .. i - 1 : /\ turns[i].at < turns[j].at + GateWindow
                      /\ turns[j].with \in Credentials /\ turns[j].named = turns[i].named}

RightToRun(i) ==
  LET turn == turns[i] IN
  /\ Access(turn.path) = "tenant" =>
       /\ revokedAt[turn.with] = 0 \/ i < revokedAt[turn.with]
       /\ turn.named = HolderKey[turn.with]
  /\ Access(turn.path) # "public" \/ Paths[turn.path].mutates => turn.named # Nameless
  /\ setting.mode = "production" => ~Paths[turn.path].sandbox

(* However requests wait on their bodies and on each other: a revoked key  *)
(* runs nothing after it is gone, though its request came before; nothing  *)
(* that changes state or needs a credential runs without the record saying *)
(* whose it was; production runs no sandbox operation; and a tenant is     *)
(* held back only for what was sent with its own keys, never for what      *)
(* others sent or what came without a valid key (server.js, the request    *)
(* pipeline; kernel.js preflight).                                         *)
GateKept ==
  \A i \in DOMAIN turns :
    /\ turns[i].outcome = "ran" => RightToRun(i)
    /\ turns[i].outcome = "limited" => Cardinality(OwnBefore(i)) >= PatronLimit

-----------------------------------------------------------------------------
(***************************************************************************)
(* The tenants of the banking API and their keys. A key is the machine     *)
(* identity of a tenant, may make further keys for it and ends by          *)
(* revocation or time. A sandbox gives any caller a tenant; a production   *)
(* process makes the first one as it starts, or gives an existing one a    *)
(* new key when the deployment asks for that. The secret of a key and the  *)
(* human a gateway vouches for are left out.                               *)
(***************************************************************************)
CONSTANTS
  KeyIds, TenantIds,
  Domains,             \* KEY_PERMISSION_DOMAINS; one of them is "keys"
  KeyLives,            \* lifetimes a request may ask for
  Requests,            \* sets of permissions a request may name, {} for none
  Root, NoTenant

VARIABLES
  apiKey,              \* [tenant, issuer, permissions, until, revoked]
  tenant,              \* "none", or the mode of the process that made it
  runtime              \* the mode of the running process, "down" without one

keyVars == <<apiKey, tenant, runtime>>

Wild == <<"*", "*">>
Grantable == Domains \X {"read", "write", "*"}
Routes == Domains \X {"read", "write"}
Unissued == [issuer |-> Root]
Forever == MaxNow + 1
Modes == {"sandbox", "production"}

KeyTypeOK ==
  /\ apiKey \in
       [KeyIds -> [tenant : TenantIds, issuer : KeyIds \cup {Root}, until : Nat, revoked : BOOLEAN,
                   permissions : SUBSET (Grantable \cup {Wild})] \cup {Unissued}]
  /\ tenant \in [TenantIds -> Modes \cup {"none"}]
  /\ runtime \in Modes \cup {"down"}

KeyInit ==
  /\ apiKey = [k \in KeyIds |-> Unissued]
  /\ tenant = [t \in TenantIds |-> "none"]
  /\ runtime = "down"

-----------------------------------------------------------------------------
Minted(k) == apiKey[k] # Unissued
Kept(k) == Minted(k) /\ ~apiKey[k].revoked          \* in db.keys, expired or not
Authenticates(k) == runtime # "down" /\ Kept(k) /\ now < apiKey[k].until

(* A domain's star is everything in it, and writing includes reading.      *)
Grants(permissions, required) ==
  \/ Wild \in permissions
  \/ required \in permissions
  \/ <<required[1], "*">> \in permissions
  \/ required[2] = "read" /\ <<required[1], "write">> \in permissions

LetIn(k, route) == Authenticates(k) /\ Grants(apiKey[k].permissions, route)

FirstKey(t, until) ==
  [tenant |-> t, issuer |-> Root, permissions |-> {Wild}, until |-> until, revoked |-> FALSE]

-----------------------------------------------------------------------------
(* A process starts. In production it refuses what a sandbox left behind,  *)
(* makes a tenant for an empty database only, and gives a tenant a new key *)
(* only when the deployment names it and no key of it is kept. The tenant  *)
(* is written before its key, and the process may die in between.          *)
KeyOf(t) == \E k \in KeyIds : Kept(k) /\ apiKey[k].tenant = t
Credentialed(asked) ==
  IF asked = NoTenant THEN \E k \in KeyIds : Kept(k) ELSE KeyOf(asked)
NoCredentials == ~\E k \in KeyIds : Kept(k)     \* mutant: tenants are not looked at
Untouched == NoCredentials /\ \A t \in TenantIds : tenant[t] = "none"
SandboxLeft == \E t \in TenantIds : tenant[t] = "sandbox"

StartSandbox ==
  /\ runtime = "down"
  /\ runtime' = "sandbox"
  /\ UNCHANGED <<apiKey, tenant>>

StartProduction(asked) ==
  /\ runtime = "down" /\ ~SandboxLeft /\ Credentialed(asked)
  /\ runtime' = "production"
  /\ UNCHANGED <<apiKey, tenant>>

Bootstrap(asked, t, k) ==
  /\ runtime = "down" /\ ~SandboxLeft /\ ~Credentialed(asked)
  /\ Untouched \/ (asked # NoTenant /\ tenant[asked] # "none")
  /\ asked # NoTenant => t = asked
  /\ asked = NoTenant => tenant[t] = "none"
  /\ ~Minted(k)
  /\ tenant' = [tenant EXCEPT ![t] = "production"]
  /\ \/ /\ apiKey' = [apiKey EXCEPT ![k] = FirstKey(t, Forever)]
        /\ runtime' = "production"
     \/ UNCHANGED <<apiKey, runtime>>

Stop ==
  /\ runtime # "down"
  /\ runtime' = "down"
  /\ UNCHANGED <<apiKey, tenant>>

-----------------------------------------------------------------------------
Signup(t, k, life) ==
  /\ runtime = "sandbox"
  /\ tenant[t] = "none" /\ ~Minted(k)
  /\ tenant' = [tenant EXCEPT ![t] = "sandbox"]
  /\ apiKey' = [apiKey EXCEPT ![k] = FirstKey(t, now + life)]
  /\ UNCHANGED runtime

AnyRequest(parent, requested) == TRUE      \* mutant: a child may ask for anything

(* A key grants what it has, and a request that names nothing inherits it. *)
MayRequest(parent, requested) == \A p \in requested : Grants(apiKey[parent].permissions, p)
ChildPermissions(parent, requested) ==
  IF requested = {} THEN apiKey[parent].permissions ELSE requested

CreateKey(parent, k, requested, life) ==
  /\ LetIn(parent, <<"keys", "write">>)
  /\ ~Minted(k)
  /\ MayRequest(parent, requested)
  /\ apiKey' = [apiKey EXCEPT ![k] =
       [tenant |-> apiKey[parent].tenant, issuer |-> parent,
        permissions |-> ChildPermissions(parent, requested), until |-> now + life,
        revoked |-> FALSE]]
  /\ UNCHANGED <<tenant, runtime>>

RevokeKey(by, k) ==
  /\ LetIn(by, <<"keys", "write">>)
  /\ Kept(k) /\ apiKey[k].tenant = apiKey[by].tenant
  /\ apiKey' = [apiKey EXCEPT ![k].revoked = TRUE]
  /\ UNCHANGED <<tenant, runtime>>

(* Incident response: every key of the tenant, the one in use included.    *)
RevokeAll(by) ==
  /\ LetIn(by, <<"keys", "write">>)
  /\ apiKey' = [k \in KeyIds |->
       IF Minted(k) /\ apiKey[k].tenant = apiKey[by].tenant
       THEN [apiKey[k] EXCEPT !.revoked = TRUE] ELSE apiKey[k]]
  /\ UNCHANGED <<tenant, runtime>>

KeyNext ==
  \/ StartSandbox \/ Stop
  \/ \E asked \in TenantIds \cup {NoTenant} :
       StartProduction(asked) \/ \E t \in TenantIds, k \in KeyIds : Bootstrap(asked, t, k)
  \/ \E k \in KeyIds :
       \/ \E t \in TenantIds, life \in KeyLives : Signup(t, k, life)
       \/ RevokeAll(k) \/ \E other \in KeyIds : RevokeKey(k, other)
       \/ \E child \in KeyIds, life \in KeyLives, requested \in Requests :
            CreateKey(k, child, requested, life)

-----------------------------------------------------------------------------
(* The key, the one that made it, the one that made that one, and so on.   *)
WithIssuers(family) == \A k \in family : Minted(k) => apiKey[k].issuer \in family \cup {Root}
Above(k) == {a \in KeyIds : \A family \in SUBSET KeyIds : k \in family /\ WithIssuers(family) => a \in family}

Allowed(k) == {r \in Routes : Grants(apiKey[k].permissions, r)}

(* Authority only narrows, however keys were minted, inherited, revoked or *)
(* outlived and however often processes stopped and started: a key does    *)
(* nothing a key above it could not, and for the same tenant; a start      *)
(* never makes a second production tenant beside one whose keys are gone;  *)
(* and a production process never runs over what a sandbox handed out.     *)
(* (key-permissions.js, identity.js keys, production-bootstrap.js.)        *)
AuthorityKept ==
  /\ \A k \in KeyIds : Minted(k) =>
       \A a \in Above(k) : apiKey[a].tenant = apiKey[k].tenant /\ Allowed(k) \subseteq Allowed(a)
  /\ Cardinality({t \in TenantIds : tenant[t] = "production"}) <= 1
  /\ runtime = "production" => ~SandboxLeft

-----------------------------------------------------------------------------
(***************************************************************************)
(* The three together, under one clock.                                    *)
(***************************************************************************)
requestVars == <<now, commandVars, gateVars, keyVars>>

RequestsInit == now = 0 /\ CommandInit /\ GateInit /\ KeyInit

RequestsNext ==
  \/ Tick /\ UNCHANGED <<commandVars, gateVars, keyVars>>
  \/ /\ UNCHANGED now
     /\ \/ CommandNext /\ UNCHANGED <<gateVars, keyVars>>
        \/ GateNext /\ UNCHANGED <<commandVars, keyVars>>
        \/ KeyNext /\ UNCHANGED <<commandVars, gateVars>>

RequestsSpec == RequestsInit /\ [][RequestsNext]_requestVars

(* Who may do what, and how often: keys only narrow, nothing runs past     *)
(* what its credential, its tenant's quota and the mode of the process     *)
(* allow, and what is sent again runs once (key-permissions.js, server.js).*)
AccessKept == AuthorityKept /\ GateKept /\ AnsweredOnce
=============================================================================
