---------------------------- MODULE SandboxSite ----------------------------
(***************************************************************************)
(* The hosted builder of the site (workers/site/neobank-builder.js): one   *)
(* agent object per tenant, which counts its own turns of the day and keeps*)
(* the conversation, and one object for all of them that counts what may   *)
(* be spent on the model in a day (builder-budget.js). An object runs one  *)
(* event at a time and takes another wherever a handler awaits: the budget,*)
(* then the model. A day is a value of the clock.                          *)
(***************************************************************************)
EXTENDS NodeClock, Sequences, SequencesExt, FiniteSets

CONSTANTS Tenants, Turns,   \* Turns == 1..n: requests, numbered as they come
          TurnLimit,        \* BUILDER_DAILY_REQUEST_LIMIT
          BudgetLimit,      \* BUILDER_GLOBAL_DAILY_REQUEST_LIMIT
          Remembered        \* turns kept of a conversation

ASSUME AgentAssumption ==
  /\ IsFiniteSet(Turns) /\ Turns = 1..Cardinality(Turns)
  /\ Tenants # {} /\ TurnLimit \in Nat /\ BudgetLimit \in Nat /\ Remembered \in Nat

VARIABLES
  quota,      \* [Tenants -> a count of a day]; persisted with the object
  talk,       \* [Tenants -> the turns of the conversation]; persisted
  budget,     \* the count of the object that counts for all
  turn,       \* [Turns -> what became of a request]
  overlapped, \* history: tenants that asked while a turn of theirs ran
  disordered  \* history: the budget was asked for a day after a later one

agentVars == <<quota, talk, budget, turn, overlapped, disordered>>

Running == {"asked", "allowed", "calling"}
AgentTypeOK ==
  /\ quota \in [Tenants -> [day : Nat, used : 0..TurnLimit]]
  /\ budget \in [day : Nat, used : 0..BudgetLimit]
  /\ talk \in [Tenants -> BoundedSeq(Turns, Remembered)]
  /\ turn \in [Turns ->
       [step : Running \cup {"new", "refused", "answered", "failed", "lost", "dead"},
        of : Tenants, day : Nat, own : [day : Nat, used : 0..TurnLimit],
        heard : BoundedSeq(Turns, Remembered), paid : BOOLEAN]]
  /\ overlapped \subseteq Tenants /\ disordered \in BOOLEAN

NoTurns == [day |-> 0, used |-> 0]
AgentInit ==
  /\ quota = [t \in Tenants |-> NoTurns] /\ budget = NoTurns
  /\ talk = [t \in Tenants |-> <<>>]
  /\ turn = [r \in Turns |-> [step |-> "new", of |-> CHOOSE t \in Tenants : TRUE, day |-> 0,
                              own |-> NoTurns, heard |-> <<>>, paid |-> FALSE]]
  /\ overlapped = {} /\ disordered = FALSE

-----------------------------------------------------------------------------
(* nextDailyQuota, nextGlobalQuota: a count of another day is no count.    *)
UsedOn(count, day) == IF count.day = day THEN count.used ELSE 0
CountedOn(count, day) == [day |-> day, used |-> UsedOn(count, day) + 1]

LastTurns(s) == IF Len(s) > Remembered THEN Tail(s) ELSE s
RunningOf(t) == {r \in Turns : turn[r].of = t /\ turn[r].step \in Running}
Comes(r) == turn[r].step = "new" /\ \A s \in Turns : s < r => turn[s].step # "new"
GoesTo(r, step) == turn' = [turn EXCEPT ![r].step = step]

(* The edge or the agent turns it away: too many requests, no key, paused, *)
(* a bad body. The count that is full is not written.                      *)
TurnAway(r, t) ==
  /\ Comes(r)
  /\ turn' = [turn EXCEPT ![r] = [@ EXCEPT !.step = "refused", !.of = t]]
  /\ UNCHANGED <<quota, talk, budget, overlapped, disordered>>

(* onRequest up to its first await: the count is written first.            *)
Ask(r, t) ==
  /\ Comes(r)
  /\ UsedOn(quota[t], now) < TurnLimit
  /\ LET own == CountedOn(quota[t], now) IN
       /\ quota' = [quota EXCEPT ![t] = own]
       /\ turn' = [turn EXCEPT ![r] = [@ EXCEPT !.step = "asked", !.of = t,
                                                !.day = now, !.own = own]]
  /\ overlapped' = IF RunningOf(t) # {} THEN overlapped \cup {t} ELSE overlapped
  /\ UNCHANGED <<talk, budget, disordered>>

(* BuilderBudget.reserve, for the day the request was stamped with. A call *)
(* whose caller died is served all the same.                               *)
ReserveBudget(r) ==
  /\ turn[r].step \in {"asked", "lost"}
  /\ disordered' = (disordered \/ turn[r].day < budget.day)
  /\ \/ /\ UsedOn(budget, turn[r].day) < BudgetLimit
        /\ budget' = CountedOn(budget, turn[r].day)
        /\ GoesTo(r, IF turn[r].step = "lost" THEN "dead" ELSE "allowed")
     \/ /\ UsedOn(budget, turn[r].day) >= BudgetLimit
        /\ GoesTo(r, IF turn[r].step = "lost" THEN "dead" ELSE "refused")
        /\ UNCHANGED budget
  /\ UNCHANGED <<quota, talk, overlapped>>

(* runBuilderTurn: the conversation is read here, before the model answers.*)
CallModel(r) ==
  /\ turn[r].step = "allowed"
  /\ turn' = [turn EXCEPT ![r] = [@ EXCEPT !.step = "calling", !.paid = TRUE,
                                           !.heard = talk[turn[r].of]]]
  /\ UNCHANGED <<quota, talk, budget, overlapped, disordered>>

(* The answer is stored with what was read, the turn's own count included. *)
Answer(r) ==
  /\ turn[r].step = "calling"
  /\ quota' = [quota EXCEPT ![turn[r].of] = turn[r].own]
  /\ talk' = [talk EXCEPT ![turn[r].of] = LastTurns(Append(turn[r].heard, r))]
  /\ GoesTo(r, "answered")
  /\ UNCHANGED <<budget, overlapped, disordered>>

(* A call that fails has been counted, and stays counted.                  *)
FailAndRefund(r) ==   \* mutant: gives the turn back
  /\ turn[r].step = "calling"
  /\ GoesTo(r, "failed")
  /\ quota' = [quota EXCEPT ![turn[r].of].used = turn[r].own.used - 1]
  /\ UNCHANGED <<talk, budget, overlapped, disordered>>
FailTurn(r) ==
  /\ turn[r].step = "calling"
  /\ GoesTo(r, "failed")
  /\ UNCHANGED <<quota, talk, budget, overlapped, disordered>>

(* The object of a tenant is evicted with what it was doing.               *)
Evict(t) ==
  /\ RunningOf(t) # {}
  /\ turn' = [r \in Turns |->
       IF r \notin RunningOf(t) THEN turn[r]
       ELSE [turn[r] EXCEPT !.step = IF @ = "asked" THEN "lost" ELSE "dead"]]
  /\ UNCHANGED <<quota, talk, budget, overlapped, disordered>>

AgentNext ==
  \/ \E r \in Turns : \/ \E t \in Tenants : TurnAway(r, t) \/ Ask(r, t)
                      \/ ReserveBudget(r) \/ CallModel(r) \/ Answer(r) \/ FailTurn(r)
  \/ \E t \in Tenants : Evict(t)

AgentSpec ==
  /\ AgentInit /\ now = 0
  /\ [][(AgentNext /\ UNCHANGED now) \/ (Tick /\ UNCHANGED agentVars)]_<<agentVars, now>>

-----------------------------------------------------------------------------
PaidFor(t, d) == {r \in Turns : turn[r].paid /\ turn[r].of = t /\ turn[r].day = d}
AnsweredFor(t) == {r \in Turns : turn[r].step = "answered" /\ turn[r].of = t}

(* A conversation is the latest answers, in their order.                   *)
Latest(said, answers) ==
  /\ \A i \in DOMAIN said : /\ said[i] \in answers
                             /\ \A j \in DOMAIN said : i < j => said[i] < said[j]
  /\ \A r \in answers :
       (\E i \in DOMAIN said : said[i] = r) \/ \A i \in DOMAIN said : r < said[i]
  /\ Len(said) = IF Cardinality(answers) > Remembered THEN Remembered ELSE Cardinality(answers)

(* Failed calls, evictions and overlapping tenants cannot spend more on    *)
(* the model than a day allows, as long as the budget is asked in the      *)
(* order of the days; a tenant that waits for its answers stays within its *)
(* own limit and its conversation misses none (onRequest, reserve,         *)
(* runBuilderTurn). Both conditions are needed: see the hazards.           *)
SpendIsBounded ==
  /\ disordered \/ \A d \in 0..now :
       Cardinality(UNION {PaidFor(t, d) : t \in Tenants}) <= BudgetLimit
  /\ \A t \in Tenants \ overlapped :
       /\ \A d \in 0..now : Cardinality(PaidFor(t, d)) <= TurnLimit
       /\ Latest(talk[t], AnsweredFor(t))

-----------------------------------------------------------------------------
(***************************************************************************)
(* A tab of the sandbox: the client of the API with its key of the session *)
(* (src/api.ts, src/singleFlight.js) and the page that takes a brief to a  *)
(* blueprint, a provisioned project and a test payment                     *)
(* (src/sandbox/SandboxPage.tsx). A key is a tenant of its own. The server *)
(* is BuilderProjects seen from outside: it serves a call at once, or the  *)
(* call or its answer is lost. A project is named by the call that made it.*)
(***************************************************************************)
CONSTANTS Calls, Keys       \* 1..n each; 0 is none

ASSUME ClientAssumption == Calls \subseteq Nat \ {0} /\ Keys \subseteq Nat \ {0}

VARIABLES
  stored,       \* the key in sessionStorage, 0 when there is none
  signup,       \* the one provisionKey in flight: none, asked, and how it went
  request,      \* [Calls -> what became of a call]
  page,         \* what the visitor sees
  accepted,     \* keys the server accepts
  issued,       \* keys it ever gave out
  projectOf,    \* [Calls -> the project that call made]; the server's
  applied,      \* history: [Calls -> times the call took effect]
  dropped,      \* history: accepted keys the tab has thrown away
  early,        \* history: a call was sent while no key was stored
  left          \* history: a new project was begun while one was provisioned

clientVars == <<stored, signup, request, page, accepted, issued, projectOf,
                applied, dropped, early, left>>

CallKinds == {"open", "create", "provision", "pay", "talk"}
ProjectStates == {"none", "blueprint_ready", "ready"}
ClientTypeOK ==
  /\ stored \in Keys \cup {0} /\ signup \in {"none", "asked", "answered", "unknown"}
  /\ request \in [Calls -> [step : {"new", "entering", "sent", "waiting", "done"},
                            kind : CallKinds, about : Calls \cup {0}, key : Keys \cup {0},
                            verdict : {"none", "ok", "refused", "401", "lost"},
                            again : BOOLEAN, rows : [Calls -> ProjectStates]]]
  /\ page \in [stage : 0..3, shown : Calls \cup {0}, status : ProjectStates,
               listed : [Calls -> ProjectStates], url : Calls \cup {0},
               busy : BOOLEAN, talking : BOOLEAN]
  /\ accepted \subseteq Keys /\ issued \in Keys \cup {0}
  /\ projectOf \in [Calls -> [of : Keys \cup {0}, status : ProjectStates]]
  /\ applied \in [Calls -> 0..2] /\ dropped \subseteq Keys
  /\ early \in BOOLEAN /\ left \in BOOLEAN

-----------------------------------------------------------------------------
NoRows == [p \in Calls |-> "none"]
Unsent == [step |-> "new", kind |-> "talk", about |-> 0, key |-> 0,
           verdict |-> "none", again |-> FALSE, rows |-> NoRows]
FreshPage(url) == [stage |-> 0, shown |-> 0, status |-> "none", listed |-> NoRows,
                   url |-> url, busy |-> TRUE, talking |-> FALSE]
FirstCall == CHOOSE c \in Calls : \A d \in Calls : c <= d

(* The page is mounted: ensureKey, then the list of projects.              *)
Mounted(c) ==
  IF stored = 0 THEN [Unsent EXCEPT !.step = "entering", !.kind = "open"]
  ELSE [Unsent EXCEPT !.step = "sent", !.kind = "open", !.key = stored]
ClientInit ==
  /\ stored = 0 /\ signup = "asked"
  /\ request = [c \in Calls |->
       IF c = FirstCall THEN [Unsent EXCEPT !.step = "entering", !.kind = "open"] ELSE Unsent]
  /\ page = FreshPage(0)
  /\ accepted = {} /\ issued = 0
  /\ projectOf = [c \in Calls |-> [of |-> 0, status |-> "none"]]
  /\ applied = [c \in Calls |-> 0] /\ dropped = {} /\ early = FALSE /\ left = FALSE

server == <<accepted, issued, projectOf, applied>>
Calling == {c \in Calls : request[c].step \in {"entering", "sent", "waiting"}}
NextCall(c) == request[c].step = "new" /\ \A d \in Calls : d < c => request[d].step # "new"

(* call: the key of the moment goes with it.                               *)
Fire(c, kind, about) ==
  /\ NextCall(c)
  /\ request' = [request EXCEPT ![c] = [@ EXCEPT !.step = "sent", !.kind = kind,
                                                 !.about = about, !.key = stored]]
  /\ early' = (early \/ stored = 0)
  /\ UNCHANGED <<stored, signup, server, dropped>>

CreateBlueprint(c) ==
  /\ page.stage = 0 /\ ~page.busy
  /\ Fire(c, "create", 0) /\ page' = [page EXCEPT !.busy = TRUE] /\ UNCHANGED left
TalkToBuilder(c) ==
  /\ page.stage = 0 /\ ~page.talking
  /\ Fire(c, "talk", 0) /\ page' = [page EXCEPT !.talking = TRUE] /\ UNCHANGED left
ProvisionShown(c) ==
  /\ page.stage = 1 /\ page.shown # 0
  /\ Fire(c, "provision", page.shown)
  /\ page' = [page EXCEPT !.stage = 2, !.busy = TRUE] /\ UNCHANGED left
RunPayment(c) ==
  /\ page.stage = 3 /\ page.shown # 0 /\ page.status = "ready" /\ ~page.busy
  /\ Fire(c, "pay", page.shown) /\ page' = [page EXCEPT !.busy = TRUE] /\ UNCHANGED left

StageOf(status) == IF status = "ready" THEN 3 ELSE 1
Resume(p) ==
  /\ page.stage = 0 /\ page.listed[p] # "none"
  /\ page' = [page EXCEPT !.shown = p, !.status = page.listed[p],
                          !.stage = StageOf(page.listed[p]), !.url = p]
  /\ UNCHANGED <<stored, signup, request, server, dropped, early, left>>
NewProject ==
  /\ page.shown # 0
  /\ page' = [page EXCEPT !.shown = 0, !.status = "none", !.stage = 0, !.url = 0]
  /\ left' = (left \/ \E c \in Calling : request[c].kind = "provision")
  /\ UNCHANGED <<stored, signup, request, server, dropped, early>>

(* The tab is loaded again: the key and the address stay; what was in      *)
(* flight is answered to nobody.                                           *)
Reload(c) ==
  /\ NextCall(c)
  /\ request' = [d \in Calls |->
       IF d = c THEN Mounted(c)
       ELSE IF d \in Calling THEN [Unsent EXCEPT !.step = "done"] ELSE request[d]]
  /\ signup' = IF stored = 0 THEN "asked" ELSE "none"
  /\ page' = FreshPage(page.url)
  /\ UNCHANGED <<stored, server, dropped, early, left>>

-----------------------------------------------------------------------------
(* The server.                                                             *)
ServeSignup(k) ==
  /\ signup = "asked" /\ k = issued + 1
  /\ issued' = k /\ accepted' = accepted \cup {k}
  /\ signup' \in {"answered", "unknown"}
  /\ UNCHANGED <<stored, request, page, projectOf, applied, dropped, early, left>>

Owns(k, p) == p # 0 /\ projectOf[p].of = k
Permits(c) ==
  LET r == request[c] IN
  CASE r.kind = "provision" -> Owns(r.key, r.about)
    [] r.kind = "pay" -> Owns(r.key, r.about) /\ projectOf[r.about].status = "ready"
    [] OTHER -> TRUE

(* A ready project is answered as it stands.                               *)
Alters(c) ==
  request[c].kind \in {"create", "pay", "talk"} \/
  (request[c].kind = "provision" /\ projectOf[request[c].about].status # "ready")

Hears(c, verdict) == request' = [request EXCEPT ![c].verdict = verdict]
Unserved(c) == request[c].step = "sent" /\ request[c].verdict = "none"
Serve(c) ==
  /\ Unserved(c) /\ request[c].key \in accepted /\ Permits(c)
  /\ applied' = IF Alters(c) THEN [applied EXCEPT ![c] = @ + 1] ELSE applied
  /\ projectOf' =
       CASE request[c].kind = "create" ->
              [projectOf EXCEPT ![c] = [of |-> request[c].key, status |-> "blueprint_ready"]]
         [] request[c].kind = "provision" ->
              [projectOf EXCEPT ![request[c].about].status = "ready"]
         [] OTHER -> projectOf
  /\ \/ request' = [request EXCEPT
             ![c].verdict = "ok",
             ![c].rows = IF request[c].kind # "open" THEN NoRows
                         ELSE [p \in Calls |-> IF projectOf[p].of = request[c].key
                                               THEN projectOf[p].status ELSE "none"]]
     \/ Hears(c, "lost")
  /\ UNCHANGED <<stored, signup, page, accepted, issued, dropped, early, left>>
Refuse(c) ==
  /\ Unserved(c)
  /\ \/ request[c].key \notin accepted /\ Hears(c, "401")
     \/ request[c].key \in accepted /\ ~Permits(c) /\ Hears(c, "refused")
     \/ Hears(c, "lost")
  /\ UNCHANGED <<stored, signup, page, server, dropped, early, left>>
ExpireKey(k) ==
  /\ k \in accepted /\ accepted' = accepted \ {k}
  /\ UNCHANGED <<stored, signup, request, page, issued, projectOf, applied, dropped, early, left>>

-----------------------------------------------------------------------------
(* The continuation of call: a rejected key is replaced once, by one       *)
(* signup however many wait for it, and the call is made again.            *)
AnyFailure(c) == request[c].verdict \in {"401", "lost"}   \* mutant
Rejected(c) == request[c].verdict = "401"
Answered(c) == request[c].step = "sent" /\ request[c].verdict # "none"
Replaced(c) == Answered(c) /\ Rejected(c) /\ ~request[c].again /\ stored # 0

ReplaceKey(c) ==
  /\ Replaced(c)
  /\ dropped' = dropped \cup (accepted \cap {stored})
  /\ stored' = 0
  /\ signup' = IF signup = "none" THEN "asked" ELSE signup
  /\ request' = [request EXCEPT ![c].step = "waiting"]
  /\ UNCHANGED <<page, server, early, left>>

(* provisionKey settles: those who wait go on with the key, or without.    *)
SignupReturns ==
  /\ signup \in {"answered", "unknown"}
  /\ signup' = "none"
  /\ stored' = IF signup = "answered" THEN issued ELSE stored
  /\ request' = [c \in Calls |->
       IF request[c].step \notin {"entering", "waiting"} THEN request[c]
       ELSE IF signup = "answered"
       THEN [request[c] EXCEPT !.step = "sent", !.key = issued, !.verdict = "none",
                               !.again = request[c].step = "waiting"]
       ELSE [request[c] EXCEPT !.step = "sent", !.verdict = "401", !.again = TRUE]]
  /\ UNCHANGED <<page, server, dropped, early, left>>

Shows(p, status, stage) ==
  [page EXCEPT !.shown = p, !.status = status, !.stage = stage, !.busy = FALSE]
AfterOk(c) ==
  LET r == request[c] IN
  CASE r.kind = "open" ->
         IF page.url # 0 /\ r.rows[page.url] # "none"
         THEN [Shows(page.url, r.rows[page.url], StageOf(r.rows[page.url]))
                 EXCEPT !.listed = r.rows]
         ELSE [page EXCEPT !.listed = r.rows, !.busy = FALSE]
    [] r.kind = "create" ->
         [Shows(c, "blueprint_ready", 1)
            EXCEPT !.listed[c] = "blueprint_ready", !.url = c]
    [] r.kind = "provision" ->
         [Shows(r.about, "ready", 3)
            EXCEPT !.listed[r.about] = IF @ = "none" THEN @ ELSE "ready"]
    [] r.kind = "pay" -> Shows(r.about, "ready", 3)
    [] OTHER -> [page EXCEPT !.talking = FALSE]
AfterError(c) ==
  CASE request[c].kind = "talk" -> [page EXCEPT !.talking = FALSE]
    [] request[c].kind = "provision" -> [page EXCEPT !.stage = 1, !.busy = FALSE]
    [] OTHER -> [page EXCEPT !.busy = FALSE]

Return(c) ==
  /\ Answered(c) /\ ~Replaced(c)
  /\ page' = IF request[c].verdict = "ok" THEN AfterOk(c) ELSE AfterError(c)
  /\ request' = [request EXCEPT ![c] = [Unsent EXCEPT !.step = "done"]]
  /\ UNCHANGED <<stored, signup, server, dropped, early, left>>

ClientNext ==
  \/ NewProject \/ SignupReturns
  \/ \E k \in Keys : ServeSignup(k) \/ ExpireKey(k)
  \/ \E c \in Calls :
       \/ CreateBlueprint(c) \/ TalkToBuilder(c) \/ ProvisionShown(c) \/ RunPayment(c)
       \/ Resume(c) \/ Reload(c) \/ Serve(c) \/ Refuse(c) \/ ReplaceKey(c) \/ Return(c)

ClientSpec == ClientInit /\ [][ClientNext]_clientVars

-----------------------------------------------------------------------------
(* A click takes effect once, whatever is lost, rejected or replaced in    *)
(* between; a project is shown as a live sandbox only when the server made *)
(* it one; the page is blank only for a visitor who left a project while it*)
(* was provisioned; and the key of a tenant that still stands is thrown    *)
(* away only after some key expired or a call went out without one         *)
(* (requestApi, call, provisionKey, SandboxPage).                          *)
ClientHonest ==
  /\ \A c \in Calls : applied[c] <= 1
  /\ page.stage = 3 => page.shown # 0 /\ projectOf[page.shown].status = "ready"
  /\ page.stage \in {1, 2} /\ page.shown = 0 => left
  /\ dropped # {} => early \/ 1..issued \ accepted # {}
=============================================================================
