------------------------------ MODULE FxMarket ------------------------------
(***************************************************************************)
(* The private signed-order market of the FX node: SqliteFxMarket          *)
(* (packages/fx-market/src/sqlite-market.js), which reserves and fills     *)
(* maker orders in database transactions, and FxMarketService              *)
(* (market-service.js), which keeps the route of a firm quote beside it.   *)
(*                                                                         *)
(* A service call is several transactions. Process p runs one call at a    *)
(* time (its code is synchronous), so with one process nothing comes       *)
(* between the steps of a call but a crash; with several processes on one  *)
(* database file their steps interleave.                                   *)
(*                                                                         *)
(* One token pair. Whether an order's validity window covers the clock,    *)
(* whether its policy authorisation still verifies and whether a route has *)
(* expired are asked of the environment at each use.                       *)
(***************************************************************************)
EXTENDS Integers, FiniteSets, Functions

CONSTANTS
  Procs,       \* processes that have the market database open
  Orders,      \* signed maker orders, numbered as they are admitted
  Sell, Buy,   \* Sell[o], Buy[o]: signed amounts
  Routes,      \* routes (random ids, never reused)
  Want,        \* Want[r]: exact output asked of the route
  MayCrash,    \* whether a process may die between two steps of a call
  Contested    \* bound: routes that processes share a database for

ASSUME MarketAssumption ==
  /\ Orders \subseteq Nat /\ IsFiniteSet(Orders)
  /\ IsFiniteSet(Routes) /\ Contested \subseteq Routes
  /\ Sell \in [Orders -> Nat \ {0}]
  /\ Buy \in [Orders -> Nat \ {0}]
  /\ Want \in [Routes -> Nat \ {0}]
  /\ MayCrash \in BOOLEAN

VARIABLES
  ostate, filled, filledBuy, reserved, hidden, blocked,   \* table orders
  rsv, qty, pay,  \* table reservations: state, maker_sell_amount, taker_pay_amount
  rstate,         \* table routes
  recorded,       \* chain_events: routes whose settlement event is stored
  op,             \* op[p]: the call process p is in, and its next step
  chain,          \* what became of the route's execution
  alone           \* whether requests run one at a time and no process dies

orderVars == <<ostate, filled, filledBuy, reserved, hidden, blocked>>
marketVars == <<orderVars, rsv, qty, pay, recorded>>
vars == <<marketVars, rstate, op, chain>>
modeVars == <<alone, vars>>

OrderStates == {"none", "OPEN", "RESERVED", "PARTIALLY_FILLED", "FILLED",
                "CANCELLED", "POLICY_BLOCKED"}
ReservationStates == {"none", "ACTIVE", "CONSUMED", "RELEASED"}
RouteStates == {"none", "RESERVED", "SUBMITTED", "CONFIRMED", "FAILED",
                "RELEASED", "EXPIRED"}
Steps == {"reserve", "insert", "submit", "release", "released",
          "confirm", "confirmed", "normalize", "fail", "failed"}
Idle == [step |-> "idle"]

TypeOK ==
  /\ ostate \in [Orders -> OrderStates]
  /\ filled \in [Orders -> Nat] /\ \A o \in Orders : filled[o] <= Sell[o]
  /\ filledBuy \in [Orders -> Int]
  /\ reserved \in [Orders -> Nat] /\ \A o \in Orders : reserved[o] <= Sell[o]
  /\ hidden \in SUBSET Orders
  /\ blocked \in SUBSET Orders
  /\ rsv \in [Routes -> [Orders -> ReservationStates]]
  /\ qty \in [Routes -> [Orders -> Nat]]
  /\ pay \in [Routes -> [Orders -> Int]]
  /\ rstate \in [Routes -> RouteStates]
  /\ recorded \in SUBSET Routes
  /\ op \in [Procs -> {Idle} \cup [step : Steps, route : Routes]]
  /\ chain \in [Routes -> {"idle", "pending", "settled", "reverted"}]

Init ==
  /\ ostate = [o \in Orders |-> "none"]
  /\ filled = [o \in Orders |-> 0]
  /\ filledBuy = [o \in Orders |-> 0]
  /\ reserved = [o \in Orders |-> 0]
  /\ hidden = {}
  /\ blocked = {}
  /\ rsv = [r \in Routes |-> [o \in Orders |-> "none"]]
  /\ qty = [r \in Routes |-> [o \in Orders |-> 0]]
  /\ pay = [r \in Routes |-> [o \in Orders |-> 0]]
  /\ rstate = [r \in Routes |-> "none"]
  /\ recorded = {}
  /\ op = [p \in Procs |-> Idle]
  /\ chain = [r \in Routes |-> "idle"]

-----------------------------------------------------------------------------
(* Steps of a call *)

Begin(p, step, r) ==
  /\ op[p] = Idle
  /\ op' = [op EXCEPT ![p] = [step |-> step, route |-> r]]
At(p, step) == op[p] # Idle /\ op[p].step = step
Go(p, step) == op' = [op EXCEPT ![p].step = step]
Return(p) == op' = [op EXCEPT ![p] = Idle]      \* also for a throw

(* The process dies in the middle of a call; what is committed stays.      *)
Crash(p) ==
  /\ MayCrash
  /\ op[p] # Idle
  /\ Return(p)
  /\ UNCHANGED <<marketVars, rstate, chain>>

-----------------------------------------------------------------------------
(* Amounts *)

CeilDiv(n, d) == (n + d - 1) \div d

Available(o) == Sell[o] - filled[o] - reserved[o]

(* compareMakerPrice: the cheaper order first, then the earlier one. *)
Better(x, o) ==
  \/ Buy[x] * Sell[o] < Buy[o] * Sell[x]
  \/ Buy[x] * Sell[o] = Buy[o] * Sell[x] /\ x < o

(* The taker pays the order's price, rounded up, on the cumulative fill. *)
PriceRoundedDown(o, n) ==                 \* mutant: the maker bears the rounding
  ((filled[o] + n) * Buy[o]) \div Sell[o] - filledBuy[o]
PriceOf(o, n) == CeilDiv((filled[o] + n) * Buy[o], Sell[o]) - filledBuy[o]

FillState(o, n) ==
  CASE n = 0 -> "OPEN"
    [] n > 0 /\ n < Sell[o] -> "PARTIALLY_FILLED"
    [] OTHER -> "FILLED"

-----------------------------------------------------------------------------
(* Orders *)

(* admitOrder; the maker's signature and policy were accepted. *)
AdmitOrder(p, o) ==
  /\ op[p] = Idle
  /\ ostate[o] = "none"
  /\ \A x \in Orders : x < o => ostate[x] # "none"
  /\ ostate' = [ostate EXCEPT ![o] = "OPEN"]
  /\ UNCHANGED <<filled, filledBuy, reserved, hidden, blocked, rsv, qty, pay,
                 recorded, rstate, op, chain>>

Active(r) == {o \in Orders : rsv[r][o] = "ACTIVE"}
Holders(o) == {r \in Routes : rsv[r][o] = "ACTIVE"}
NeverSubmitted(o) == FALSE               \* mutant: in-flight orders are released
Submitted(o) == \E r \in Holders(o) : rstate[r] = "SUBMITTED"

(* The transaction of blockOrderPolicy and cancelOrderOffchain: a          *)
(* reservation of a submitted route is left alone; otherwise the order     *)
(* leaves its route, and a route that was reserved is released with it.    *)
Withdraw(o, final) ==
  IF Submitted(o) THEN UNCHANGED <<ostate, reserved, rsv, rstate>>
  ELSE /\ rsv' = [r \in Routes |->
            IF r \in Holders(o) THEN [rsv[r] EXCEPT ![o] = "RELEASED"] ELSE rsv[r]]
       /\ rstate' = [r \in Routes |->
            IF r \in Holders(o) /\ rstate[r] = "RESERVED" THEN "RELEASED" ELSE rstate[r]]
       /\ reserved' = [reserved EXCEPT ![o] = 0]
       /\ ostate' = [ostate EXCEPT ![o] = final]

Block(o) ==
  /\ ostate[o] # "none"
  /\ blocked' = blocked \cup {o}
  /\ Withdraw(o, "POLICY_BLOCKED")
  /\ UNCHANGED <<filled, filledBuy, hidden, qty, pay, recorded, chain>>

(* blockOrderPolicy, also for every order aggregateDepth finds invalid. *)
BlockOrder(p, o) == op[p] = Idle /\ Block(o) /\ UNCHANGED op

CancelOrder(p, o) ==
  /\ op[p] = Idle
  /\ ostate[o] # "none"
  /\ hidden' = hidden \cup {o}
  /\ Withdraw(o, "CANCELLED")
  /\ UNCHANGED <<filled, filledBuy, blocked, qty, pay, recorded, op, chain>>

-----------------------------------------------------------------------------
(* Reserving a route: reserveExactOutput *)

ReserveStart(p, r) ==
  /\ rstate[r] = "none"
  /\ \A o \in Orders : rsv[r][o] = "none"
  /\ \A q \in Procs : op[q] # Idle => op[q].route # r
  /\ Begin(p, "reserve", r)
  /\ UNCHANGED <<marketVars, rstate, chain>>

ByStateAlone(o) ==                       \* mutant: the flags are not looked at
  /\ ostate[o] \in {"OPEN", "PARTIALLY_FILLED"}
  /\ reserved[o] = 0
Matchable(o) ==
  /\ ostate[o] \in {"OPEN", "PARTIALLY_FILLED"}
  /\ o \notin hidden /\ o \notin blocked
  /\ reserved[o] = 0
  /\ Available(o) > 0

(* #revalidatePair: an order whose authorisation no longer verifies is     *)
(* blocked before anything is reserved.                                    *)
RevalidatePair(p, o) ==
  /\ At(p, "reserve")
  /\ ostate[o] \in {"OPEN", "PARTIALLY_FILLED"}
  /\ o \notin hidden /\ o \notin blocked
  /\ Block(o)
  /\ UNCHANGED op

(* The market's transaction takes what it can from the best candidate, the *)
(* rest from the next one and so on until the output is covered.           *)
Total(amount, S) == SumFunctionOnSet(amount, S)
Room == [o \in Orders |-> Available(o)]

Uncapped(cand, want, take) ==     \* mutant: more than the order has
  /\ \A o \in Orders : take[o] > 0 => o \in cand
  /\ Total(take, Orders) = want
Greedy(cand, want, take) ==
  /\ \A o \in Orders : take[o] > 0 => o \in cand /\ take[o] <= Available(o)
  /\ Total(take, Orders) = want
  /\ \A o, x \in cand : take[o] > 0 /\ Better(x, o) => take[x] = Available(x)

Reserve(r, take) ==
  /\ qty' = [qty EXCEPT ![r] = take]
  /\ pay' = [pay EXCEPT ![r] =
       [o \in Orders |-> IF take[o] > 0 THEN PriceOf(o, take[o]) ELSE 0]]
  /\ rsv' = [rsv EXCEPT ![r] =
       [o \in Orders |-> IF take[o] > 0 THEN "ACTIVE" ELSE "none"]]
  /\ reserved' = [o \in Orders |-> IF take[o] > 0 THEN take[o] ELSE reserved[o]]
  /\ ostate' = [o \in Orders |-> IF take[o] > 0 THEN "RESERVED" ELSE ostate[o]]
  /\ UNCHANGED <<filled, filledBuy, hidden, blocked, recorded>>

ReserveMarket(p) ==
  LET r == op[p].route IN
  /\ At(p, "reserve")
  /\ \E inWindow \in SUBSET Orders :
       LET cand == {o \in inWindow : Matchable(o)} IN
       \/ /\ Total(Room, cand) < Want[r]
          /\ Return(p) /\ UNCHANGED marketVars
       \/ \E take \in [Orders -> 0..Want[r]] :
            Greedy(cand, Want[r], take) /\ Go(p, "insert") /\ Reserve(r, take)
  /\ UNCHANGED <<rstate, chain>>

RestoredOpen(o) == "OPEN"                \* mutant: partial fills are forgotten
Restored(o) ==
  IF o \in hidden THEN "CANCELLED"
  ELSE IF o \in blocked THEN "POLICY_BLOCKED" ELSE FillState(o, filled[o])

(* market.releaseRoute: every ACTIVE reservation of the route. *)
Release(r) ==
  /\ rsv' = [rsv EXCEPT ![r] =
       [o \in Orders |-> IF o \in Active(r) THEN "RELEASED" ELSE rsv[r][o]]]
  /\ reserved' = [o \in Orders |-> IF o \in Active(r) THEN 0 ELSE reserved[o]]
  /\ ostate' = [o \in Orders |-> IF o \in Active(r) THEN Restored(o) ELSE ostate[o]]
  /\ UNCHANGED <<filled, filledBuy, hidden, blocked, qty, pay>>

(* The service stores the route, or gives everything back if it cannot. *)
InsertRoute(p) ==
  /\ At(p, "insert")
  /\ Return(p)
  /\ \/ /\ rstate' = [rstate EXCEPT ![op[p].route] = "RESERVED"]
        /\ UNCHANGED marketVars
     \/ Release(op[p].route) /\ UNCHANGED <<recorded, rstate>>
  /\ UNCHANGED chain

-----------------------------------------------------------------------------
(* Submitting a route: markRouteSubmitted *)

SubmitStart(p, r) ==
  /\ rstate[r] = "RESERVED"
  /\ Begin(p, "submit", r)
  /\ UNCHANGED <<marketVars, rstate, chain>>

(* #revalidateReservedRoute: an order that no longer verifies is blocked   *)
(* and the call throws.                                                    *)
RevalidateReserved(p, o) ==
  /\ At(p, "submit")
  /\ o \in Active(op[p].route)
  /\ Block(o)
  /\ Return(p)

(* The transaction reads the route again; the caller then executes it.     *)
SubmitRoute(p) ==
  LET r == op[p].route IN
  /\ At(p, "submit")
  /\ Return(p)
  /\ IF rstate[r] = "RESERVED"
     THEN /\ rstate' = [rstate EXCEPT ![r] = "SUBMITTED"]
          /\ chain' = [chain EXCEPT ![r] = "pending"]
     ELSE UNCHANGED <<rstate, chain>>
  /\ UNCHANGED marketVars

-----------------------------------------------------------------------------
(* Giving a route up: releaseRoute and expireRoutes *)

ReleasableAnyTime(r) == rstate[r] \in {"RESERVED", "SUBMITTED"}   \* mutant
Releasable(r) == rstate[r] = "RESERVED"

ReleaseStart(p, r) ==
  /\ Releasable(r)
  /\ Begin(p, "release", r)
  /\ UNCHANGED <<marketVars, rstate, chain>>

ReleaseMarket(p) ==
  /\ At(p, "release")
  /\ Go(p, "released")
  /\ Release(op[p].route)
  /\ UNCHANGED <<recorded, rstate, chain>>

(* The route row is updated without looking at its state again. *)
ReleaseMark(p) ==
  /\ At(p, "released")
  /\ Return(p)
  /\ \E final \in {"RELEASED", "EXPIRED"} :
       rstate' = [rstate EXCEPT ![op[p].route] = final]
  /\ UNCHANGED <<marketVars, chain>>

-----------------------------------------------------------------------------
(* Settlement: confirmSubmittedRoute and failSubmittedRoute, called with   *)
(* what the execution came to, as often as the caller likes                *)

ConfirmStart(p, r) ==
  /\ rstate[r] = "SUBMITTED"
  /\ chain[r] = "settled"
  /\ Begin(p, "confirm", r)
  /\ UNCHANGED <<marketVars, rstate, chain>>

(* A fill must match its reservation one to one and stay within the        *)
(* signed order.                                                           *)
MatchesAny(r) == Active(r) # {}          \* mutant: a partial match will do
Matches(r) ==
  /\ Active(r) # {}
  /\ \A o \in Orders : rsv[r][o] \in {"none", "ACTIVE"}
WithinSigned(r) ==
  \A o \in Active(r) :
    /\ filled[o] + qty[r][o] <= Sell[o]
    /\ filledBuy[o] + pay[r][o] <= Buy[o]

StillActive == "ACTIVE"                  \* mutant: filled but not consumed
Spent == "CONSUMED"

Fill(r) ==
  LET hit(o) == o \in Active(r) IN
  /\ filled' = [o \in Orders |-> IF hit(o) THEN filled[o] + qty[r][o] ELSE filled[o]]
  /\ filledBuy' = [o \in Orders |->
       IF hit(o) THEN filledBuy[o] + pay[r][o] ELSE filledBuy[o]]
  /\ reserved' = [o \in Orders |-> IF hit(o) THEN 0 ELSE reserved[o]]
  /\ ostate' = [o \in Orders |->
       IF hit(o) THEN FillState(o, filled[o] + qty[r][o]) ELSE ostate[o]]
  /\ rsv' = [rsv EXCEPT ![r] =
       [o \in Orders |-> IF hit(o) THEN Spent ELSE rsv[r][o]]]
  /\ recorded' = recorded \cup {r}
  /\ UNCHANGED <<hidden, blocked, qty, pay>>

SeenElsewhere(r) == recorded # {} \/ r \in recorded   \* mutant: any event
Duplicate(r) == r \in recorded

ConfirmMarket(p) ==
  LET r == op[p].route IN
  /\ At(p, "confirm")
  /\ \/ Duplicate(r) /\ Go(p, "confirmed") /\ UNCHANGED marketVars
     \/ ~Duplicate(r) /\ Matches(r) /\ WithinSigned(r) /\ Go(p, "confirmed") /\ Fill(r)
     \/ ~Duplicate(r) /\ ~(Matches(r) /\ WithinSigned(r)) /\ Return(p)
        /\ UNCHANGED marketVars
  /\ UNCHANGED <<rstate, chain>>

ConfirmMark(p) ==
  /\ At(p, "confirmed")
  /\ Go(p, "normalize")
  /\ rstate' = [rstate EXCEPT ![op[p].route] = "CONFIRMED"]
  /\ UNCHANGED <<marketVars, chain>>

(* Orders withdrawn while the route was in flight. *)
Normalize(p) ==
  LET r == op[p].route
      open(o) == rsv[r][o] # "none" /\ filled[o] < Sell[o]
  IN /\ At(p, "normalize")
     /\ Return(p)
     /\ ostate' = [o \in Orders |->
          IF open(o) /\ o \in hidden THEN "CANCELLED"
          ELSE IF open(o) /\ o \in blocked THEN "POLICY_BLOCKED" ELSE ostate[o]]
     /\ UNCHANGED <<filled, filledBuy, reserved, hidden, blocked, rsv, qty, pay,
                    recorded, rstate, chain>>

FailStart(p, r) ==
  /\ rstate[r] = "SUBMITTED"
  /\ chain[r] = "reverted"
  /\ Begin(p, "fail", r)
  /\ UNCHANGED <<marketVars, rstate, chain>>

FailMarket(p) ==
  LET r == op[p].route IN
  /\ At(p, "fail")
  /\ Go(p, "failed")
  /\ IF Duplicate(r) THEN UNCHANGED marketVars
     ELSE Release(r) /\ recorded' = recorded \cup {r}
  /\ UNCHANGED <<rstate, chain>>

FailMark(p) ==
  /\ At(p, "failed")
  /\ Return(p)
  /\ rstate' = [rstate EXCEPT ![op[p].route] = "FAILED"]
  /\ UNCHANGED <<marketVars, chain>>

(* The execution of a submitted route settles or reverts. *)
Execute(r) ==
  /\ chain[r] = "pending"
  /\ \E x \in {"settled", "reverted"} : chain' = [chain EXCEPT ![r] = x]
  /\ UNCHANGED <<marketVars, rstate, op>>
-----------------------------------------------------------------------------

OrderStep(p, o) ==
  \/ AdmitOrder(p, o) \/ BlockOrder(p, o) \/ CancelOrder(p, o)
  \/ RevalidatePair(p, o) \/ RevalidateReserved(p, o)

RouteStart(p, r) ==
  \/ ReserveStart(p, r) \/ SubmitStart(p, r) \/ ReleaseStart(p, r)
  \/ ConfirmStart(p, r) \/ FailStart(p, r)

CallStep(p) ==
  \/ ReserveMarket(p) \/ InsertRoute(p) \/ SubmitRoute(p)
  \/ ReleaseMarket(p) \/ ReleaseMark(p)
  \/ ConfirmMarket(p) \/ ConfirmMark(p) \/ Normalize(p)
  \/ FailMarket(p) \/ FailMark(p)

Next ==
  \/ \E p \in Procs :
       \/ \E o \in Orders : OrderStep(p, o)
       \/ \E r \in Routes : RouteStart(p, r)
       \/ CallStep(p)
       \/ Crash(p)
  \/ \E r \in Routes : Execute(r)

Spec == Init /\ [][Next]_vars

(* The two ways the market is run: one request at a time, by processes     *)
(* that do not die in the middle of a call, or by processes that share the *)
(* database, in any order of their steps.                                  *)
OthersIdle(p) == \A q \in Procs \ {p} : op[q] = Idle

OneAtATime ==
  \/ \E p \in Procs : OthersIdle(p) /\
       \/ \E o \in Orders : OrderStep(p, o)
       \/ \E r \in Routes : RouteStart(p, r)
       \/ CallStep(p)
  \/ \E r \in Routes : Execute(r)

Shared ==
  \/ \E p \in Procs :
       \/ \E o \in Orders : OrderStep(p, o)
       \/ \E r \in Contested : RouteStart(p, r)
       \/ CallStep(p)
       \/ Crash(p)
  \/ \E r \in Routes : Execute(r)

MarketInit == Init /\ alone \in BOOLEAN
MarketNext == IF alone THEN OneAtATime ELSE Shared
MarketSpec == MarketInit /\ [][MarketNext /\ UNCHANGED alone]_modeVars
-----------------------------------------------------------------------------
(* Properties *)

(* The books of every order: one route at most holds it, what the order    *)
(* row calls reserved is that reservation, fills and reservations together *)
(* never exceed what the maker signed, and the maker is paid the signed    *)
(* price on everything filled so far, rounded up once, however the fills   *)
(* were cut (availableSell, reserveExactOutput, confirmRoute).             *)
Booked(o) ==
  /\ \A r1, r2 \in Holders(o) : r1 = r2
  /\ Holders(o) = {} => reserved[o] = 0
  /\ \A r \in Holders(o) :
       /\ reserved[o] = qty[r][o] /\ qty[r][o] > 0
       /\ pay[r][o] = PriceOf(o, qty[r][o])
  /\ filled[o] + reserved[o] <= Sell[o]
  /\ filledBuy[o] = CeilDiv(filled[o] * Buy[o], Sell[o])

BooksBalance == \A o \in Orders : Booked(o)

(* A maker's quantity is filled exactly by the routes whose execution      *)
(* settled and was recorded, once each, however often a confirmation is    *)
(* retried (chain_events, confirmRoute).                                   *)
FilledByRoutes ==
  /\ \A o \in Orders :
       filled[o] = SumFunctionOnSet([r \in Routes |-> qty[r][o]],
                                    {r \in Routes : rsv[r][o] = "CONSUMED"})
  /\ \A r \in Routes, o \in Orders :
       rsv[r][o] = "CONSUMED" => chain[r] = "settled" /\ r \in recorded

(* A route says CONFIRMED or FAILED only of what its execution came to,    *)
(* and then holds nothing.                                                 *)
RouteTold ==
  \A r \in Routes :
    /\ rstate[r] = "CONFIRMED" =>
         /\ chain[r] = "settled" /\ r \in recorded
         /\ \A o \in Orders : rsv[r][o] \in {"none", "CONSUMED"}
    /\ rstate[r] = "FAILED" => chain[r] = "reverted" /\ Active(r) = {}

(* Quantity that no route holds any more is offered again, at the state    *)
(* its fills give it ("reservation expiry restores liquidity").            *)
LiquidityRestored ==
  \A o \in Orders :
    /\ ostate[o] # "none"
    /\ Holders(o) = {}
    /\ o \notin hidden /\ o \notin blocked
    => ostate[o] = FillState(o, filled[o])

(* A withdrawn order is never reserved again, not even when its last route *)
(* was settled after the withdrawal (offchain_hidden, policy_blocked).     *)
WithdrawnStaysOut ==
  [][\A r \in Routes, o \in Orders :
       rsv[r][o] = "none" /\ rsv'[r][o] = "ACTIVE"
       => o \notin hidden /\ o \notin blocked]_vars

(* "Once an external execution may have been submitted, the system must    *)
(* not automatically release/reuse the reserved liquidity"                 *)
(* (spec/fx/INVARIANTS.md): until the outcome is known and booked, all the *)
(* route was quoted is held for it and can be booked.                      *)
InFlightHeld ==
  \A r \in Routes :
    chain[r] = "pending" \/ (chain[r] = "settled" /\ r \notin recorded)
    => Matches(r) /\ WithinSigned(r)

(* The same, while requests run one at a time (market-service.js).         *)
AloneInFlightHeld == alone => InFlightHeld

(* A submitted route is only ever resolved, never given up.                *)
SubmittedOnlyResolved ==
  [][\A r \in Routes :
       rstate[r] = "SUBMITTED" => rstate'[r] \in {"SUBMITTED", "CONFIRMED", "FAILED"}]_vars

(* While requests run one at a time, the market implements firm liquidity  *)
(* (market-service.js).                                                    *)
Held == [r \in Routes |-> [o \in Orders |->
           IF rsv[r][o] = "ACTIVE" THEN qty[r][o] ELSE 0]]

Abstract == INSTANCE FirmLiquidity WITH
  Size <- Sell, promised <- qty, held <- Held, sold <- filled, outcome <- chain

AloneImplementsFirmLiquidity ==
  /\ Abstract!FirmInit
  /\ [][alone => Abstract!FirmNext]_(Abstract!firmVars)

(* The inductive invariant behind the safety properties. *)

(* A recorded route has been filled or given back entirely, and nothing    *)
(* was sent to execution before its route was stored.                      *)
Resolved(r) ==
  /\ r \in recorded => chain[r] \in {"settled", "reverted"} /\ Active(r) = {}
  /\ r \in recorded /\ chain[r] = "settled" =>
       \A o \in Orders : rsv[r][o] \in {"none", "CONSUMED"}
  /\ \A o \in Orders :
       rsv[r][o] = "CONSUMED" => chain[r] = "settled" /\ r \in recorded
  /\ rstate[r] \in {"none", "RESERVED"} => chain[r] = "idle"

(* What the step a call has reached says of its route.                     *)
Sole(p) == \A q \in Procs : q # p /\ op[q] # Idle => op[q].route # op[p].route

CallSound(p) ==
  /\ At(p, "reserve") => \A o \in Orders : rsv[op[p].route][o] = "none"
  /\ At(p, "reserve") \/ At(p, "insert") => rstate[op[p].route] = "none" /\ Sole(p)
  /\ At(p, "confirm") \/ At(p, "confirmed") => chain[op[p].route] = "settled"
  /\ At(p, "fail") \/ At(p, "failed") => chain[op[p].route] = "reverted"
  /\ At(p, "confirmed") \/ At(p, "failed") => op[p].route \in recorded

UnadmittedEmpty == \A o \in Orders : ostate[o] = "none" => filled[o] = 0

Inductive ==
  /\ BooksBalance
  /\ LiquidityRestored
  /\ UnadmittedEmpty
  /\ \A r \in Routes : Resolved(r)
  /\ RouteTold
  /\ \A p \in Procs : CallSound(p)

(* Statements of the documentation that the code does not keep.            *)

(* "active non-submitted reservations are released" when an order is       *)
(* withdrawn, and a route abandoned or out of time gives its quantity back *)
(* (spec/fx/MARKET-SERVICE.md): a reservation outlives its route's         *)
(* reservation only if the route was submitted.                            *)
ReservationsEnd ==
  \A r \in Routes :
    rstate[r] \in {"RELEASED", "EXPIRED", "CONFIRMED", "FAILED"} => Active(r) = {}

(* "A firm quote represents actual reserved executable capacity"           *)
(* (spec/fx/INVARIANTS.md): what is in execution is held.                  *)
FirmQuoteIsHeld ==
  \A r \in Routes :
    rstate[r] = "SUBMITTED" /\ chain[r] = "pending" =>
      \A o \in Orders : qty[r][o] > 0 => rsv[r][o] = "ACTIVE"
=============================================================================
