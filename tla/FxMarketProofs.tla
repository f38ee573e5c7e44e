--------------------------- MODULE FxMarketProofs ---------------------------
(***************************************************************************)
(* Proofs about FxMarket, for any number of processes on the database,     *)
(* orders, routes and amounts, with or without crashes.                    *)
(***************************************************************************)
EXTENDS FxMarket, SumTheorems

-----------------------------------------------------------------------------
(* Lemmas about the operators *)

(* A call that is running is on a route. *)
LEMMA CallParts ==
  ASSUME TypeOK, NEW p \in Procs, op[p] # Idle
  PROVE  op[p].step \in Steps /\ op[p].route \in Routes
BY DEF TypeOK, Idle

(* A call starts, moves on and returns, and no other call notices. *)
LEMMA BeginIsCall ==
  ASSUME TypeOK, NEW p \in Procs, NEW s \in Steps, NEW r \in Routes, Begin(p, s, r)
  PROVE  /\ op' \in [Procs -> {Idle} \cup [step : Steps, route : Routes]]
         /\ op'[p] # Idle /\ op'[p].step = s /\ op'[p].route = r
         /\ \A q \in Procs : q # p => op'[q] = op[q]
BY DEF TypeOK, Begin, Idle, Steps

LEMMA GoIsCall ==
  ASSUME TypeOK, NEW p \in Procs, op[p] # Idle, NEW s \in Steps, Go(p, s)
  PROVE  /\ op' \in [Procs -> {Idle} \cup [step : Steps, route : Routes]]
         /\ op'[p] # Idle /\ op'[p].step = s /\ op'[p].route = op[p].route
         /\ \A q \in Procs : q # p => op'[q] = op[q]
<1>1. op[p] \in [step : Steps, route : Routes]
  BY DEF TypeOK
<1>2. op'[p] = [op[p] EXCEPT !.step = s]
  BY DEF Go, TypeOK
<1>3. op'[p] \in [step : Steps, route : Routes] /\ op'[p].step = s
      /\ op'[p].route = op[p].route
  BY <1>1, <1>2
<1> QED
  BY <1>3 DEF Go, TypeOK, Idle, Steps

LEMMA ReturnIsCall ==
  ASSUME TypeOK, NEW p \in Procs, Return(p)
  PROVE  /\ op' \in [Procs -> {Idle} \cup [step : Steps, route : Routes]]
         /\ op'[p] = Idle
         /\ \A q \in Procs : q # p => op'[q] = op[q]
BY DEF TypeOK, Return

(* ceilDiv of integers is an integer, and nothing costs nothing. *)
LEMMA CeilDivInt ==
  ASSUME NEW n \in Int, NEW d \in Nat \ {0}
  PROVE  CeilDiv(n, d) \in Int
BY DEF CeilDiv

LEMMA CeilDivZero ==
  ASSUME NEW d \in Nat \ {0}
  PROVE  CeilDiv(0, d) = 0
<1>1. (0 + d - 1) \div d = 0
  BY SMTT(30)
<1> QED
  BY <1>1 DEF CeilDiv

LEMMA PriceIsInt ==
  ASSUME TypeOK, NEW o \in Orders, NEW n \in Nat
  PROVE  PriceOf(o, n) \in Int
<1>1. filled[o] + n \in Nat /\ Buy[o] \in Nat /\ Sell[o] \in Nat \ {0}
      /\ filledBuy[o] \in Int
  BY MarketAssumption DEF TypeOK
<1>2. (filled[o] + n) * Buy[o] \in Int
  BY <1>1
<1>3. CeilDiv((filled[o] + n) * Buy[o], Sell[o]) \in Int
  BY <1>1, <1>2, CeilDivInt
<1> QED
  BY <1>1, <1>3 DEF PriceOf

(* A fill leaves an admitted order in a state of its own. *)
LEMMA FillStateParts ==
  ASSUME NEW o \in Orders, NEW n \in Nat
  PROVE  /\ FillState(o, n) \in OrderStates \ {"none"}
         /\ n = 0 => FillState(o, n) = "OPEN"
BY DEF FillState, OrderStates

LEMMA RestoredParts ==
  ASSUME TypeOK, NEW o \in Orders
  PROVE  /\ Restored(o) \in OrderStates \ {"none"}
         /\ o \notin hidden /\ o \notin blocked => Restored(o) = FillState(o, filled[o])
<1>1. filled[o] \in Nat
  BY DEF TypeOK
<1> QED
  BY <1>1, FillStateParts DEF Restored, OrderStates

-----------------------------------------------------------------------------
(* Types *)

LEMMA InitTypeOK == Init => TypeOK
BY MarketAssumption DEF Init, TypeOK, OrderStates, ReservationStates, RouteStates

LEMMA WithdrawTyped ==
  ASSUME TypeOK, NEW o \in Orders, NEW final \in OrderStates, Withdraw(o, final)
  PROVE  /\ ostate' \in [Orders -> OrderStates]
         /\ reserved' \in [Orders -> Nat]
         /\ \A x \in Orders : reserved'[x] <= Sell[x]
         /\ rsv' \in [Routes -> [Orders -> ReservationStates]]
         /\ rstate' \in [Routes -> RouteStates]
<1>1. CASE Submitted(o)
  BY <1>1 DEF Withdraw, TypeOK
<1>2. CASE ~Submitted(o)
  <2>1. rsv' \in [Routes -> [Orders -> ReservationStates]]
    BY <1>2 DEF Withdraw, TypeOK, ReservationStates
  <2>2. rstate' \in [Routes -> RouteStates]
    BY <1>2 DEF Withdraw, TypeOK, RouteStates
  <2>3. ostate' \in [Orders -> OrderStates]
    BY <1>2 DEF Withdraw, TypeOK
  <2>4. reserved' = [reserved EXCEPT ![o] = 0]
    BY <1>2 DEF Withdraw
  <2>5. reserved' \in [Orders -> Nat]
    BY <2>4 DEF TypeOK
  <2>6. \A x \in Orders : reserved'[x] = IF x = o THEN 0 ELSE reserved[x]
    BY <2>4 DEF TypeOK
  <2>7. \A x \in Orders : reserved'[x] <= Sell[x]
    BY <2>6, MarketAssumption DEF TypeOK
  <2> QED
    BY <2>1, <2>2, <2>3, <2>5, <2>7
<1> QED
  BY <1>1, <1>2

LEMMA BlockTyped ==
  ASSUME TypeOK, NEW o \in Orders, Block(o),
         op' \in [Procs -> {Idle} \cup [step : Steps, route : Routes]]
  PROVE  TypeOK'
<1>1. "POLICY_BLOCKED" \in OrderStates
  BY DEF OrderStates
<1>2. Withdraw(o, "POLICY_BLOCKED")
  BY DEF Block
<1> QED
  BY <1>1, <1>2, WithdrawTyped DEF Block, TypeOK

LEMMA ReleaseTyped ==
  ASSUME TypeOK, NEW r \in Routes, Release(r)
  PROVE  /\ ostate' \in [Orders -> OrderStates]
         /\ reserved' \in [Orders -> Nat]
         /\ \A x \in Orders : reserved'[x] <= Sell[x]
         /\ rsv' \in [Routes -> [Orders -> ReservationStates]]
<1>1. \A o \in Orders : Restored(o) \in OrderStates
  BY RestoredParts
<1> QED
  BY <1>1, MarketAssumption DEF Release, TypeOK, ReservationStates

LEMMA ReserveTyped ==
  ASSUME TypeOK, NEW r \in Routes, NEW cand, NEW take \in [Orders -> 0..Want[r]],
         Greedy(cand, Want[r], take), Reserve(r, take)
  PROVE  /\ ostate' \in [Orders -> OrderStates]
         /\ reserved' \in [Orders -> Nat]
         /\ \A x \in Orders : reserved'[x] <= Sell[x]
         /\ rsv' \in [Routes -> [Orders -> ReservationStates]]
         /\ qty' \in [Routes -> [Orders -> Nat]]
         /\ pay' \in [Routes -> [Orders -> Int]]
<1>1. take \in [Orders -> Nat]
  BY MarketAssumption
<1>2. \A o \in Orders : PriceOf(o, take[o]) \in Int
  BY <1>1, PriceIsInt
<1>3. \A o \in Orders : take[o] > 0 => take[o] <= Sell[o]
  BY <1>1, MarketAssumption DEF Greedy, Available, TypeOK
<1>4. pay' \in [Routes -> [Orders -> Int]]
  BY <1>2 DEF Reserve, TypeOK
<1>5. qty' \in [Routes -> [Orders -> Nat]]
  BY <1>1 DEF Reserve, TypeOK
<1>6. rsv' \in [Routes -> [Orders -> ReservationStates]]
  BY DEF Reserve, TypeOK, ReservationStates
<1>7. ostate' \in [Orders -> OrderStates]
  BY DEF Reserve, TypeOK, OrderStates
<1>8. reserved' \in [Orders -> Nat] /\ \A x \in Orders : reserved'[x] <= Sell[x]
  BY <1>1, <1>3 DEF Reserve, TypeOK
<1> QED
  BY <1>4, <1>5, <1>6, <1>7, <1>8

LEMMA FillTyped ==
  ASSUME TypeOK, NEW r \in Routes, WithinSigned(r), Fill(r)
  PROVE  /\ ostate' \in [Orders -> OrderStates]
         /\ filled' \in [Orders -> Nat]
         /\ \A x \in Orders : filled'[x] <= Sell[x]
         /\ filledBuy' \in [Orders -> Int]
         /\ reserved' \in [Orders -> Nat]
         /\ \A x \in Orders : reserved'[x] <= Sell[x]
         /\ rsv' \in [Routes -> [Orders -> ReservationStates]]
         /\ recorded' \in SUBSET Routes
<1>1. \A o \in Orders : filled[o] + qty[r][o] \in Nat
  BY DEF TypeOK
<1>2. \A o \in Orders : FillState(o, filled[o] + qty[r][o]) \in OrderStates
  BY <1>1, FillStateParts
<1>3. filled' \in [Orders -> Nat] /\ \A x \in Orders : filled'[x] <= Sell[x]
  BY <1>1 DEF Fill, WithinSigned, TypeOK, Active
<1>4. filledBuy' \in [Orders -> Int]
  BY DEF Fill, TypeOK
<1>5. reserved' \in [Orders -> Nat] /\ \A x \in Orders : reserved'[x] <= Sell[x]
  BY MarketAssumption DEF Fill, TypeOK
<1>6. rsv' \in [Routes -> [Orders -> ReservationStates]]
  BY DEF Fill, TypeOK, ReservationStates, Spent
<1> QED
  BY <1>2, <1>3, <1>4, <1>5, <1>6 DEF Fill, TypeOK

LEMMA NextTypeOK == TypeOK /\ [Next]_vars => TypeOK'
<1> SUFFICES ASSUME TypeOK, [Next]_vars PROVE TypeOK'
  OBVIOUS
<1>1. ASSUME NEW p \in Procs, NEW o \in Orders, OrderStep(p, o) PROVE TypeOK'
  <2>1. CASE AdmitOrder(p, o)
    BY <2>1 DEF AdmitOrder, TypeOK, OrderStates
  <2>2. CASE BlockOrder(p, o)
    BY <2>2, BlockTyped DEF BlockOrder, TypeOK
  <2>3. CASE CancelOrder(p, o)
    <3>1. Withdraw(o, "CANCELLED") /\ "CANCELLED" \in OrderStates
      BY <2>3 DEF CancelOrder, OrderStates
    <3> QED
      BY <2>3, <3>1, WithdrawTyped DEF CancelOrder, TypeOK
  <2>4. CASE RevalidatePair(p, o)
    BY <2>4, BlockTyped DEF RevalidatePair, TypeOK
  <2>5. CASE RevalidateReserved(p, o)
    BY <2>5, BlockTyped, ReturnIsCall DEF RevalidateReserved
  <2> QED
    BY <1>1, <2>1, <2>2, <2>3, <2>4, <2>5 DEF OrderStep
<1>2. ASSUME NEW p \in Procs, NEW r \in Routes, RouteStart(p, r) PROVE TypeOK'
  <2>1. PICK s \in Steps : Begin(p, s, r)
    BY <1>2 DEF RouteStart, ReserveStart, SubmitStart, ReleaseStart,
                ConfirmStart, FailStart, Steps
  <2>2. UNCHANGED <<marketVars, rstate, chain>>
    BY <1>2 DEF RouteStart, ReserveStart, SubmitStart, ReleaseStart,
                ConfirmStart, FailStart
  <2> QED
    BY <2>1, <2>2, BeginIsCall DEF TypeOK, marketVars, orderVars
<1>3. ASSUME NEW p \in Procs, CallStep(p) PROVE TypeOK'
  <2>1. CASE ReserveMarket(p)
    <3> DEFINE r == op[p].route
    <3>1. op[p] # Idle /\ r \in Routes /\ "insert" \in Steps
      BY <2>1, CallParts DEF ReserveMarket, At, Steps
    <3>2. CASE Return(p) /\ UNCHANGED marketVars
      BY <2>1, <3>2, ReturnIsCall DEF ReserveMarket, TypeOK, marketVars, orderVars
    <3>3. ASSUME NEW cand, NEW take \in [Orders -> 0..Want[r]],
                 Greedy(cand, Want[r], take), Go(p, "insert"), Reserve(r, take)
          PROVE  TypeOK'
      <4> HIDE DEF r
      <4>1. op' \in [Procs -> {Idle} \cup [step : Steps, route : Routes]]
        BY <3>1, <3>3, GoIsCall
      <4>2. UNCHANGED <<rstate, chain>>
        BY <2>1 DEF ReserveMarket
      <4>3. UNCHANGED <<filled, filledBuy, hidden, blocked, recorded>>
        BY <3>3 DEF Reserve
      <4> QED
        BY <3>1, <3>3, <4>1, <4>2, <4>3, ReserveTyped DEF TypeOK
    <3> QED
      BY <2>1, <3>2, <3>3 DEF ReserveMarket
  <2>2. CASE InsertRoute(p)
    <3>1. op[p].route \in Routes /\ Return(p)
      BY <2>2, CallParts DEF InsertRoute, At
    <3>2. CASE Release(op[p].route) /\ UNCHANGED <<recorded, rstate>>
      BY <2>2, <3>1, <3>2, ReleaseTyped, ReturnIsCall DEF InsertRoute, Release, TypeOK
    <3>3. CASE UNCHANGED marketVars /\ rstate' = [rstate EXCEPT ![op[p].route] = "RESERVED"]
      BY <2>2, <3>1, <3>3, ReturnIsCall
         DEF InsertRoute, TypeOK, RouteStates, marketVars, orderVars
    <3> QED
      BY <2>2, <3>2, <3>3 DEF InsertRoute
  <2>3. CASE SubmitRoute(p)
    BY <2>3, CallParts, ReturnIsCall
       DEF SubmitRoute, At, TypeOK, RouteStates, marketVars, orderVars
  <2>4. CASE ReleaseMarket(p)
    <3>1. op[p] # Idle /\ op[p].route \in Routes /\ "released" \in Steps
      BY <2>4, CallParts DEF ReleaseMarket, At, Steps
    <3> QED
      BY <2>4, <3>1, ReleaseTyped, GoIsCall DEF ReleaseMarket, Release, TypeOK
  <2>5. CASE ReleaseMark(p)
    BY <2>5, CallParts, ReturnIsCall
       DEF ReleaseMark, At, TypeOK, RouteStates, marketVars, orderVars
  <2>6. CASE ConfirmMarket(p)
    <3> DEFINE r == op[p].route
    <3>1. op[p] # Idle /\ r \in Routes /\ "confirmed" \in Steps
      BY <2>6, CallParts DEF ConfirmMarket, At, Steps
    <3>2. CASE Return(p) /\ UNCHANGED marketVars
      BY <2>6, <3>2, ReturnIsCall DEF ConfirmMarket, TypeOK, marketVars, orderVars
    <3>3. CASE Go(p, "confirmed") /\ UNCHANGED marketVars
      BY <2>6, <3>1, <3>3, GoIsCall DEF ConfirmMarket, TypeOK, marketVars, orderVars
    <3>4. CASE WithinSigned(r) /\ Go(p, "confirmed") /\ Fill(r)
      <4> HIDE DEF r
      <4>1. op' \in [Procs -> {Idle} \cup [step : Steps, route : Routes]]
        BY <3>1, <3>4, GoIsCall
      <4> QED
        BY <2>6, <3>1, <3>4, <4>1, FillTyped DEF ConfirmMarket, Fill, TypeOK
    <3> QED
      BY <2>6, <3>2, <3>3, <3>4 DEF ConfirmMarket
  <2>7. CASE ConfirmMark(p)
    BY <2>7, CallParts, GoIsCall
       DEF ConfirmMark, At, TypeOK, RouteStates, marketVars, orderVars, Steps
  <2>8. CASE Normalize(p)
    <3>1. ostate' \in [Orders -> OrderStates]
      BY <2>8 DEF Normalize, TypeOK, OrderStates
    <3> QED
      BY <2>8, <3>1, ReturnIsCall DEF Normalize, TypeOK
  <2>9. CASE FailMarket(p)
    <3>1. op[p] # Idle /\ op[p].route \in Routes /\ "failed" \in Steps
      BY <2>9, CallParts DEF FailMarket, At, Steps
    <3>2. op' \in [Procs -> {Idle} \cup [step : Steps, route : Routes]]
      BY <2>9, <3>1, GoIsCall DEF FailMarket
    <3>3. CASE UNCHANGED marketVars
      BY <2>9, <3>2, <3>3 DEF FailMarket, TypeOK, marketVars, orderVars
    <3>4. CASE Release(op[p].route) /\ recorded' = recorded \cup {op[p].route}
      BY <2>9, <3>1, <3>2, <3>4, ReleaseTyped DEF FailMarket, Release, TypeOK
    <3> QED
      BY <2>9, <3>3, <3>4 DEF FailMarket
  <2>10. CASE FailMark(p)
    BY <2>10, CallParts, ReturnIsCall
       DEF FailMark, At, TypeOK, RouteStates, marketVars, orderVars
  <2> QED
    BY <1>3, <2>1, <2>2, <2>3, <2>4, <2>5, <2>6, <2>7, <2>8, <2>9, <2>10 DEF CallStep
<1>4. ASSUME NEW p \in Procs, Crash(p) PROVE TypeOK'
  BY <1>4, ReturnIsCall DEF Crash, TypeOK, marketVars, orderVars
<1>5. ASSUME NEW r \in Routes, Execute(r) PROVE TypeOK'
  BY <1>5 DEF Execute, TypeOK, marketVars, orderVars
<1>6. CASE UNCHANGED vars
  BY <1>6 DEF vars, TypeOK, marketVars, orderVars
<1> QED
  BY <1>1, <1>2, <1>3, <1>4, <1>5, <1>6 DEF Next

(* Every state of every execution is well typed, and no order is filled or *)
(* reserved beyond what the maker signed.                                  *)
THEOREM TypeInvariant == Spec => []TypeOK
BY InitTypeOK, NextTypeOK, PTL DEF Spec

-----------------------------------------------------------------------------
(* The inductive invariant: the orders' books *)

LEMMA InitInductive == Init => Inductive
<1> SUFFICES ASSUME Init PROVE Inductive
  OBVIOUS
<1>1. \A o \in Orders : CeilDiv(filled[o] * Buy[o], Sell[o]) = 0
  <2> TAKE o \in Orders
  <2>1. filled[o] * Buy[o] = 0 /\ Sell[o] \in Nat \ {0}
    BY MarketAssumption DEF Init
  <2> QED
    BY <2>1, CeilDivZero
<1>2. BooksBalance
  BY <1>1, MarketAssumption DEF Init, BooksBalance, Booked, Holders
<1>3. LiquidityRestored /\ UnadmittedEmpty
  BY DEF Init, LiquidityRestored, UnadmittedEmpty
<1>4. \A r \in Routes : Resolved(r)
  BY DEF Init, Resolved
<1>5. RouteTold
  BY DEF Init, RouteTold
<1>6. \A p \in Procs : CallSound(p)
  BY DEF Init, CallSound, At
<1> QED
  BY <1>2, <1>3, <1>4, <1>5, <1>6 DEF Inductive

(* An order whose reservations and fills do not change stays booked.       *)
LEMMA BookedKept ==
  ASSUME NEW o \in Orders, Booked(o),
         Holders(o)' = Holders(o),
         \A r \in Holders(o) : qty'[r][o] = qty[r][o] /\ pay'[r][o] = pay[r][o],
         reserved'[o] = reserved[o], filled'[o] = filled[o],
         filledBuy'[o] = filledBuy[o]
  PROVE  Booked(o)'
<1>1. \A n : PriceOf(o, n)' = PriceOf(o, n)
  BY DEF PriceOf
<1> QED
  BY <1>1 DEF Booked

(* An order that is given back is booked. *)
LEMMA GivenBackBooked ==
  ASSUME TypeOK, NEW o \in Orders, Booked(o),
         Holders(o)' = {}, reserved'[o] = 0, filled'[o] = filled[o],
         filledBuy'[o] = filledBuy[o]
  PROVE  Booked(o)'
<1>1. filled[o] \in Nat /\ filled[o] <= Sell[o]
  BY DEF TypeOK
<1> QED
  BY <1>1 DEF Booked

(* Withdrawing an order (blockOrderPolicy, cancelOrderOffchain).           *)
LEMMA WithdrawBooks ==
  ASSUME TypeOK, BooksBalance, NEW o \in Orders, NEW final, Withdraw(o, final),
         UNCHANGED <<filled, filledBuy, qty, pay>>
  PROVE  BooksBalance'
<1>1. CASE Submitted(o)
  <2>1. \A x \in Orders : Holders(x)' = Holders(x)
    BY <1>1 DEF Withdraw, Holders
  <2> QED
    BY <1>1, <2>1, BookedKept DEF Withdraw, BooksBalance
<1>2. CASE ~Submitted(o)
  <2> SUFFICES ASSUME NEW x \in Orders PROVE Booked(x)'
    BY DEF BooksBalance
  <2>1. rsv' = [r \in Routes |->
            IF r \in Holders(o) THEN [rsv[r] EXCEPT ![o] = "RELEASED"] ELSE rsv[r]]
        /\ reserved' = [reserved EXCEPT ![o] = 0]
    BY <1>2 DEF Withdraw
  <2>2. \A r \in Routes : rsv'[r][x] = "ACTIVE" <=> x # o /\ rsv[r][x] = "ACTIVE"
    BY <2>1 DEF TypeOK, Holders
  <2>3. reserved'[x] = IF x = o THEN 0 ELSE reserved[x]
    BY <2>1 DEF TypeOK
  <2>4. Booked(x)
    BY DEF BooksBalance
  <2>5. CASE x = o
    <3>1. Holders(x)' = {}
      BY <2>2, <2>5 DEF Holders
    <3> QED
      BY <2>3, <2>4, <2>5, <3>1, GivenBackBooked
  <2>6. CASE x # o
    <3>1. Holders(x)' = Holders(x)
      BY <2>2, <2>6 DEF Holders
    <3> QED
      BY <2>3, <2>4, <2>6, <3>1, BookedKept
  <2> QED
    BY <2>5, <2>6
<1> QED
  BY <1>1, <1>2

(* Giving a route's reservations back (releaseRoute, failRoute).           *)
LEMMA ReleaseHolders ==
  ASSUME TypeOK, BooksBalance, NEW r \in Routes, Release(r), NEW o \in Orders
  PROVE  Holders(o)' = IF o \in Active(r) THEN {} ELSE Holders(o)
<1>1. \A x \in Routes :
        rsv'[x][o] = IF x = r /\ o \in Active(r) THEN "RELEASED" ELSE rsv[x][o]
  BY DEF Release, TypeOK
<1>2. o \in Active(r) => \A x \in Routes : rsv[x][o] = "ACTIVE" => x = r
  BY DEF BooksBalance, Booked, Active, Holders
<1> QED
  BY <1>1, <1>2 DEF Holders, Active

LEMMA ReleaseBooks ==
  ASSUME TypeOK, BooksBalance, NEW r \in Routes, Release(r)
  PROVE  BooksBalance'
<1> SUFFICES ASSUME NEW o \in Orders PROVE Booked(o)'
  BY DEF BooksBalance
<1>1. Booked(o)
  BY DEF BooksBalance
<1>2. Holders(o)' = IF o \in Active(r) THEN {} ELSE Holders(o)
  BY ReleaseHolders
<1>3. reserved'[o] = IF o \in Active(r) THEN 0 ELSE reserved[o]
  BY DEF Release
<1>4. UNCHANGED <<filled, filledBuy, qty, pay>>
  BY DEF Release
<1>5. CASE o \in Active(r)
  BY <1>1, <1>2, <1>3, <1>4, <1>5, GivenBackBooked
<1>6. CASE o \notin Active(r)
  BY <1>1, <1>2, <1>3, <1>4, <1>6, BookedKept
<1> QED
  BY <1>5, <1>6

(* A reservation takes orders that no route holds. *)
LEMMA ReserveHolders ==
  ASSUME TypeOK, BooksBalance, NEW r \in Routes, NEW inWindow,
         NEW take \in [Orders -> 0..Want[r]],
         Greedy({o \in inWindow : Matchable(o)}, Want[r], take), Reserve(r, take),
         \A o \in Orders : rsv[r][o] = "none", NEW o \in Orders
  PROVE  /\ take[o] > 0 => /\ Holders(o) = {} /\ Matchable(o)
                           /\ take[o] <= Available(o) /\ reserved[o] = 0
         /\ Holders(o)' = IF take[o] > 0 THEN {r} ELSE Holders(o)
<1>1. take[o] > 0 => Matchable(o) /\ take[o] <= Available(o)
  BY DEF Greedy
<1>2. take[o] > 0 => reserved[o] = 0
  BY <1>1 DEF Matchable
<1>3. \A x \in Holders(o) : reserved[o] > 0
  BY DEF BooksBalance, Booked
<1>4. take[o] > 0 => Holders(o) = {}
  BY <1>2, <1>3
<1>5. \A x \in Routes :
        rsv'[x][o] = IF x # r THEN rsv[x][o]
                     ELSE IF take[o] > 0 THEN "ACTIVE" ELSE "none"
  BY DEF Reserve, TypeOK
<1>6. Holders(o)' = IF take[o] > 0 THEN {r} ELSE Holders(o)
  BY <1>4, <1>5 DEF Holders
<1> QED
  BY <1>1, <1>2, <1>4, <1>6

LEMMA ReserveBooks ==
  ASSUME TypeOK, BooksBalance, NEW r \in Routes, NEW inWindow,
         NEW take \in [Orders -> 0..Want[r]],
         Greedy({o \in inWindow : Matchable(o)}, Want[r], take), Reserve(r, take),
         \A o \in Orders : rsv[r][o] = "none"
  PROVE  BooksBalance'
<1> SUFFICES ASSUME NEW o \in Orders PROVE Booked(o)'
  BY DEF BooksBalance
<1>1. Booked(o)
  BY DEF BooksBalance
<1>2. /\ take[o] > 0 => /\ Holders(o) = {} /\ Matchable(o)
                        /\ take[o] <= Available(o) /\ reserved[o] = 0
      /\ Holders(o)' = IF take[o] > 0 THEN {r} ELSE Holders(o)
  BY ReserveHolders
<1>3. reserved'[o] = IF take[o] > 0 THEN take[o] ELSE reserved[o]
  BY DEF Reserve
<1>4. UNCHANGED <<filled, filledBuy>>
  BY DEF Reserve
<1>5. /\ qty'[r][o] = take[o]
      /\ pay'[r][o] = IF take[o] > 0 THEN PriceOf(o, take[o]) ELSE 0
      /\ \A x \in Routes \ {r} : qty'[x] = qty[x] /\ pay'[x] = pay[x]
  BY DEF Reserve, TypeOK
<1>6. CASE take[o] > 0
  <2>1. take[o] \in Nat /\ filled[o] \in Nat /\ Sell[o] \in Nat
    BY MarketAssumption DEF TypeOK
  <2>2. filled'[o] + reserved'[o] <= Sell[o]
    BY <1>2, <1>3, <1>4, <1>6, <2>1 DEF Available
  <2>3. PriceOf(o, take[o])' = PriceOf(o, take[o])
    BY <1>4 DEF PriceOf
  <2> QED
    BY <1>1, <1>2, <1>3, <1>4, <1>5, <1>6, <2>2, <2>3 DEF Booked, PriceOf
<1>7. CASE ~(take[o] > 0)
  <2>1. Holders(o) \subseteq Routes \ {r}
    BY DEF Holders
  <2> QED
    BY <1>1, <1>2, <1>3, <1>4, <1>5, <1>7, <2>1, BookedKept
<1> QED
  BY <1>6, <1>7

(* A settled route is filled at its reserved price (confirmRoute).         *)
LEMMA FillHolders ==
  ASSUME TypeOK, BooksBalance, NEW r \in Routes, Fill(r), NEW o \in Orders
  PROVE  Holders(o)' = IF o \in Active(r) THEN {} ELSE Holders(o)
<1>1. \A x \in Routes :
        rsv'[x][o] = IF x = r /\ o \in Active(r) THEN Spent ELSE rsv[x][o]
  BY DEF Fill, TypeOK
<1>2. o \in Active(r) => \A x \in Routes : rsv[x][o] = "ACTIVE" => x = r
  BY DEF BooksBalance, Booked, Active, Holders
<1> QED
  BY <1>1, <1>2 DEF Holders, Active, Spent

LEMMA FillBooks ==
  ASSUME TypeOK, BooksBalance, NEW r \in Routes, WithinSigned(r), Fill(r)
  PROVE  BooksBalance'
<1> SUFFICES ASSUME NEW o \in Orders PROVE Booked(o)'
  BY DEF BooksBalance
<1>1. Booked(o)
  BY DEF BooksBalance
<1>2. Holders(o)' = IF o \in Active(r) THEN {} ELSE Holders(o)
  BY FillHolders
<1>3. /\ filled'[o] = IF o \in Active(r) THEN filled[o] + qty[r][o] ELSE filled[o]
      /\ filledBuy'[o] = IF o \in Active(r) THEN filledBuy[o] + pay[r][o] ELSE filledBuy[o]
      /\ reserved'[o] = IF o \in Active(r) THEN 0 ELSE reserved[o]
      /\ UNCHANGED <<qty, pay>>
  BY DEF Fill
<1>4. CASE o \in Active(r)
  <2> DEFINE n == filled[o] + qty[r][o]
             cost == CeilDiv(n * Buy[o], Sell[o])
  <2>1. n \in Nat /\ Buy[o] \in Nat /\ Sell[o] \in Nat \ {0} /\ filledBuy[o] \in Int
    BY MarketAssumption DEF TypeOK
  <2>2. pay[r][o] = cost - filledBuy[o]
    BY <1>1, <1>4 DEF Booked, PriceOf, Active, Holders
  <2>3. cost \in Int
    <3>1. n * Buy[o] \in Int
      BY <2>1
    <3> QED
      BY <2>1, <3>1, CeilDivInt
  <2>4. filledBuy'[o] = cost
    <3> HIDE DEF cost
    <3> QED
      BY <1>3, <1>4, <2>1, <2>2, <2>3
  <2>5. filled'[o] = n /\ n <= Sell[o] /\ reserved'[o] = 0
    BY <1>3, <1>4 DEF WithinSigned
  <2>6. filled'[o] + reserved'[o] <= Sell[o]
    BY <2>1, <2>5
  <2>7. filledBuy'[o] = CeilDiv(filled'[o] * Buy[o], Sell[o])
    BY <2>4, <2>5
  <2> QED
    BY <1>2, <1>4, <2>5, <2>6, <2>7 DEF Booked
<1>5. CASE o \notin Active(r)
  BY <1>1, <1>2, <1>3, <1>5, BookedKept
<1> QED
  BY <1>4, <1>5

-----------------------------------------------------------------------------
(* The inductive invariant: the orders' states *)

OrdersSound == LiquidityRestored /\ UnadmittedEmpty

LEMMA WithdrawOrders ==
  ASSUME TypeOK, OrdersSound, NEW o \in Orders, NEW final, final # "none",
         ostate[o] # "none", Withdraw(o, final), UNCHANGED filled,
         o \in hidden' \/ o \in blocked',
         hidden \subseteq hidden', blocked \subseteq blocked'
  PROVE  OrdersSound'
<1>1. CASE Submitted(o)
  BY <1>1 DEF Withdraw, OrdersSound, LiquidityRestored, UnadmittedEmpty, Holders, FillState
<1>2. CASE ~Submitted(o)
  <2>1. /\ ostate' = [ostate EXCEPT ![o] = final]
        /\ rsv' = [r \in Routes |->
             IF r \in Holders(o) THEN [rsv[r] EXCEPT ![o] = "RELEASED"] ELSE rsv[r]]
    BY <1>2 DEF Withdraw
  <2>2. UnadmittedEmpty'
    BY <2>1 DEF OrdersSound, UnadmittedEmpty, TypeOK
  <2>3. ASSUME NEW x \in Orders, x # o
        PROVE  ostate'[x] = ostate[x] /\ Holders(x)' = Holders(x)
    BY <2>1, <2>3 DEF TypeOK, Holders
  <2>4. ASSUME NEW n PROVE \A x \in Orders : FillState(x, n)' = FillState(x, n)
    BY DEF FillState
  <2>5. LiquidityRestored'
    BY <2>3, <2>4 DEF OrdersSound, LiquidityRestored
  <2> QED
    BY <2>2, <2>5 DEF OrdersSound
<1> QED
  BY <1>1, <1>2

LEMMA ReleaseOrders ==
  ASSUME TypeOK, BooksBalance, OrdersSound, NEW r \in Routes, Release(r)
  PROVE  OrdersSound'
<1>1. ASSUME NEW o \in Orders
      PROVE  /\ ostate'[o] = IF o \in Active(r) THEN Restored(o) ELSE ostate[o]
             /\ Holders(o)' = IF o \in Active(r) THEN {} ELSE Holders(o)
             /\ Restored(o) # "none"
             /\ o \notin hidden /\ o \notin blocked =>
                  Restored(o) = FillState(o, filled[o])
  BY ReleaseHolders, RestoredParts DEF Release
<1>2. UNCHANGED <<filled, hidden, blocked>>
  BY DEF Release
<1>3. UnadmittedEmpty'
  BY <1>1, <1>2 DEF OrdersSound, UnadmittedEmpty
<1>4. LiquidityRestored'
  BY <1>1, <1>2 DEF OrdersSound, LiquidityRestored, FillState
<1> QED
  BY <1>3, <1>4 DEF OrdersSound

LEMMA ReserveOrders ==
  ASSUME TypeOK, BooksBalance, OrdersSound, NEW r \in Routes, NEW inWindow,
         NEW take \in [Orders -> 0..Want[r]],
         Greedy({o \in inWindow : Matchable(o)}, Want[r], take), Reserve(r, take),
         \A o \in Orders : rsv[r][o] = "none"
  PROVE  OrdersSound'
<1>1. ASSUME NEW o \in Orders
      PROVE  /\ ostate'[o] = IF take[o] > 0 THEN "RESERVED" ELSE ostate[o]
             /\ Holders(o)' = IF take[o] > 0 THEN {r} ELSE Holders(o)
  BY ReserveHolders DEF Reserve
<1>2. UNCHANGED <<filled, hidden, blocked>>
  BY DEF Reserve
<1>3. UnadmittedEmpty'
  BY <1>1, <1>2 DEF OrdersSound, UnadmittedEmpty
<1>4. LiquidityRestored'
  BY <1>1, <1>2 DEF OrdersSound, LiquidityRestored, FillState
<1> QED
  BY <1>3, <1>4 DEF OrdersSound

LEMMA FillOrders ==
  ASSUME TypeOK, BooksBalance, OrdersSound, NEW r \in Routes, Fill(r)
  PROVE  OrdersSound'
<1>1. ASSUME NEW o \in Orders
      PROVE  /\ ostate'[o] = IF o \in Active(r)
                             THEN FillState(o, filled[o] + qty[r][o]) ELSE ostate[o]
             /\ filled'[o] = IF o \in Active(r) THEN filled[o] + qty[r][o] ELSE filled[o]
             /\ Holders(o)' = IF o \in Active(r) THEN {} ELSE Holders(o)
  BY FillHolders DEF Fill
<1>2. ASSUME NEW o \in Orders PROVE FillState(o, filled[o] + qty[r][o]) # "none"
  BY DEF FillState
<1>3. UNCHANGED <<hidden, blocked>>
  BY DEF Fill
<1>4. UnadmittedEmpty'
  BY <1>1, <1>2 DEF OrdersSound, UnadmittedEmpty
<1>5. ASSUME NEW n PROVE \A x \in Orders : FillState(x, n)' = FillState(x, n)
  BY DEF FillState
<1>6. LiquidityRestored'
  <2> SUFFICES ASSUME NEW o \in Orders, ostate'[o] # "none", Holders(o)' = {},
                      o \notin hidden, o \notin blocked
               PROVE  ostate'[o] = FillState(o, filled'[o])
    BY <1>3 DEF LiquidityRestored, FillState
  <2>1. CASE o \in Active(r)
    BY <1>1, <2>1
  <2>2. CASE o \notin Active(r)
    BY <1>1, <2>2 DEF OrdersSound, LiquidityRestored
  <2> QED
    BY <2>1, <2>2
<1> QED
  BY <1>4, <1>6 DEF OrdersSound

-----------------------------------------------------------------------------
(* The inductive invariant: the routes and the calls on them *)

RoutesSound == (\A r \in Routes : Resolved(r)) /\ RouteTold

(* A step that gives reservations up, or takes none, keeps what is said of *)
(* the routes whose row and outcome it leaves alone.                       *)
LEMMA GivingUpRoutes ==
  ASSUME RoutesSound, UNCHANGED <<chain, recorded>>,
         \A r \in Routes, o \in Orders :
           rsv'[r][o] = rsv[r][o] \/ (rsv[r][o] = "ACTIVE" /\ rsv'[r][o] = "RELEASED"),
         \A r \in Routes :
           rstate'[r] = rstate[r] \/ rstate'[r] \in {"RELEASED", "EXPIRED"}
  PROVE  RoutesSound'
<1>1. ASSUME NEW r \in Routes PROVE Resolved(r)'
  BY DEF RoutesSound, Resolved, Active
<1>2. RouteTold'
  <2> SUFFICES ASSUME NEW r \in Routes
               PROVE  /\ rstate'[r] = "CONFIRMED" =>
                           /\ chain'[r] = "settled" /\ r \in recorded'
                           /\ \A o \in Orders : rsv'[r][o] \in {"none", "CONSUMED"}
                      /\ rstate'[r] = "FAILED" =>
                           chain'[r] = "reverted" /\ Active(r)' = {}
    BY DEF RouteTold
  <2> QED
    BY DEF RoutesSound, RouteTold, Active
<1> QED
  BY <1>1, <1>2 DEF RoutesSound

(* What a call relies on is kept by a step of another call that neither    *)
(* touches this call's route nor starts a call on it.                      *)
LEMMA OtherCallKept ==
  ASSUME TypeOK, NEW p \in Procs, CallSound(p), op'[p] = op[p],
         recorded \subseteq recorded',
         \A r \in Routes : chain[r] \in {"settled", "reverted"} => chain'[r] = chain[r],
         op[p] # Idle /\ op[p].step = "reserve" =>
           \A o \in Orders : rsv'[op[p].route][o] = "none",
         op[p] # Idle /\ op[p].step \in {"reserve", "insert"} =>
           rstate'[op[p].route] = "none",
         op[p] # Idle /\ op[p].step \in {"reserve", "insert"} => Sole(p)'
  PROVE  CallSound(p)'
<1>1. op[p] # Idle => op[p].route \in Routes
  BY CallParts
<1>2. \A s : At(p, s)' <=> At(p, s)
  BY DEF At
<1>3. CASE op[p] = Idle
  BY <1>3 DEF CallSound, At
<1>4. CASE op[p] # Idle
  BY <1>1, <1>2, <1>4 DEF CallSound, At
<1> QED
  BY <1>3, <1>4

(* When no call starts, no call on its way loses its route to another.     *)
LEMMA SoleKept ==
  ASSUME NEW p \in Procs, Sole(p), op'[p] = op[p],
         \A q \in Procs : op'[q] # Idle => op[q] # Idle /\ op'[q].route = op[q].route
  PROVE  Sole(p)'
BY DEF Sole

(* An idle process has no call to be wrong about. *)
LEMMA IdleSound == ASSUME NEW p \in Procs, op'[p] = Idle PROVE CallSound(p)'
BY DEF CallSound, At

(* A step that only gives reservations up, of whatever routes, keeps what  *)
(* the calls rely on.                                                      *)
LEMMA GivingUpCalls ==
  ASSUME TypeOK, NEW p \in Procs, CallSound(p), op'[p] = op[p],
         \A q \in Procs : op'[q] # Idle => op[q] # Idle /\ op'[q].route = op[q].route,
         recorded \subseteq recorded', UNCHANGED chain,
         \A r \in Routes, o \in Orders :
           rsv'[r][o] = rsv[r][o] \/ rsv[r][o] = "ACTIVE",
         \A r \in Routes : rstate[r] = "none" => rstate'[r] = "none"
  PROVE  CallSound(p)'
<1>1. op[p] # Idle => op[p].route \in Routes
  BY CallParts
<1>2. op[p] # Idle /\ op[p].step = "reserve" =>
        \A o \in Orders : rsv'[op[p].route][o] = "none"
  <2> SUFFICES ASSUME op[p] # Idle, op[p].step = "reserve", NEW o \in Orders
               PROVE  rsv'[op[p].route][o] = "none"
    OBVIOUS
  <2>1. rsv[op[p].route][o] = "none"
    BY DEF CallSound, At
  <2> QED
    BY <1>1, <2>1
<1>3. op[p] # Idle /\ op[p].step \in {"reserve", "insert"} =>
        rstate[op[p].route] = "none" /\ Sole(p)
  BY DEF CallSound, At
<1>4. op[p] # Idle /\ op[p].step \in {"reserve", "insert"} => Sole(p)'
  BY <1>3, SoleKept
<1> QED
  BY <1>1, <1>2, <1>3, <1>4, OtherCallKept

-----------------------------------------------------------------------------
(* The inductive invariant: one lemma per operation *)

LEMMA InductiveParts ==
  Inductive <=> BooksBalance /\ OrdersSound /\ RoutesSound /\ \A p \in Procs : CallSound(p)
BY DEF Inductive, OrdersSound, RoutesSound

(* The orders' half does not look at routes, calls or outcomes.            *)
LEMMA OrdersKept ==
  ASSUME BooksBalance, OrdersSound,
         UNCHANGED <<ostate, filled, filledBuy, reserved, hidden, blocked, rsv, qty, pay>>
  PROVE  BooksBalance' /\ OrdersSound'
BY DEF BooksBalance, Booked, Holders, PriceOf, OrdersSound, LiquidityRestored,
       UnadmittedEmpty, FillState

LEMMA RoutesKept ==
  ASSUME RoutesSound, UNCHANGED <<rsv, rstate, recorded, chain>>
  PROVE  RoutesSound'
BY DEF RoutesSound, Resolved, RouteTold, Active

LEMMA AdmitSound ==
  ASSUME TypeOK, Inductive, NEW p \in Procs, NEW o \in Orders, AdmitOrder(p, o)
  PROVE  Inductive'
<1>1. /\ ostate[o] = "none" /\ ostate' = [ostate EXCEPT ![o] = "OPEN"]
      /\ UNCHANGED <<filled, filledBuy, reserved, hidden, blocked, rsv, qty, pay,
                     recorded, rstate, op, chain>>
  BY DEF AdmitOrder
<1>2. BooksBalance'
  BY <1>1 DEF Inductive, BooksBalance, Booked, Holders, PriceOf
<1>3. \A x \in Orders : ostate'[x] = IF x = o THEN "OPEN" ELSE ostate[x]
  BY <1>1 DEF TypeOK
<1>4. filled[o] = 0 /\ FillState(o, 0) = "OPEN"
  BY <1>1, FillStateParts DEF Inductive, UnadmittedEmpty
<1>5. UnadmittedEmpty'
  BY <1>1, <1>3 DEF Inductive, UnadmittedEmpty
<1>6. ASSUME NEW n PROVE \A x \in Orders : FillState(x, n)' = FillState(x, n)
  BY DEF FillState
<1>7. \A x \in Orders : Holders(x)' = Holders(x)
  BY <1>1 DEF Holders
<1>8. LiquidityRestored'
  <2> SUFFICES ASSUME NEW x \in Orders, ostate'[x] # "none", Holders(x)' = {},
                      x \notin hidden', x \notin blocked'
               PROVE  ostate'[x] = FillState(x, filled'[x])
    BY DEF LiquidityRestored, FillState
  <2> QED
    BY <1>1, <1>3, <1>4, <1>7 DEF Inductive, LiquidityRestored
<1>9. RoutesSound'
  BY <1>1, InductiveParts, RoutesKept
<1>10. \A q \in Procs : CallSound(q)'
  BY <1>1 DEF Inductive, CallSound, At, Sole
<1> QED
  BY <1>2, <1>5, <1>8, <1>9, <1>10 DEF Inductive, RoutesSound

(* Withdrawing an order from its route, whatever the caller does next.     *)
LEMMA WithdrawSound ==
  ASSUME TypeOK, Inductive, NEW p \in Procs, NEW o \in Orders,
         NEW final \in {"CANCELLED", "POLICY_BLOCKED"}, ostate[o] # "none",
         Withdraw(o, final), UNCHANGED <<filled, filledBuy, qty, pay, recorded, chain>>,
         o \in hidden' \/ o \in blocked',
         hidden \subseteq hidden', blocked \subseteq blocked',
         Return(p) \/ UNCHANGED op
  PROVE  Inductive'
<1>1. /\ BooksBalance /\ OrdersSound /\ RoutesSound
      /\ \A q \in Procs : CallSound(q)
  BY InductiveParts
<1>2. BooksBalance' /\ OrdersSound'
  BY <1>1, WithdrawBooks, WithdrawOrders
<1>3. \A r \in Routes, x \in Orders :
        rsv'[r][x] = rsv[r][x] \/ (rsv[r][x] = "ACTIVE" /\ rsv'[r][x] = "RELEASED")
  BY DEF Withdraw, TypeOK, Holders
<1>4. \A r \in Routes :
        rstate'[r] = rstate[r] \/ (rstate[r] = "RESERVED" /\ rstate'[r] = "RELEASED")
  BY DEF Withdraw, TypeOK
<1>5. RoutesSound'
  BY <1>1, <1>3, <1>4, GivingUpRoutes
<1>6. ASSUME NEW q \in Procs PROVE CallSound(q)'
  <2>1. \A x \in Procs : op'[x] = op[x] \/ (x = p /\ op'[x] = Idle)
    BY DEF Return, TypeOK
  <2>2. CASE op'[q] = op[q]
    BY <1>1, <1>3, <1>4, <2>1, <2>2, GivingUpCalls
  <2>3. CASE op'[q] = Idle
    BY <2>3, IdleSound
  <2> QED
    BY <2>1, <2>2, <2>3
<1> QED
  BY <1>2, <1>5, <1>6, InductiveParts DEF Inductive, OrdersSound, RoutesSound

LEMMA BlockSound ==
  ASSUME TypeOK, Inductive, NEW p \in Procs, NEW o \in Orders, Block(o),
         Return(p) \/ UNCHANGED op
  PROVE  Inductive'
BY WithdrawSound DEF Block

LEMMA OrderStepSound ==
  ASSUME TypeOK, Inductive, NEW p \in Procs, NEW o \in Orders, OrderStep(p, o)
  PROVE  Inductive'
<1>1. CASE AdmitOrder(p, o)
  BY <1>1, AdmitSound
<1>2. CASE BlockOrder(p, o) \/ RevalidatePair(p, o) \/ RevalidateReserved(p, o)
  BY <1>2, BlockSound DEF BlockOrder, RevalidatePair, RevalidateReserved
<1>3. CASE CancelOrder(p, o)
  BY <1>3, WithdrawSound DEF CancelOrder
<1> QED
  BY <1>1, <1>2, <1>3 DEF OrderStep

(* Starting a call. *)
LEMMA RouteStartSound ==
  ASSUME TypeOK, Inductive, NEW p \in Procs, NEW r \in Routes, RouteStart(p, r)
  PROVE  Inductive'
<1>1. /\ BooksBalance /\ OrdersSound /\ RoutesSound
      /\ \A q \in Procs : CallSound(q)
  BY InductiveParts
<1>2. UNCHANGED <<ostate, filled, filledBuy, reserved, hidden, blocked, rsv, qty, pay,
                  recorded, rstate, chain>>
  BY DEF RouteStart, ReserveStart, SubmitStart, ReleaseStart, ConfirmStart,
         FailStart, marketVars, orderVars
<1>3. BooksBalance' /\ OrdersSound' /\ RoutesSound'
  BY <1>1, <1>2, OrdersKept, RoutesKept
<1>4. PICK s \in Steps :
        /\ Begin(p, s, r)
        /\ s = "reserve" =>
             /\ rstate[r] = "none" /\ \A o \in Orders : rsv[r][o] = "none"
             /\ \A q \in Procs : op[q] # Idle => op[q].route # r
        /\ s # "reserve" => rstate[r] # "none"
        /\ s = "confirm" => chain[r] = "settled"
        /\ s = "fail" => chain[r] = "reverted"
        /\ s \in {"reserve", "submit", "release", "confirm", "fail"}
  BY DEF RouteStart, ReserveStart, SubmitStart, ReleaseStart, ConfirmStart,
         FailStart, Releasable, Steps
<1>5. /\ op[p] = Idle /\ op'[p] # Idle /\ op'[p].step = s /\ op'[p].route = r
      /\ \A q \in Procs : q # p => op'[q] = op[q]
  BY <1>4, BeginIsCall DEF Begin
<1>6. CallSound(p)'
  BY <1>2, <1>4, <1>5 DEF CallSound, At, Sole
<1>7. ASSUME NEW q \in Procs, q # p PROVE CallSound(q)'
  <2>1. op[q] # Idle /\ op[q].step \in {"reserve", "insert"} =>
          rstate[op[q].route] = "none" /\ Sole(q)
    BY <1>1 DEF CallSound, At
  <2>2. op[q] # Idle /\ op[q].step \in {"reserve", "insert"} => op[q].route # r
    BY <1>4, <1>7, <2>1
  <2>3. op[q] # Idle /\ op[q].step \in {"reserve", "insert"} => Sole(q)'
    BY <1>5, <1>7, <2>1, <2>2 DEF Sole
  <2>4. op[q] # Idle /\ op[q].step = "reserve" =>
          \A o \in Orders : rsv[op[q].route][o] = "none"
    BY <1>1 DEF CallSound, At
  <2> QED
    BY <1>1, <1>2, <1>5, <1>7, <2>1, <2>3, <2>4, OtherCallKept
<1> QED
  BY <1>3, <1>6, <1>7 DEF Inductive, OrdersSound, RoutesSound

(* A call that goes on or returns leaves the other calls and their routes. *)
LEMMA CallStepOps ==
  ASSUME TypeOK, NEW p \in Procs, op[p] # Idle,
         (\E s \in Steps : Go(p, s)) \/ Return(p)
  PROVE  /\ \A q \in Procs : q # p => op'[q] = op[q]
         /\ \A q \in Procs : op'[q] # Idle => op[q] # Idle /\ op'[q].route = op[q].route
BY GoIsCall, ReturnIsCall

(* Reserving: the market's transaction of reserveExactOutput.              *)
LEMMA ReserveMarketSound ==
  ASSUME TypeOK, Inductive, NEW p \in Procs, ReserveMarket(p)
  PROVE  Inductive'
<1>1. /\ BooksBalance /\ OrdersSound /\ RoutesSound
      /\ \A q \in Procs : CallSound(q)
  BY InductiveParts
<1>2. PICK r \in Routes : r = op[p].route
  BY CallParts DEF ReserveMarket, At
<1>3. /\ op[p] # Idle /\ op[p].step = "reserve"
      /\ \A o \in Orders : rsv[r][o] = "none"
      /\ rstate[r] = "none" /\ Sole(p) /\ chain[r] = "idle"
  BY <1>1, <1>2 DEF ReserveMarket, CallSound, At, RoutesSound, Resolved
<1>4. UNCHANGED <<rstate, chain>>
  BY DEF ReserveMarket
<1>5. CASE Return(p) /\ UNCHANGED marketVars
  <2>1. BooksBalance' /\ OrdersSound' /\ RoutesSound'
    BY <1>1, <1>4, <1>5, OrdersKept, RoutesKept DEF marketVars, orderVars
  <2>2. ASSUME NEW q \in Procs PROVE CallSound(q)'
    <3>1. CASE q = p
      BY <1>5, <3>1, ReturnIsCall, IdleSound
    <3>2. CASE q # p
      BY <1>1, <1>3, <1>4, <1>5, <3>2, CallStepOps, GivingUpCalls DEF marketVars, orderVars
    <3> QED
      BY <3>1, <3>2
  <2> QED
    BY <2>1, <2>2 DEF Inductive, OrdersSound, RoutesSound
<1>6. ASSUME NEW inWindow \in SUBSET Orders, NEW take \in [Orders -> 0..Want[r]],
             Greedy({o \in inWindow : Matchable(o)}, Want[r], take),
             Go(p, "insert"), Reserve(r, take)
      PROVE  Inductive'
  <2>1. BooksBalance' /\ OrdersSound'
    BY <1>1, <1>3, <1>6, ReserveBooks, ReserveOrders
  <2>2. \A x \in Routes, o \in Orders :
          rsv'[x][o] = IF x # r THEN rsv[x][o]
                       ELSE IF take[o] > 0 THEN "ACTIVE" ELSE "none"
    BY <1>6 DEF Reserve, TypeOK
  <2>3. recorded' = recorded
    BY <1>6 DEF Reserve
  <2>4. RoutesSound'
    <3>1. ASSUME NEW x \in Routes PROVE Resolved(x)'
      <4>1. CASE x = r
        BY <1>1, <1>3, <1>4, <2>2, <2>3, <4>1 DEF RoutesSound, Resolved
      <4>2. CASE x # r
        BY <1>1, <1>4, <2>2, <2>3, <4>2 DEF RoutesSound, Resolved, Active
      <4> QED
        BY <4>1, <4>2
    <3>2. RouteTold'
      BY <1>1, <1>3, <1>4, <2>2, <2>3 DEF RoutesSound, RouteTold, Active
    <3> QED
      BY <3>1, <3>2 DEF RoutesSound
  <2>5. "insert" \in Steps
    BY DEF Steps
  <2>6. /\ op'[p] # Idle /\ op'[p].step = "insert" /\ op'[p].route = r
        /\ \A q \in Procs : q # p => op'[q] = op[q]
    BY <1>2, <1>3, <1>6, <2>5, GoIsCall
  <2>7. CallSound(p)'
    BY <1>2, <1>3, <1>4, <2>6 DEF CallSound, At, Sole
  <2>8. ASSUME NEW q \in Procs, q # p PROVE CallSound(q)'
    <3>1. op[q] # Idle => op[q].route \in Routes /\ op[q].route # r
      BY <1>2, <1>3, <2>8, CallParts DEF Sole
    <3>2. op[q] # Idle /\ op[q].step \in {"reserve", "insert"} =>
            rstate[op[q].route] = "none" /\ Sole(q)
      BY <1>1 DEF CallSound, At
    <3>3. op[q] # Idle /\ op[q].step = "reserve" =>
            \A o \in Orders : rsv[op[q].route][o] = "none"
      BY <1>1 DEF CallSound, At
    <3>4. \A x \in Procs : op'[x] # Idle => op[x] # Idle /\ op'[x].route = op[x].route
      BY <1>2, <1>3, <2>6
    <3>5. op[q] # Idle /\ op[q].step \in {"reserve", "insert"} => Sole(q)'
      BY <2>6, <2>8, <3>2, <3>4, SoleKept
    <3> QED
      BY <1>1, <1>4, <2>2, <2>3, <2>6, <2>8, <3>1, <3>2, <3>3, <3>5, OtherCallKept
  <2> QED
    BY <2>1, <2>4, <2>7, <2>8 DEF Inductive, OrdersSound, RoutesSound
<1> QED
  BY <1>2, <1>5, <1>6 DEF ReserveMarket

(* Giving reservations back, from any of the calls that do; what the call  *)
(* goes on to is left to the lemma of the operation.                       *)
LEMMA ReleaseKeeps ==
  ASSUME TypeOK, Inductive, NEW p \in Procs, op[p] # Idle,
         (\E s \in Steps : Go(p, s)) \/ Return(p),
         NEW r \in Routes, Release(r), UNCHANGED <<rstate, chain>>,
         recorded' = recorded \/ (recorded' = recorded \cup {r} /\ chain[r] = "reverted")
  PROVE  /\ BooksBalance' /\ OrdersSound' /\ RoutesSound'
         /\ \A q \in Procs : q # p => CallSound(q)'
<1>1. /\ BooksBalance /\ OrdersSound /\ RoutesSound
      /\ \A q \in Procs : CallSound(q)
  BY InductiveParts
<1>2. BooksBalance' /\ OrdersSound'
  BY <1>1, ReleaseBooks, ReleaseOrders
<1>3. \A x \in Routes, o \in Orders :
        rsv'[x][o] = IF x = r /\ rsv[x][o] = "ACTIVE" THEN "RELEASED" ELSE rsv[x][o]
  BY DEF Release, TypeOK, Active
<1>4. ASSUME NEW x \in Routes PROVE Resolved(x)'
  BY <1>1, <1>3 DEF RoutesSound, Resolved, Active
<1>5. RouteTold'
  <2> SUFFICES ASSUME NEW x \in Routes
               PROVE  /\ rstate'[x] = "CONFIRMED" =>
                           /\ chain'[x] = "settled" /\ x \in recorded'
                           /\ \A o \in Orders : rsv'[x][o] \in {"none", "CONSUMED"}
                      /\ rstate'[x] = "FAILED" =>
                           chain'[x] = "reverted" /\ Active(x)' = {}
    BY DEF RouteTold
  <2> QED
    BY <1>1, <1>3 DEF RoutesSound, RouteTold, Active
<1>6. ASSUME NEW q \in Procs, q # p PROVE CallSound(q)'
  BY <1>1, <1>3, <1>6, CallStepOps, GivingUpCalls
<1> QED
  BY <1>2, <1>4, <1>5, <1>6 DEF RoutesSound

(* A call that returns leaves nothing to say of it. *)
LEMMA ReturnSound ==
  ASSUME TypeOK, NEW p \in Procs, Return(p),
         BooksBalance', OrdersSound', RoutesSound',
         \A q \in Procs : q # p => CallSound(q)'
  PROVE  Inductive'
<1>1. CallSound(p)'
  BY ReturnIsCall, IdleSound
<1> QED
  BY <1>1 DEF Inductive, OrdersSound, RoutesSound

(* A step that writes the row of one route and leaves the market alone.    *)
LEMMA MarkSound ==
  ASSUME TypeOK, Inductive, NEW p \in Procs, op[p] # Idle,
         (\E s \in Steps : Go(p, s)) \/ Return(p),
         NEW r \in Routes, r = op[p].route, UNCHANGED marketVars,
         NEW mark \in RouteStates, rstate' = [rstate EXCEPT ![r] = mark],
         \A x \in Routes : chain[x] \in {"settled", "reverted"} => chain'[x] = chain[x],
         RoutesSound',
         \A q \in Procs : q # p /\ op[q] # Idle
           /\ op[q].step \in {"reserve", "insert"} => op[q].route # r
  PROVE  /\ BooksBalance' /\ OrdersSound'
         /\ \A q \in Procs : q # p => CallSound(q)'
<1>1. /\ BooksBalance /\ OrdersSound /\ RoutesSound
      /\ \A q \in Procs : CallSound(q)
  BY InductiveParts
<1>2. BooksBalance' /\ OrdersSound'
  BY <1>1, OrdersKept DEF marketVars, orderVars
<1>3. ASSUME NEW q \in Procs, q # p PROVE CallSound(q)'
  <2>1. op[q] # Idle => op[q].route \in Routes
    BY CallParts
  <2>2. op[q] # Idle /\ op[q].step \in {"reserve", "insert"} =>
          rstate[op[q].route] = "none" /\ Sole(q)
    BY <1>1 DEF CallSound, At
  <2>3. op[q] # Idle /\ op[q].step \in {"reserve", "insert"} => Sole(q)'
    BY <1>3, <2>2, CallStepOps, SoleKept
  <2>4. op[q] # Idle /\ op[q].step = "reserve" =>
          \A o \in Orders : rsv'[op[q].route][o] = "none"
    BY <1>1 DEF CallSound, At, marketVars
  <2>5. op[q] # Idle /\ op[q].step \in {"reserve", "insert"} =>
          rstate'[op[q].route] = "none"
    BY <1>3, <2>1, <2>2 DEF TypeOK
  <2>6. op'[q] = op[q] /\ recorded' = recorded
    BY <1>3, CallStepOps DEF marketVars
  <2> QED
    BY <1>1, <2>3, <2>4, <2>5, <2>6, OtherCallKept
<1> QED
  BY <1>2, <1>3

(* A route that is being reserved belongs to the call that reserves it.    *)
LEMMA OnlyReserver ==
  ASSUME Inductive, NEW p \in Procs, op[p] # Idle
  PROVE  \A q \in Procs : q # p /\ op[q] # Idle
           /\ op[q].step \in {"reserve", "insert"} => op[q].route # op[p].route
BY DEF Inductive, CallSound, At, Sole

LEMMA InsertRouteSound ==
  ASSUME TypeOK, Inductive, NEW p \in Procs, InsertRoute(p)
  PROVE  Inductive'
<1>1. PICK r \in Routes : r = op[p].route
  BY CallParts DEF InsertRoute, At
<1>2. /\ op[p] # Idle /\ Return(p) /\ UNCHANGED chain
      /\ rstate[r] = "none" /\ chain[r] = "idle"
  BY <1>1 DEF InsertRoute, Inductive, CallSound, Resolved, At
<1>3. CASE Release(r) /\ UNCHANGED <<recorded, rstate>>
  BY <1>2, <1>3, ReleaseKeeps, ReturnSound
<1>4. CASE rstate' = [rstate EXCEPT ![r] = "RESERVED"] /\ UNCHANGED marketVars
  <2>1. RoutesSound'
    BY <1>2, <1>4 DEF Inductive, RoutesSound, Resolved, RouteTold, Active,
                      marketVars, orderVars, TypeOK
  <2>2. "RESERVED" \in RouteStates
    BY DEF RouteStates
  <2> QED
    BY <1>1, <1>2, <1>4, <2>1, <2>2, OnlyReserver, MarkSound, ReturnSound
<1> QED
  BY <1>1, <1>3, <1>4 DEF InsertRoute

LEMMA SubmitRouteSound ==
  ASSUME TypeOK, Inductive, NEW p \in Procs, SubmitRoute(p)
  PROVE  Inductive'
<1>1. PICK r \in Routes : r = op[p].route
  BY CallParts DEF SubmitRoute, At
<1>2. op[p] # Idle /\ Return(p) /\ UNCHANGED marketVars
  BY DEF SubmitRoute, At
<1>3. CASE rstate[r] = "RESERVED"
  <2>1. /\ rstate' = [rstate EXCEPT ![r] = "SUBMITTED"]
        /\ chain' = [chain EXCEPT ![r] = "pending"]
    BY <1>1, <1>3 DEF SubmitRoute
  <2>2. chain[r] = "idle"
    BY <1>3 DEF Inductive, Resolved
  <2>3. RoutesSound'
    BY <1>2, <1>3, <2>1, <2>2 DEF Inductive, RoutesSound, Resolved, RouteTold, Active,
                                  marketVars, orderVars, TypeOK
  <2>4. "SUBMITTED" \in RouteStates
        /\ \A x \in Routes : chain[x] \in {"settled", "reverted"} => chain'[x] = chain[x]
    BY <2>1, <2>2 DEF RouteStates, TypeOK
  <2> QED
    BY <1>1, <1>2, <2>1, <2>3, <2>4, OnlyReserver, MarkSound, ReturnSound
<1>4. CASE rstate[r] # "RESERVED"
  <2>1. UNCHANGED <<rstate, chain>>
    BY <1>1, <1>4 DEF SubmitRoute
  <2>2. /\ BooksBalance /\ OrdersSound /\ RoutesSound
        /\ \A q \in Procs : CallSound(q)
    BY InductiveParts
  <2>3. BooksBalance' /\ OrdersSound' /\ RoutesSound'
    BY <1>2, <2>1, <2>2, OrdersKept, RoutesKept DEF marketVars, orderVars
  <2>4. \A q \in Procs : q # p => CallSound(q)'
    BY <1>2, <2>1, <2>2, CallStepOps, GivingUpCalls DEF marketVars, orderVars
  <2> QED
    BY <1>2, <2>3, <2>4, ReturnSound
<1> QED
  BY <1>3, <1>4

LEMMA ReleaseMarketSound ==
  ASSUME TypeOK, Inductive, NEW p \in Procs, ReleaseMarket(p)
  PROVE  Inductive'
<1>1. PICK r \in Routes : r = op[p].route
  BY CallParts DEF ReleaseMarket, At
<1>2. /\ op[p] # Idle /\ Go(p, "released") /\ "released" \in Steps
      /\ Release(r) /\ UNCHANGED <<recorded, rstate, chain>>
  BY <1>1 DEF ReleaseMarket, At, Steps
<1>3. CallSound(p)'
  BY <1>2, GoIsCall DEF CallSound, At
<1>4. /\ BooksBalance' /\ OrdersSound' /\ RoutesSound'
      /\ \A q \in Procs : q # p => CallSound(q)'
  BY <1>2, ReleaseKeeps
<1> QED
  BY <1>3, <1>4 DEF Inductive, OrdersSound, RoutesSound

LEMMA ReleaseMarkSound ==
  ASSUME TypeOK, Inductive, NEW p \in Procs, ReleaseMark(p)
  PROVE  Inductive'
<1>1. PICK r \in Routes : r = op[p].route
  BY CallParts DEF ReleaseMark, At
<1>2. PICK final \in {"RELEASED", "EXPIRED"} : rstate' = [rstate EXCEPT ![r] = final]
  BY <1>1 DEF ReleaseMark
<1>3. op[p] # Idle /\ Return(p) /\ UNCHANGED marketVars /\ UNCHANGED chain
  BY DEF ReleaseMark, At
<1>4. RoutesSound'
  BY <1>2, <1>3 DEF Inductive, RoutesSound, Resolved, RouteTold, Active,
                    marketVars, orderVars, TypeOK
<1>5. final \in RouteStates
  BY DEF RouteStates
<1>6. \A q \in Procs : q # p /\ op[q] # Idle
        /\ op[q].step \in {"reserve", "insert"} => op[q].route # r
  BY <1>1, <1>3, OnlyReserver
<1>7. \A x \in Routes : chain[x] \in {"settled", "reverted"} => chain'[x] = chain[x]
  BY <1>3
<1>8. /\ BooksBalance' /\ OrdersSound'
      /\ \A q \in Procs : q # p => CallSound(q)'
  BY <1>1, <1>2, <1>3, <1>4, <1>5, <1>6, <1>7, MarkSound
<1> QED
  BY <1>3, <1>4, <1>8, ReturnSound

(* Booking a settled execution: the market's transaction of confirmRoute.  *)
LEMMA ConfirmMarketSound ==
  ASSUME TypeOK, Inductive, NEW p \in Procs, ConfirmMarket(p)
  PROVE  Inductive'
<1>1. PICK r \in Routes : r = op[p].route
  BY CallParts DEF ConfirmMarket, At
<1>2. /\ op[p] # Idle /\ UNCHANGED rstate /\ UNCHANGED chain /\ chain[r] = "settled"
      /\ "confirmed" \in Steps
  BY <1>1 DEF ConfirmMarket, Inductive, CallSound, At, Steps
<1>3. /\ BooksBalance /\ OrdersSound /\ RoutesSound
      /\ \A q \in Procs : CallSound(q)
  BY InductiveParts
<1>4. CASE UNCHANGED marketVars /\ (Return(p) \/ (Go(p, "confirmed") /\ r \in recorded))
  <2>1. BooksBalance' /\ OrdersSound' /\ RoutesSound'
    BY <1>2, <1>3, <1>4, OrdersKept, RoutesKept DEF marketVars, orderVars
  <2>2. \A q \in Procs : q # p => CallSound(q)'
    BY <1>2, <1>3, <1>4, CallStepOps, GivingUpCalls DEF marketVars, orderVars
  <2>3. CASE Return(p)
    BY <2>1, <2>2, <2>3, ReturnSound
  <2>4. CASE Go(p, "confirmed") /\ r \in recorded
    <3>1. op'[p] # Idle /\ op'[p].step = "confirmed" /\ op'[p].route = r
      BY <1>1, <1>2, <2>4, GoIsCall
    <3>2. CallSound(p)'
      BY <1>2, <1>4, <2>4, <3>1 DEF CallSound, At, marketVars
    <3> QED
      BY <2>1, <2>2, <3>2 DEF Inductive, OrdersSound, RoutesSound
  <2> QED
    BY <1>4, <2>3, <2>4
<1>5. CASE ~Duplicate(r) /\ Matches(r) /\ WithinSigned(r) /\ Go(p, "confirmed") /\ Fill(r)
  <2>1. BooksBalance' /\ OrdersSound'
    BY <1>3, <1>5, FillBooks, FillOrders
  <2>2. \A x \in Routes, o \in Orders :
          rsv'[x][o] = IF x = r /\ rsv[x][o] = "ACTIVE" THEN "CONSUMED" ELSE rsv[x][o]
    BY <1>5 DEF Fill, TypeOK, Active, Spent
  <2>3. recorded' = recorded \cup {r}
    BY <1>5 DEF Fill
  <2>4. \A o \in Orders : rsv'[r][o] \in {"none", "CONSUMED"}
    BY <1>5, <2>2 DEF Matches
  <2>5. ASSUME NEW x \in Routes PROVE Resolved(x)'
    <3>1. CASE x = r
      BY <1>2, <1>3, <2>3, <2>4, <3>1 DEF RoutesSound, Resolved, Active
    <3>2. CASE x # r
      BY <1>2, <1>3, <2>2, <2>3, <3>2 DEF RoutesSound, Resolved, Active
    <3> QED
      BY <3>1, <3>2
  <2>6. RouteTold'
    <3> SUFFICES ASSUME NEW x \in Routes
                 PROVE  /\ rstate'[x] = "CONFIRMED" =>
                             /\ chain'[x] = "settled" /\ x \in recorded'
                             /\ \A o \in Orders : rsv'[x][o] \in {"none", "CONSUMED"}
                        /\ rstate'[x] = "FAILED" =>
                             chain'[x] = "reverted" /\ Active(x)' = {}
      BY DEF RouteTold
    <3> QED
      BY <1>2, <1>3, <2>2, <2>3 DEF RoutesSound, RouteTold, Active
  <2>7. op'[p] # Idle /\ op'[p].step = "confirmed" /\ op'[p].route = r
    BY <1>1, <1>2, <1>5, GoIsCall
  <2>8. CallSound(p)'
    BY <1>2, <2>3, <2>7 DEF CallSound, At
  <2>9. \A q \in Procs : q # p => CallSound(q)'
    BY <1>2, <1>3, <1>5, <2>2, <2>3, CallStepOps, GivingUpCalls
  <2> QED
    BY <2>1, <2>5, <2>6, <2>8, <2>9 DEF Inductive, OrdersSound, RoutesSound
<1> QED
  BY <1>1, <1>4, <1>5 DEF ConfirmMarket, Duplicate

LEMMA ConfirmMarkSound ==
  ASSUME TypeOK, Inductive, NEW p \in Procs, ConfirmMark(p)
  PROVE  Inductive'
<1>1. PICK r \in Routes : r = op[p].route
  BY CallParts DEF ConfirmMark, At
<1>2. /\ op[p] # Idle /\ Go(p, "normalize") /\ "normalize" \in Steps
      /\ rstate' = [rstate EXCEPT ![r] = "CONFIRMED"] /\ "CONFIRMED" \in RouteStates
      /\ UNCHANGED marketVars /\ UNCHANGED chain
  BY <1>1 DEF ConfirmMark, At, Steps, RouteStates
<1>3. chain[r] = "settled" /\ r \in recorded
      /\ \A o \in Orders : rsv[r][o] \in {"none", "CONSUMED"}
  BY <1>1 DEF ConfirmMark, Inductive, CallSound, Resolved, At
<1>4. RoutesSound'
  BY <1>2, <1>3 DEF Inductive, RoutesSound, Resolved, RouteTold, Active,
                    marketVars, orderVars, TypeOK
<1>5. /\ BooksBalance' /\ OrdersSound'
      /\ \A q \in Procs : q # p => CallSound(q)'
  BY <1>1, <1>2, <1>4, OnlyReserver, MarkSound
<1>6. CallSound(p)'
  BY <1>2, GoIsCall DEF CallSound, At
<1> QED
  BY <1>4, <1>5, <1>6 DEF Inductive, OrdersSound, RoutesSound

(* Orders withdrawn in flight are relabelled and nothing else changes.     *)
LEMMA NormalizeSound ==
  ASSUME TypeOK, Inductive, NEW p \in Procs, Normalize(p)
  PROVE  Inductive'
<1>1. /\ BooksBalance /\ OrdersSound /\ RoutesSound
      /\ \A q \in Procs : CallSound(q)
  BY InductiveParts
<1>2. /\ op[p] # Idle /\ Return(p)
      /\ UNCHANGED <<filled, filledBuy, reserved, hidden, blocked, rsv, qty, pay,
                     recorded, rstate, chain>>
  BY DEF Normalize, At
<1>3. BooksBalance'
  BY <1>1, <1>2 DEF BooksBalance, Booked, Holders, PriceOf
<1>4. ASSUME NEW o \in Orders
      PROVE  \/ ostate'[o] = ostate[o]
             \/ /\ o \in hidden \cup blocked /\ ostate'[o] # "none"
                /\ \E r \in Routes : rsv[r][o] # "none"
  BY CallParts DEF Normalize, At
<1>5. LiquidityRestored'
  <2> SUFFICES ASSUME NEW o \in Orders, ostate'[o] # "none", Holders(o)' = {},
                      o \notin hidden', o \notin blocked'
               PROVE  ostate'[o] = FillState(o, filled'[o])
    BY DEF LiquidityRestored, FillState
  <2>1. Holders(o)' = Holders(o)
    BY <1>2 DEF Holders
  <2> QED
    BY <1>1, <1>2, <1>4, <2>1 DEF OrdersSound, LiquidityRestored
<1>6. UnadmittedEmpty'
  BY <1>1, <1>2, <1>4 DEF OrdersSound, UnadmittedEmpty
<1>7. RoutesSound'
  BY <1>1, <1>2, RoutesKept
<1>8. \A q \in Procs : q # p => CallSound(q)'
  BY <1>1, <1>2, CallStepOps, GivingUpCalls
<1> QED
  BY <1>2, <1>3, <1>5, <1>6, <1>7, <1>8, ReturnSound DEF OrdersSound

LEMMA FailMarketSound ==
  ASSUME TypeOK, Inductive, NEW p \in Procs, FailMarket(p)
  PROVE  Inductive'
<1>1. PICK r \in Routes : r = op[p].route
  BY CallParts DEF FailMarket, At
<1>2. /\ op[p] # Idle /\ Go(p, "failed") /\ "failed" \in Steps
      /\ UNCHANGED rstate /\ UNCHANGED chain /\ chain[r] = "reverted"
  BY <1>1 DEF FailMarket, Inductive, CallSound, At, Steps
<1>3. op'[p] # Idle /\ op'[p].step = "failed" /\ op'[p].route = r
  BY <1>1, <1>2, GoIsCall
<1>4. CASE r \in recorded /\ UNCHANGED marketVars
  <2>1. /\ BooksBalance /\ OrdersSound /\ RoutesSound
        /\ \A q \in Procs : CallSound(q)
    BY InductiveParts
  <2>2. BooksBalance' /\ OrdersSound' /\ RoutesSound'
    BY <1>2, <1>4, <2>1, OrdersKept, RoutesKept DEF marketVars, orderVars
  <2>3. \A q \in Procs : q # p => CallSound(q)'
    BY <1>2, <1>4, <2>1, CallStepOps, GivingUpCalls DEF marketVars, orderVars
  <2>4. CallSound(p)'
    BY <1>2, <1>3, <1>4 DEF CallSound, At, marketVars
  <2> QED
    BY <2>2, <2>3, <2>4 DEF Inductive, OrdersSound, RoutesSound
<1>5. CASE Release(r) /\ recorded' = recorded \cup {r}
  <2>1. /\ BooksBalance' /\ OrdersSound' /\ RoutesSound'
        /\ \A q \in Procs : q # p => CallSound(q)'
    BY <1>2, <1>5, ReleaseKeeps
  <2>2. CallSound(p)'
    BY <1>2, <1>3, <1>5 DEF CallSound, At
  <2> QED
    BY <2>1, <2>2 DEF Inductive, OrdersSound, RoutesSound
<1> QED
  BY <1>1, <1>4, <1>5 DEF FailMarket, Duplicate

LEMMA FailMarkSound ==
  ASSUME TypeOK, Inductive, NEW p \in Procs, FailMark(p)
  PROVE  Inductive'
<1>1. PICK r \in Routes : r = op[p].route
  BY CallParts DEF FailMark, At
<1>2. /\ op[p] # Idle /\ Return(p)
      /\ rstate' = [rstate EXCEPT ![r] = "FAILED"] /\ "FAILED" \in RouteStates
      /\ UNCHANGED marketVars /\ UNCHANGED chain
  BY <1>1 DEF FailMark, At, RouteStates
<1>3. chain[r] = "reverted" /\ r \in recorded /\ Active(r) = {}
  BY <1>1 DEF FailMark, Inductive, CallSound, Resolved, At
<1>4. RoutesSound'
  BY <1>2, <1>3 DEF Inductive, RoutesSound, Resolved, RouteTold, Active,
                    marketVars, orderVars, TypeOK
<1> QED
  BY <1>1, <1>2, <1>4, OnlyReserver, MarkSound, ReturnSound

LEMMA CrashSound ==
  ASSUME TypeOK, Inductive, NEW p \in Procs, Crash(p)
  PROVE  Inductive'
<1>1. /\ BooksBalance /\ OrdersSound /\ RoutesSound
      /\ \A q \in Procs : CallSound(q)
  BY InductiveParts
<1>2. op[p] # Idle /\ Return(p) /\ UNCHANGED marketVars /\ UNCHANGED <<rstate, chain>>
  BY DEF Crash
<1>3. BooksBalance' /\ OrdersSound' /\ RoutesSound'
  BY <1>1, <1>2, OrdersKept, RoutesKept DEF marketVars, orderVars
<1>4. \A q \in Procs : q # p => CallSound(q)'
  BY <1>1, <1>2, CallStepOps, GivingUpCalls DEF marketVars, orderVars
<1> QED
  BY <1>2, <1>3, <1>4, ReturnSound

LEMMA ExecuteSound ==
  ASSUME TypeOK, Inductive, NEW r \in Routes, Execute(r)
  PROVE  Inductive'
<1>1. /\ BooksBalance /\ OrdersSound /\ RoutesSound
      /\ \A q \in Procs : CallSound(q)
  BY InductiveParts
<1>2. UNCHANGED <<ostate, filled, filledBuy, reserved, hidden, blocked, rsv, qty, pay,
                  recorded, rstate, op>>
  BY DEF Execute, marketVars, orderVars
<1>3. /\ chain[r] = "pending" /\ chain'[r] \in {"settled", "reverted"}
      /\ \A x \in Routes : x # r => chain'[x] = chain[x]
  BY DEF Execute, TypeOK
<1>4. BooksBalance' /\ OrdersSound'
  BY <1>1, <1>2, OrdersKept
<1>5. RoutesSound'
  BY <1>1, <1>2, <1>3 DEF RoutesSound, Resolved, RouteTold, Active
<1>6. ASSUME NEW q \in Procs PROVE CallSound(q)'
  <2>1. op[q] # Idle => op[q].route \in Routes
    BY CallParts
  <2> QED
    BY <1>1, <1>2, <1>3, <2>1 DEF CallSound, At, Sole
<1> QED
  BY <1>4, <1>5, <1>6 DEF Inductive, OrdersSound, RoutesSound

LEMMA StutterSound ==
  ASSUME Inductive, UNCHANGED vars
  PROVE  Inductive'
<1>1. UNCHANGED <<ostate, filled, filledBuy, reserved, hidden, blocked, rsv, qty, pay,
                  recorded, rstate, op, chain>>
  BY DEF vars, marketVars, orderVars
<1>2. BooksBalance' /\ OrdersSound' /\ RoutesSound'
  BY <1>1, InductiveParts, OrdersKept, RoutesKept
<1>3. \A q \in Procs : CallSound(q)'
  BY <1>1 DEF Inductive, CallSound, At, Sole
<1> QED
  BY <1>2, <1>3 DEF Inductive, OrdersSound, RoutesSound

LEMMA NextInductive == TypeOK /\ Inductive /\ [Next]_vars => Inductive'
<1> SUFFICES ASSUME TypeOK, Inductive, [Next]_vars PROVE Inductive'
  OBVIOUS
<1>1. ASSUME NEW p \in Procs, CallStep(p) PROVE Inductive'
  BY <1>1, ReserveMarketSound, InsertRouteSound, SubmitRouteSound, ReleaseMarketSound,
     ReleaseMarkSound, ConfirmMarketSound, ConfirmMarkSound, NormalizeSound,
     FailMarketSound, FailMarkSound DEF CallStep
<1>2. CASE Next
  BY <1>1, <1>2, OrderStepSound, RouteStartSound, CrashSound, ExecuteSound DEF Next
<1>3. CASE UNCHANGED vars
  BY <1>3, StutterSound
<1> QED
  BY <1>2, <1>3

-----------------------------------------------------------------------------
(* What follows for every execution *)

(* The inductive invariant holds in every state of every execution.        *)
THEOREM InductiveInvariant == Spec => []Inductive
BY InitTypeOK, NextTypeOK, InitInductive, NextInductive, PTL DEF Spec

(* One route at most holds an order, fills and reservations stay within    *)
(* the signed amounts, and the price paid is the signed one, rounded up    *)
(* once (availableSell, reserveExactOutput, confirmRoute): with any number *)
(* of processes on the database and whatever crashes.                      *)
THEOREM BooksAlwaysBalance == Spec => []BooksBalance
<1>1. Inductive => BooksBalance
  BY DEF Inductive
<1> QED
  BY <1>1, InductiveInvariant, PTL

(* A route is CONFIRMED or FAILED only if its execution settled or         *)
(* reverted, and then holds nothing (confirmSubmittedRoute,                *)
(* failSubmittedRoute).                                                    *)
THEOREM RoutesTellTheOutcome == Spec => []RouteTold
<1>1. Inductive => RouteTold
  BY DEF Inductive
<1> QED
  BY <1>1, InductiveInvariant, PTL

(* Quantity that no route holds is on offer again, unless it was withdrawn *)
(* (#restoreOrderAfterReservation).                                        *)
THEOREM LiquidityIsRestored == Spec => []LiquidityRestored
<1>1. Inductive => LiquidityRestored
  BY DEF Inductive
<1> QED
  BY <1>1, InductiveInvariant, PTL

(* A withdrawn order is never reserved again (#candidateRows): the only    *)
(* step that reserves looks at the flags in the same transaction.          *)
THEOREM WithdrawnOrdersStayOut == Spec => WithdrawnStaysOut
<1> DEFINE A == \A r \in Routes, o \in Orders :
                  rsv[r][o] = "none" /\ rsv'[r][o] = "ACTIVE"
                  => o \notin hidden /\ o \notin blocked
<1>1. TypeOK /\ [Next]_vars => [A]_vars
  <2> SUFFICES ASSUME TypeOK, Next, NEW r \in Routes, NEW o \in Orders,
                      rsv[r][o] = "none", rsv'[r][o] = "ACTIVE"
               PROVE  o \notin hidden /\ o \notin blocked
    OBVIOUS
  <2>1. ~UNCHANGED rsv
    OBVIOUS
  <2>2. ASSUME NEW x \in Orders, NEW final, Withdraw(x, final) PROVE FALSE
    <3>1. CASE Submitted(x)
      BY <2>1, <2>2, <3>1 DEF Withdraw
    <3>2. CASE ~Submitted(x)
      <4>1. rsv' = [y \in Routes |->
              IF y \in Holders(x) THEN [rsv[y] EXCEPT ![x] = "RELEASED"] ELSE rsv[y]]
        BY <2>2, <3>2 DEF Withdraw
      <4>2. rsv'[r][o] = rsv[r][o] \/ rsv'[r][o] = "RELEASED"
        BY <4>1 DEF TypeOK
      <4> QED
        BY <4>2
    <3> QED
      BY <3>1, <3>2
  <2>3. ASSUME NEW x \in Routes, Release(x) PROVE FALSE
    BY <2>3 DEF Release, TypeOK
  <2>4. ASSUME NEW x \in Routes, Fill(x) PROVE FALSE
    BY <2>4 DEF Fill, TypeOK, Spent
  <2>5. \A p \in Procs, x \in Orders : ~OrderStep(p, x)
    BY <2>1, <2>2 DEF OrderStep, AdmitOrder, BlockOrder, CancelOrder, RevalidatePair,
                      RevalidateReserved, Block
  <2>6. \A x \in Routes : ~Execute(x) /\ \A p \in Procs : ~RouteStart(p, x) /\ ~Crash(p)
    BY <2>1 DEF RouteStart, ReserveStart, SubmitStart, ReleaseStart, ConfirmStart,
                FailStart, Crash, Execute, marketVars
  <2>7. PICK p \in Procs : CallStep(p)
    BY <2>5, <2>6 DEF Next
  <2>8. op[p] # Idle /\ op[p].route \in Routes
    BY <2>7, CallParts
       DEF CallStep, ReserveMarket, InsertRoute, SubmitRoute, ReleaseMarket, ReleaseMark,
           ConfirmMarket, ConfirmMark, Normalize, FailMarket, FailMark, At
  <2>9. ReserveMarket(p)
    BY <2>1, <2>3, <2>4, <2>7, <2>8
       DEF CallStep, InsertRoute, SubmitRoute, ReleaseMarket, ReleaseMark,
           ConfirmMarket, ConfirmMark, Normalize, FailMarket, FailMark, marketVars
  <2>10. PICK inWindow \in SUBSET Orders, take \in [Orders -> 0..Want[op[p].route]] :
           /\ Greedy({x \in inWindow : Matchable(x)}, Want[op[p].route], take)
           /\ Reserve(op[p].route, take)
    BY <2>1, <2>9 DEF ReserveMarket, marketVars
  <2>11. take[o] > 0
    BY <2>8, <2>10 DEF Reserve, TypeOK
  <2> QED
    BY <2>10, <2>11 DEF Greedy, Matchable
<1> QED
  BY <1>1, TypeInvariant, PTL DEF Spec, WithdrawnStaysOut
-----------------------------------------------------------------------------
(* What an order has sold, route by route. A route's reservation of an     *)
(* order is consumed once, with the quantity it was made for.              *)

Consumed(o) == {r \in Routes : rsv[r][o] = "CONSUMED"}
Quantity(o) == [r \in Routes |-> qty[r][o]]
SoldByRoutes == \A o \in Orders : filled[o] = SumFunctionOnSet(Quantity(o), Consumed(o))

LEMMA ConsumedIsFinite ==
  ASSUME NEW o
  PROVE  IsFiniteSet(Routes) /\ IsFiniteSet(Consumed(o)) /\ Consumed(o) \in SUBSET Routes
<1>1. Consumed(o) \in SUBSET Routes /\ IsFiniteSet(Routes)
  BY MarketAssumption DEF Consumed
<1> QED
  BY <1>1, FS_Subset

(* A step that consumes nothing and keeps the quantities consumed. *)
LEMMA NothingConsumed ==
  ASSUME TypeOK, SoldByRoutes, UNCHANGED filled,
         \A r \in Routes, o \in Orders :
           /\ rsv'[r][o] = "CONSUMED" <=> rsv[r][o] = "CONSUMED"
           /\ rsv[r][o] = "CONSUMED" => qty'[r][o] = qty[r][o]
  PROVE  SoldByRoutes'
<1> SUFFICES ASSUME NEW o \in Orders
             PROVE  filled'[o] = SumFunctionOnSet(Quantity(o)', Consumed(o)')
  BY DEF SoldByRoutes, Quantity, Consumed
<1>1. PICK f : f = Quantity(o)
  OBVIOUS
<1>2. PICK g : g = Quantity(o)'
  OBVIOUS
<1>3. PICK P \in SUBSET Routes : P = Consumed(o)
  BY ConsumedIsFinite
<1>4. Consumed(o)' = P
  BY <1>3 DEF Consumed
<1>5. IsFiniteSet(P) /\ \A r \in P : f[r] = g[r]
  BY <1>1, <1>2, <1>3, ConsumedIsFinite DEF Quantity, Consumed
<1>6. SumFunctionOnSet(f, P) = SumFunctionOnSet(g, P)
  BY <1>5, SumSame
<1> QED
  BY <1>1, <1>2, <1>3, <1>4, <1>6 DEF SoldByRoutes

(* A fill books what the route holds of each order. *)
LEMMA FillConsumes ==
  ASSUME TypeOK, SoldByRoutes, NEW r \in Routes, Fill(r)
  PROVE  SoldByRoutes'
<1> SUFFICES ASSUME NEW o \in Orders
             PROVE  filled'[o] = SumFunctionOnSet(Quantity(o)', Consumed(o)')
  BY DEF SoldByRoutes, Quantity, Consumed
<1>1. PICK f : f = Quantity(o)
  OBVIOUS
<1>2. PICK P \in SUBSET Routes : P = Consumed(o)
  BY ConsumedIsFinite
<1>3. Quantity(o)' = f
  BY <1>1 DEF Fill, Quantity
<1>4. \A x \in Routes : rsv'[x][o] = IF x = r /\ o \in Active(r) THEN "CONSUMED" ELSE rsv[x][o]
  BY DEF Fill, TypeOK, Spent
<1>5. filled[o] = SumFunctionOnSet(f, P)
  BY <1>1, <1>2 DEF SoldByRoutes
<1>6. IsFiniteSet(P) /\ (\A x \in P : f[x] \in Int) /\ f[r] \in Int /\ f[r] = qty[r][o]
  BY <1>1, <1>2, ConsumedIsFinite DEF Quantity, TypeOK
<1>7. CASE o \in Active(r)
  <2>1. r \notin P /\ Consumed(o)' = P \cup {r}
    BY <1>2, <1>4, <1>7 DEF Consumed, Active
  <2>2. SumFunctionOnSet(f, P \cup {r}) = f[r] + SumFunctionOnSet(f, P)
    BY <1>6, <2>1, SumAdd
  <2>3. filled'[o] = filled[o] + qty[r][o] /\ filled[o] \in Nat /\ qty[r][o] \in Nat
    BY <1>7 DEF Fill, TypeOK
  <2> QED
    BY <1>3, <1>5, <1>6, <2>1, <2>2, <2>3
<1>8. CASE o \notin Active(r)
  <2>1. Consumed(o)' = P /\ filled'[o] = filled[o]
    BY <1>2, <1>4, <1>8 DEF Consumed, Fill
  <2> QED
    BY <1>3, <1>5, <2>1
<1> QED
  BY <1>7, <1>8

(* Withdrawals and releases end reservations that are not consumed. *)
LEMMA WithdrawConsumesNothing ==
  ASSUME TypeOK, NEW o \in Orders, NEW final, Withdraw(o, final)
  PROVE  \A r \in Routes, x \in Orders : rsv'[r][x] = "CONSUMED" <=> rsv[r][x] = "CONSUMED"
<1>1. CASE Submitted(o)
  BY <1>1 DEF Withdraw
<1>2. CASE ~Submitted(o)
  <2>1. \A r \in Routes, x \in Orders :
          rsv'[r][x] = IF r \in Holders(o) /\ x = o THEN "RELEASED" ELSE rsv[r][x]
    BY <1>2 DEF Withdraw, TypeOK
  <2>2. \A r \in Routes, x \in Orders :
          rsv'[r][x] = IF rsv[r][x] = "ACTIVE" /\ x = o THEN "RELEASED" ELSE rsv[r][x]
    BY <2>1 DEF Holders
  <2> QED
    BY <2>2
<1> QED
  BY <1>1, <1>2

LEMMA ReleaseConsumesNothing ==
  ASSUME TypeOK, NEW r \in Routes, Release(r)
  PROVE  \A x \in Routes, o \in Orders : rsv'[x][o] = "CONSUMED" <=> rsv[x][o] = "CONSUMED"
<1>1. \A x \in Routes, o \in Orders :
        rsv'[x][o] = IF x = r /\ rsv[r][o] = "ACTIVE" THEN "RELEASED" ELSE rsv[x][o]
  BY DEF Release, TypeOK, Active
<1> QED
  BY <1>1

LEMMA SoldStep ==
  ASSUME TypeOK, Inductive, SoldByRoutes, [Next]_vars
  PROVE  SoldByRoutes'
<1>1. CASE UNCHANGED <<filled, qty, rsv>>
  BY <1>1, NothingConsumed
<1>2. ASSUME NEW o \in Orders, Block(o) PROVE SoldByRoutes'
  <2>1. Withdraw(o, "POLICY_BLOCKED") /\ UNCHANGED <<filled, qty>>
    BY <1>2 DEF Block
  <2> QED
    BY <2>1, WithdrawConsumesNothing, NothingConsumed
<1>3. ASSUME NEW p \in Procs, NEW o \in Orders, OrderStep(p, o) PROVE SoldByRoutes'
  <2>1. CASE CancelOrder(p, o)
    <3>1. Withdraw(o, "CANCELLED") /\ UNCHANGED <<filled, qty>>
      BY <2>1 DEF CancelOrder
    <3> QED
      BY <3>1, WithdrawConsumesNothing, NothingConsumed
  <2>2. CASE ~CancelOrder(p, o)
    BY <1>1, <1>2, <1>3, <2>2
       DEF OrderStep, AdmitOrder, BlockOrder, RevalidatePair, RevalidateReserved
  <2> QED
    BY <2>1, <2>2
<1>4. ASSUME NEW p \in Procs, NEW r \in Routes, RouteStart(p, r) PROVE SoldByRoutes'
  BY <1>1, <1>4
     DEF RouteStart, ReserveStart, SubmitStart, ReleaseStart, ConfirmStart, FailStart,
         marketVars, orderVars
<1>5. ASSUME NEW r \in Routes, Release(r) PROVE SoldByRoutes'
  <2>1. UNCHANGED <<filled, qty>>
    BY <1>5 DEF Release
  <2> QED
    BY <1>5, <2>1, ReleaseConsumesNothing, NothingConsumed
<1>6. ASSUME NEW p \in Procs, ReserveMarket(p) PROVE SoldByRoutes'
  <2>1. op[p].route \in Routes /\ \A o \in Orders : rsv[op[p].route][o] = "none"
    BY <1>6, CallParts DEF ReserveMarket, At, Inductive, CallSound
  <2>2. PICK r \in Routes : r = op[p].route
    BY <2>1
  <2>3. ASSUME NEW take, Reserve(r, take) PROVE SoldByRoutes'
    <3>1. /\ UNCHANGED filled
          /\ \A x \in Routes : x # r => rsv'[x] = rsv[x] /\ qty'[x] = qty[x]
          /\ \A o \in Orders : rsv'[r][o] # "CONSUMED"
      BY <2>3 DEF Reserve, TypeOK
    <3>2. \A x \in Routes, o \in Orders :
            /\ rsv'[x][o] = "CONSUMED" <=> rsv[x][o] = "CONSUMED"
            /\ rsv[x][o] = "CONSUMED" => qty'[x][o] = qty[x][o]
      BY <2>1, <2>2, <3>1
    <3> QED
      BY <3>1, <3>2, NothingConsumed
  <2> QED
    BY <1>1, <1>6, <2>2, <2>3 DEF ReserveMarket, marketVars, orderVars
<1>7. ASSUME NEW p \in Procs, CallStep(p) PROVE SoldByRoutes'
  <2>1. CASE ReserveMarket(p)
    BY <1>6, <2>1
  <2>2. CASE InsertRoute(p) \/ ReleaseMarket(p) \/ FailMarket(p)
    <3>1. op[p].route \in Routes
      BY <2>2, CallParts DEF InsertRoute, ReleaseMarket, FailMarket, At
    <3> QED
      BY <1>1, <1>5, <2>2, <3>1 DEF InsertRoute, ReleaseMarket, FailMarket, marketVars, orderVars
  <2>3. CASE ConfirmMarket(p)
    <3>1. op[p].route \in Routes
      BY <2>3, CallParts DEF ConfirmMarket, At
    <3> QED
      BY <1>1, <2>3, <3>1, FillConsumes DEF ConfirmMarket, marketVars, orderVars
  <2>4. CASE \/ SubmitRoute(p) \/ ReleaseMark(p) \/ ConfirmMark(p) \/ Normalize(p)
             \/ FailMark(p)
    BY <1>1, <2>4
       DEF SubmitRoute, ReleaseMark, ConfirmMark, Normalize, FailMark, marketVars, orderVars
  <2> QED
    BY <1>7, <2>1, <2>2, <2>3, <2>4 DEF CallStep
<1>8. CASE (\E p \in Procs : Crash(p)) \/ (\E r \in Routes : Execute(r)) \/ UNCHANGED vars
  BY <1>1, <1>8 DEF Crash, Execute, vars, marketVars, orderVars
<1> QED
  BY <1>3, <1>4, <1>7, <1>8 DEF Next

LEMMA SoldInit == Init => SoldByRoutes
<1> SUFFICES ASSUME Init, NEW o \in Orders
             PROVE  filled[o] = SumFunctionOnSet(Quantity(o), Consumed(o))
  BY DEF SoldByRoutes
<1>1. Consumed(o) = {} /\ filled[o] = 0
  BY DEF Init, Consumed
<1> QED
  BY <1>1, SumEmpty

(* A maker's quantity is filled exactly by the routes whose execution      *)
(* settled and was recorded, once each, with any number of processes, in   *)
(* any order of their steps, through crashes and repeated confirmations.   *)
THEOREM FilledByRecordedRoutes == Spec => []FilledByRoutes
<1>1. Inductive /\ SoldByRoutes => FilledByRoutes
  <2> SUFFICES ASSUME Inductive, SoldByRoutes PROVE FilledByRoutes
    OBVIOUS
  <2>1. \A o \in Orders :
          filled[o] = SumFunctionOnSet([r \in Routes |-> qty[r][o]],
                                       {r \in Routes : rsv[r][o] = "CONSUMED"})
    BY DEF SoldByRoutes, Quantity, Consumed
  <2>2. \A r \in Routes, o \in Orders :
          rsv[r][o] = "CONSUMED" => chain[r] = "settled" /\ r \in recorded
    BY DEF Inductive, Resolved
  <2> QED
    BY <2>1, <2>2 DEF FilledByRoutes
<1>2. TypeOK /\ Inductive /\ SoldByRoutes /\ [Next]_vars => SoldByRoutes'
  BY SoldStep
<1> QED
  BY <1>1, <1>2, SoldInit, TypeInvariant, InductiveInvariant, PTL DEF Spec
-----------------------------------------------------------------------------
(* One request at a time. What a submitted route holds is held because     *)
(* only the call that runs can touch it; the invariant follows a route     *)
(* from its reservation to the outcome.                                    *)

GivingBack(r) == \E p \in Procs : At(p, "released") /\ op[p].route = r

RouteHeld(r) ==
  /\ chain[r] # "idle" /\ r \notin recorded => rstate[r] = "SUBMITTED"
  /\ rstate[r] = "SUBMITTED" /\ r \notin recorded => Matches(r)
  /\ rstate[r] = "RESERVED" /\ ~GivingBack(r) => Matches(r)

CallHeld(p) ==
  /\ At(p, "insert") => Matches(op[p].route)
  /\ At(p, "release") \/ At(p, "released") => rstate[op[p].route] = "RESERVED"

QuotedOnly(r) == \A o \in Orders : rsv[r][o] = "none" => qty[r][o] = 0

HeldInv ==
  /\ \A p, q \in Procs : op[p] # Idle /\ op[q] # Idle => p = q
  /\ \A r \in Routes : RouteHeld(r) /\ QuotedOnly(r)
  /\ \A p \in Procs : CallHeld(p)

(* What a route holds is what its row says, whatever the others do. *)
LEMMA MatchesOfRow ==
  ASSUME NEW r \in Routes, rsv'[r] = rsv[r]
  PROVE  Matches(r)' <=> Matches(r)
BY DEF Matches, Active

LEMMA NobodyGivesBack ==
  ASSUME \A q \in Procs : ~At(q, "released"), NEW r
  PROVE  ~GivingBack(r)
BY DEF GivingBack

(* A withdrawn order leaves a route that was not submitted. *)
LEMMA WithdrawHeld ==
  ASSUME TypeOK, HeldInv, NEW o \in Orders, NEW final, Withdraw(o, final),
         UNCHANGED <<qty, recorded, chain>>,
         \A q \in Procs : /\ ~At(q, "insert") /\ ~At(q, "release") /\ ~At(q, "released")
                          /\ op'[q] = Idle \/ op'[q] = op[q]
  PROVE  HeldInv'
<1>1. \A p, q \in Procs : op'[p] # Idle /\ op'[q] # Idle => p = q
  BY DEF HeldInv
<1>2. \A p \in Procs : CallHeld(p)'
  BY DEF CallHeld, At
<1>3. \A q \in Procs : ~At(q, "released")'
  BY DEF At
<1>4. ASSUME NEW r \in Routes PROVE ~GivingBack(r) /\ ~GivingBack(r)'
  BY <1>3 DEF GivingBack, At
<1>5. ASSUME NEW r \in Routes PROVE RouteHeld(r)' /\ QuotedOnly(r)'
  <2>1. RouteHeld(r) /\ QuotedOnly(r)
    BY DEF HeldInv
  <2>2. CASE rsv'[r] = rsv[r] /\ rstate'[r] = rstate[r]
    BY <1>4, <2>1, <2>2, MatchesOfRow DEF RouteHeld, QuotedOnly
  <2>3. CASE ~Submitted(o) /\ r \in Holders(o)
    <3>1. rstate[r] # "SUBMITTED"
      BY <2>3 DEF Submitted
    <3>2. rstate'[r] = IF rstate[r] = "RESERVED" THEN "RELEASED" ELSE rstate[r]
      BY <2>3 DEF Withdraw
    <3>3. rsv'[r] = [rsv[r] EXCEPT ![o] = "RELEASED"]
      BY <2>3 DEF Withdraw
    <3>4. \A x \in Orders : rsv'[r][x] = "none" => rsv[r][x] = "none"
      BY <3>3 DEF TypeOK
    <3> QED
      BY <2>1, <3>1, <3>2, <3>4 DEF RouteHeld, QuotedOnly
  <2> QED
    BY <2>2, <2>3 DEF Withdraw
<1> QED
  BY <1>1, <1>2, <1>5 DEF HeldInv

(* A call changes its own route only. *)
LEMMA CallChangesRoute ==
  ASSUME TypeOK, HeldInv, NEW p \in Procs, OthersIdle(p), op[p] # Idle,
         NEW r \in Routes, r = op[p].route,
         \A q \in Procs : q # p => op'[q] = op[q],
         op'[p] # Idle => op'[p].route = r,
         \A x \in Routes : x # r => /\ rsv'[x] = rsv[x] /\ qty'[x] = qty[x]
                                    /\ rstate'[x] = rstate[x] /\ chain'[x] = chain[x]
                                    /\ x \in recorded' <=> x \in recorded,
         RouteHeld(r)', QuotedOnly(r)', CallHeld(p)'
  PROVE  HeldInv'
<1>1. \A q \in Procs : q # p => op[q] = Idle /\ op'[q] = Idle
  BY DEF OthersIdle
<1>2. \A a, b \in Procs : op'[a] # Idle /\ op'[b] # Idle => a = b
  BY <1>1
<1>3. \A q \in Procs : CallHeld(q)'
  BY <1>1 DEF CallHeld, At
<1>4. ASSUME NEW x \in Routes PROVE RouteHeld(x)' /\ QuotedOnly(x)'
  <2>1. CASE x = r
    BY <2>1
  <2>2. CASE x # r
    <3>1. ~GivingBack(x) /\ ~GivingBack(x)'
      BY <1>1, <2>2 DEF GivingBack, At
    <3>2. Matches(x)' <=> Matches(x)
      BY <2>2, MatchesOfRow
    <3>3. /\ rsv'[x] = rsv[x] /\ qty'[x] = qty[x] /\ rstate'[x] = rstate[x]
          /\ chain'[x] = chain[x] /\ (x \in recorded' <=> x \in recorded)
      BY <2>2
    <3>4. RouteHeld(x) /\ QuotedOnly(x)
      BY DEF HeldInv
    <3>5. RouteHeld(x)'
      BY <3>1, <3>2, <3>3, <3>4 DEF RouteHeld
    <3>6. QuotedOnly(x)'
      BY <3>3, <3>4 DEF QuotedOnly
    <3> QED
      BY <3>5, <3>6
  <2> QED
    BY <2>1, <2>2
<1> QED
  BY <1>2, <1>3, <1>4 DEF HeldInv

(* Greedy takes something: the route asked for a positive output.          *)
LEMMA GreedyTakes ==
  ASSUME NEW r \in Routes, NEW cand, NEW take \in [Orders -> 0..Want[r]],
         Greedy(cand, Want[r], take)
  PROVE  \E o \in Orders : take[o] > 0
<1>1. Want[r] \in Nat \ {0} /\ IsFiniteSet(Orders)
  BY MarketAssumption
<1>2. SumFunctionOnSet(take, Orders) = Want[r]
  BY DEF Greedy, Total
<1>3. SUFFICES ASSUME \A o \in Orders : take[o] = 0 PROVE FALSE
  BY <1>1
<1>4. SumFunctionOnSet(take, Orders) = 0
  BY <1>1, <1>3, SumZero
<1> QED
  BY <1>1, <1>2, <1>4

LEMMA ReleasedRow ==
  ASSUME TypeOK, NEW r \in Routes, Release(r)
  PROVE  /\ \A x \in Routes : x # r => rsv'[x] = rsv[x]
         /\ \A o \in Orders : rsv'[r][o] = IF rsv[r][o] = "ACTIVE" THEN "RELEASED" ELSE rsv[r][o]
         /\ UNCHANGED <<qty, filled>>
BY DEF Release, TypeOK, Active

LEMMA OrderStepHeld ==
  ASSUME TypeOK, HeldInv, NEW p \in Procs, OthersIdle(p), NEW o \in Orders, OrderStep(p, o)
  PROVE  HeldInv'
<1>1. ASSUME NEW final, Withdraw(o, final), UNCHANGED <<qty, recorded, chain>>,
             op[p] = Idle \/ At(p, "reserve") \/ At(p, "submit"),
             op' = op \/ Return(p)
      PROVE  HeldInv'
  <2>1. \A q \in Procs : ~At(q, "insert") /\ ~At(q, "release") /\ ~At(q, "released")
    BY <1>1 DEF OthersIdle, At
  <2>2. \A q \in Procs : op'[q] = Idle \/ op'[q] = op[q]
    BY <1>1, ReturnIsCall
  <2> QED
    BY <1>1, <2>1, <2>2, WithdrawHeld
<1>2. CASE AdmitOrder(p, o)
  <2>1. UNCHANGED <<rsv, qty, recorded, rstate, op, chain>>
    BY <1>2 DEF AdmitOrder
  <2> QED
    BY <2>1
       DEF HeldInv, RouteHeld, QuotedOnly, CallHeld, At, GivingBack, Matches, Active
<1>3. CASE BlockOrder(p, o) \/ RevalidatePair(p, o) \/ RevalidateReserved(p, o)
  BY <1>1, <1>3 DEF BlockOrder, RevalidatePair, RevalidateReserved, Block
<1>4. CASE CancelOrder(p, o)
  BY <1>1, <1>4 DEF CancelOrder
<1> QED
  BY <1>2, <1>3, <1>4 DEF OrderStep

LEMMA RouteStartHeld ==
  ASSUME TypeOK, HeldInv, NEW p \in Procs, OthersIdle(p), NEW r \in Routes, RouteStart(p, r)
  PROVE  HeldInv'
<1>1. UNCHANGED <<rsv, qty, recorded, rstate, chain>>
  BY DEF RouteStart, ReserveStart, SubmitStart, ReleaseStart, ConfirmStart, FailStart,
         marketVars
<1>2. PICK s \in {"reserve", "submit", "release", "confirm", "fail"} :
        Begin(p, s, r) /\ (s = "release" => rstate[r] = "RESERVED")
  BY DEF RouteStart, ReserveStart, SubmitStart, ReleaseStart, ConfirmStart, FailStart,
         Releasable
<1>3. op[p] = Idle /\ \A q \in Procs : op[q] = Idle
  BY <1>2 DEF Begin, OthersIdle
<1>4. /\ op'[p] # Idle /\ op'[p].step = s /\ op'[p].route = r
      /\ \A q \in Procs : q # p => op'[q] = Idle
  <2>1. s \in Steps
    BY DEF Steps
  <2> QED
    BY <1>2, <1>3, <2>1, BeginIsCall
<1>5. \A x \in Routes : ~GivingBack(x) /\ ~GivingBack(x)'
  BY <1>3, <1>4 DEF GivingBack, At
<1>6. ASSUME NEW x \in Routes PROVE RouteHeld(x)' /\ QuotedOnly(x)'
  <2>1. RouteHeld(x) /\ QuotedOnly(x)
    BY DEF HeldInv
  <2>2. Matches(x)' <=> Matches(x)
    BY <1>1, MatchesOfRow
  <2> QED
    BY <1>1, <1>5, <2>1, <2>2 DEF RouteHeld, QuotedOnly
<1>7. ASSUME NEW q \in Procs PROVE CallHeld(q)'
  <2>1. CASE q = p
    BY <1>1, <1>2, <1>4, <2>1 DEF CallHeld, At
  <2>2. CASE q # p
    BY <1>4, <2>2 DEF CallHeld, At
  <2> QED
    BY <2>1, <2>2
<1>8. \A a, b \in Procs : op'[a] # Idle /\ op'[b] # Idle => a = b
  BY <1>4
<1> QED
  BY <1>6, <1>7, <1>8 DEF HeldInv

LEMMA ReserveMarketHeld ==
  ASSUME TypeOK, Inductive, HeldInv, NEW p \in Procs, OthersIdle(p), ReserveMarket(p)
  PROVE  HeldInv'
<1>1. PICK r \in Routes : r = op[p].route
  BY CallParts DEF ReserveMarket, At
<1>2. /\ op[p] # Idle /\ op[p].step = "reserve" /\ UNCHANGED <<rstate, chain>>
      /\ rstate[r] = "none" /\ chain[r] = "idle"
  BY <1>1, InductiveParts DEF ReserveMarket, CallSound, At, RoutesSound, Resolved
<1>3. ASSUME op' \in [Procs -> {Idle} \cup [step : Steps, route : Routes]],
             \A q \in Procs : q # p => op'[q] = op[q],
             op'[p] # Idle => op'[p].route = r, recorded' = recorded,
             \A x \in Routes : x # r => rsv'[x] = rsv[x] /\ qty'[x] = qty[x],
             QuotedOnly(r)', CallHeld(p)'
      PROVE  HeldInv'
  <2>1. RouteHeld(r)'
    BY <1>2 DEF RouteHeld
  <2> QED
    BY <1>1, <1>2, <1>3, <2>1, CallChangesRoute
<1>4. CASE Return(p) /\ UNCHANGED marketVars
  <2>1. QuotedOnly(r)'
    BY <1>4 DEF HeldInv, QuotedOnly, marketVars
  <2>2. CallHeld(p)'
    BY <1>4, ReturnIsCall DEF CallHeld, At
  <2> QED
    BY <1>3, <1>4, <2>1, <2>2, ReturnIsCall DEF marketVars
<1>5. ASSUME NEW cand, NEW take \in [Orders -> 0..Want[r]],
             Greedy(cand, Want[r], take), Go(p, "insert"), Reserve(r, take)
      PROVE  HeldInv'
  <2>1. \A x \in Routes : x # r => rsv'[x] = rsv[x] /\ qty'[x] = qty[x]
    BY <1>5 DEF Reserve, TypeOK
  <2>2. /\ qty'[r] = take
        /\ \A o \in Orders : rsv'[r][o] = IF take[o] > 0 THEN "ACTIVE" ELSE "none"
    BY <1>5 DEF Reserve, TypeOK
  <2>3. \A o \in Orders : take[o] \in Nat
    BY MarketAssumption
  <2>4. QuotedOnly(r)'
    <3> SUFFICES ASSUME NEW o \in Orders, rsv'[r][o] = "none" PROVE qty'[r][o] = 0
      BY DEF QuotedOnly
    <3> QED
      BY <2>2, <2>3
  <2>5. "insert" \in Steps
    BY DEF Steps
  <2>6. /\ op' \in [Procs -> {Idle} \cup [step : Steps, route : Routes]]
        /\ op'[p] # Idle /\ op'[p].step = "insert" /\ op'[p].route = r
        /\ \A q \in Procs : q # p => op'[q] = op[q]
    BY <1>1, <1>2, <1>5, <2>5, GoIsCall
  <2>7. Matches(r)'
    <3>1. PICK o \in Orders : take[o] > 0
      BY <1>5, GreedyTakes
    <3> QED
      BY <2>2, <3>1 DEF Matches, Active
  <2>8. CallHeld(p)'
    BY <2>6, <2>7 DEF CallHeld, At, Matches, Active
  <2>9. recorded' = recorded
    BY <1>5 DEF Reserve
  <2> QED
    BY <1>3, <2>1, <2>4, <2>6, <2>8, <2>9
<1> QED
  BY <1>1, <1>4, <1>5 DEF ReserveMarket

(* The calls that end a reservation or book it, and the rows they mark.    *)
LEMMA OtherCallsHeld ==
  ASSUME TypeOK, Inductive, HeldInv, NEW p \in Procs, OthersIdle(p), CallStep(p),
         ~ReserveMarket(p)
  PROVE  HeldInv'
<1>1. PICK r \in Routes : r = op[p].route
  BY CallParts
     DEF CallStep, InsertRoute, SubmitRoute, ReleaseMarket, ReleaseMark, ConfirmMarket,
         ConfirmMark, Normalize, FailMarket, FailMark, At
<1>2. /\ RouteHeld(r) /\ QuotedOnly(r) /\ CallHeld(p) /\ CallSound(p) /\ Resolved(r)
  BY DEF HeldInv, Inductive
<1>3. op[p] # Idle
  BY DEF CallStep, InsertRoute, SubmitRoute, ReleaseMarket, ReleaseMark, ConfirmMarket,
         ConfirmMark, Normalize, FailMarket, FailMark, At
<1>4. ASSUME \A q \in Procs : q # p => op'[q] = op[q],
             op'[p] # Idle => op'[p].route = r,
             \A x \in Routes : x # r => /\ rsv'[x] = rsv[x]
                                        /\ rstate'[x] = rstate[x] /\ chain'[x] = chain[x]
                                        /\ x \in recorded' <=> x \in recorded,
             \A o \in Orders : rsv'[r][o] = "none" => rsv[r][o] = "none",
             UNCHANGED qty, RouteHeld(r)', CallHeld(p)'
      PROVE  HeldInv'
  <2>1. QuotedOnly(r)'
    BY <1>2, <1>4 DEF QuotedOnly
  <2> QED
    BY <1>1, <1>3, <1>4, <2>1, CallChangesRoute
<1>5. UNCHANGED marketVars => UNCHANGED <<rsv, qty, recorded>>
  BY DEF marketVars
<1>6. ASSUME NEW s \in Steps, Go(p, s)
      PROVE  /\ \A q \in Procs : q # p => op'[q] = op[q]
             /\ op'[p] # Idle /\ op'[p].step = s /\ op'[p].route = r
  BY <1>1, <1>3, <1>6, GoIsCall
<1>7. ASSUME Return(p)
      PROVE  /\ \A q \in Procs : q # p => op'[q] = op[q]
             /\ op'[p] = Idle /\ CallHeld(p)'
  BY <1>7, ReturnIsCall DEF CallHeld, At
<1>8. ~GivingBack(r) \/ At(p, "released")
  BY DEF GivingBack, OthersIdle, At
<1>9. CASE InsertRoute(p)
  <2>1. At(p, "insert") /\ Return(p) /\ UNCHANGED chain
    BY <1>9 DEF InsertRoute
  <2>2. Matches(r) /\ rstate[r] = "none" /\ chain[r] = "idle"
    BY <1>1, <1>2, <2>1 DEF CallHeld, CallSound, Resolved
  <2>3. CASE rstate' = [rstate EXCEPT ![r] = "RESERVED"] /\ UNCHANGED marketVars
    <3>1. Matches(r)' /\ rstate'[r] = "RESERVED"
          /\ \A x \in Routes : x # r => rstate'[x] = rstate[x]
      BY <1>5, <2>2, <2>3, MatchesOfRow DEF TypeOK
    <3>2. RouteHeld(r)'
      BY <2>1, <2>2, <3>1 DEF RouteHeld
    <3> QED
      BY <1>4, <1>5, <1>7, <2>1, <2>3, <3>1, <3>2
  <2>4. CASE Release(r) /\ UNCHANGED <<recorded, rstate>>
    <3>1. RouteHeld(r)'
      BY <2>1, <2>2, <2>4 DEF RouteHeld
    <3> QED
      BY <1>4, <1>7, <2>1, <2>4, <3>1, ReleasedRow
  <2> QED
    BY <1>1, <1>9, <2>3, <2>4 DEF InsertRoute
<1>10. CASE SubmitRoute(p)
  <2>1. At(p, "submit") /\ Return(p) /\ UNCHANGED marketVars
    BY <1>10 DEF SubmitRoute
  <2>2. ~GivingBack(r) /\ ~GivingBack(r)'
    <3>1. ~At(p, "released") /\ ~At(p, "released")'
      BY <1>7, <2>1 DEF At
    <3> QED
      BY <1>7, <1>8, <2>1, <3>1 DEF GivingBack, OthersIdle, At
  <2>3. CASE rstate[r] = "RESERVED"
    <3>1. /\ rstate' = [rstate EXCEPT ![r] = "SUBMITTED"]
          /\ chain' = [chain EXCEPT ![r] = "pending"]
      BY <1>1, <1>10, <2>3 DEF SubmitRoute
    <3>2. /\ rstate'[r] = "SUBMITTED"
          /\ \A x \in Routes : x # r => rstate'[x] = rstate[x] /\ chain'[x] = chain[x]
      BY <3>1 DEF TypeOK
    <3>3. Matches(r)'
      BY <1>2, <1>5, <2>1, <2>2, <2>3, MatchesOfRow DEF RouteHeld
    <3>4. RouteHeld(r)'
      BY <3>2, <3>3 DEF RouteHeld
    <3> QED
      BY <1>4, <1>5, <1>7, <2>1, <3>2, <3>4
  <2>4. CASE rstate[r] # "RESERVED"
    <3>1. UNCHANGED <<rstate, chain>>
      BY <1>1, <1>10, <2>4 DEF SubmitRoute
    <3>2. RouteHeld(r)'
      BY <1>2, <1>5, <2>1, <2>4, <3>1, MatchesOfRow DEF RouteHeld
    <3> QED
      BY <1>4, <1>5, <1>7, <2>1, <3>1, <3>2
  <2> QED
    BY <2>3, <2>4
<1>11. CASE ReleaseMarket(p)
  <2>1. /\ At(p, "release") /\ Go(p, "released") /\ Release(r)
        /\ UNCHANGED <<recorded, rstate, chain>>
    BY <1>1, <1>11 DEF ReleaseMarket
  <2>2. rstate[r] = "RESERVED" /\ chain[r] = "idle"
    BY <1>1, <1>2, <2>1 DEF CallHeld, Resolved
  <2>3. "released" \in Steps
    BY DEF Steps
  <2>4. /\ op'[p] # Idle /\ op'[p].step = "released" /\ op'[p].route = r
        /\ \A q \in Procs : q # p => op'[q] = op[q]
    BY <1>6, <2>1, <2>3
  <2>5. GivingBack(r)' /\ CallHeld(p)'
    BY <2>1, <2>2, <2>4 DEF GivingBack, At, CallHeld
  <2>6. RouteHeld(r)'
    BY <2>1, <2>2, <2>5 DEF RouteHeld, GivingBack, At
  <2> QED
    BY <1>4, <2>1, <2>4, <2>5, <2>6, ReleasedRow
<1>12. CASE ReleaseMark(p)
  <2>1. At(p, "released") /\ Return(p) /\ UNCHANGED <<marketVars, chain>>
    BY <1>12 DEF ReleaseMark
  <2>2. PICK final \in {"RELEASED", "EXPIRED"} : rstate' = [rstate EXCEPT ![r] = final]
    BY <1>1, <1>12 DEF ReleaseMark
  <2>3. rstate'[r] = final /\ \A x \in Routes : x # r => rstate'[x] = rstate[x]
    BY <2>2 DEF TypeOK
  <2>4. chain[r] = "idle"
    BY <1>1, <1>2, <2>1 DEF CallHeld, Resolved
  <2>5. RouteHeld(r)'
    BY <2>1, <2>3, <2>4 DEF RouteHeld
  <2> QED
    BY <1>4, <1>5, <1>7, <2>1, <2>3, <2>5
<1>13. CASE ConfirmMarket(p)
  <2>1. At(p, "confirm") /\ UNCHANGED <<rstate, chain>> /\ chain[r] = "settled"
    BY <1>1, <1>2, <1>13 DEF ConfirmMarket, CallSound
  <2>2. "confirmed" \in Steps
    BY DEF Steps
  <2>3. ~GivingBack(r)
    BY <1>8, <2>1 DEF At
  <2>4. CASE UNCHANGED marketVars /\ (Go(p, "confirmed") \/ Return(p))
    <3>1. RouteHeld(r)'
      BY <1>2, <1>5, <2>1, <2>3, <2>4, MatchesOfRow DEF RouteHeld, Resolved
    <3>2. Go(p, "confirmed") => CallHeld(p)'
      BY <1>6, <2>2 DEF CallHeld, At
    <3> QED
      BY <1>4, <1>5, <1>6, <1>7, <2>1, <2>2, <2>4, <3>1, <3>2
  <2>5. CASE Go(p, "confirmed") /\ Fill(r)
    <3>1. /\ \A x \in Routes : x # r => rsv'[x] = rsv[x]
          /\ \A o \in Orders : rsv'[r][o] = "none" => rsv[r][o] = "none"
          /\ recorded' = recorded \cup {r} /\ UNCHANGED qty
      BY <2>5 DEF Fill, TypeOK, Active, Spent
    <3>2. RouteHeld(r)'
      BY <1>2, <2>1, <3>1 DEF RouteHeld, Resolved
    <3>3. CallHeld(p)'
      BY <1>6, <2>2, <2>5 DEF CallHeld, At
    <3> QED
      BY <1>4, <1>6, <2>1, <2>2, <2>5, <3>1, <3>2, <3>3
  <2> QED
    BY <1>1, <1>13, <2>4, <2>5 DEF ConfirmMarket
<1>14. CASE ConfirmMark(p)
  <2>1. /\ At(p, "confirmed") /\ Go(p, "normalize") /\ UNCHANGED <<marketVars, chain>>
        /\ rstate' = [rstate EXCEPT ![r] = "CONFIRMED"] /\ r \in recorded
    BY <1>1, <1>2, <1>14 DEF ConfirmMark, CallSound
  <2>2. rstate'[r] = "CONFIRMED" /\ \A x \in Routes : x # r => rstate'[x] = rstate[x]
    BY <2>1 DEF TypeOK
  <2>3. "normalize" \in Steps
    BY DEF Steps
  <2>4. RouteHeld(r)'
    BY <1>5, <2>1, <2>2 DEF RouteHeld
  <2>5. CallHeld(p)'
    BY <1>6, <2>1, <2>3 DEF CallHeld, At
  <2> QED
    BY <1>4, <1>5, <1>6, <2>1, <2>2, <2>3, <2>4, <2>5
<1>15. CASE Normalize(p)
  <2>1. At(p, "normalize") /\ Return(p) /\ UNCHANGED <<rsv, qty, recorded, rstate, chain>>
    BY <1>15 DEF Normalize
  <2>2. ~GivingBack(r)
    BY <1>8, <2>1 DEF At
  <2>3. RouteHeld(r)'
    BY <1>2, <2>1, <2>2, MatchesOfRow DEF RouteHeld
  <2> QED
    BY <1>4, <1>7, <2>1, <2>3
<1>16. CASE FailMarket(p)
  <2>1. /\ At(p, "fail") /\ Go(p, "failed") /\ UNCHANGED <<rstate, chain>>
        /\ chain[r] = "reverted"
    BY <1>1, <1>2, <1>16 DEF FailMarket, CallSound
  <2>2. "failed" \in Steps
    BY DEF Steps
  <2>3. CallHeld(p)'
    BY <1>6, <2>1, <2>2 DEF CallHeld, At
  <2>4. CASE r \in recorded /\ UNCHANGED marketVars
    <3>1. RouteHeld(r)'
      BY <1>2, <1>5, <2>1, <2>4 DEF RouteHeld, Resolved
    <3> QED
      BY <1>4, <1>5, <1>6, <2>1, <2>2, <2>3, <2>4, <3>1
  <2>5. CASE Release(r) /\ recorded' = recorded \cup {r}
    <3>1. RouteHeld(r)'
      BY <1>2, <2>1, <2>5 DEF RouteHeld, Resolved
    <3> QED
      BY <1>4, <1>6, <2>1, <2>2, <2>3, <2>5, <3>1, ReleasedRow
  <2> QED
    BY <1>1, <1>16, <2>4, <2>5 DEF FailMarket, Duplicate
<1>17. CASE FailMark(p)
  <2>1. /\ At(p, "failed") /\ Return(p) /\ UNCHANGED <<marketVars, chain>>
        /\ rstate' = [rstate EXCEPT ![r] = "FAILED"] /\ r \in recorded
    BY <1>1, <1>2, <1>17 DEF FailMark, CallSound
  <2>2. rstate'[r] = "FAILED" /\ \A x \in Routes : x # r => rstate'[x] = rstate[x]
    BY <2>1 DEF TypeOK
  <2>3. RouteHeld(r)'
    BY <1>5, <2>1, <2>2 DEF RouteHeld
  <2> QED
    BY <1>4, <1>5, <1>7, <2>1, <2>2, <2>3
<1> QED
  BY <1>9, <1>10, <1>11, <1>12, <1>13, <1>14, <1>15, <1>16, <1>17 DEF CallStep

LEMMA ExecuteHeld ==
  ASSUME TypeOK, Inductive, HeldInv, NEW r \in Routes, Execute(r)
  PROVE  HeldInv'
<1>1. /\ UNCHANGED <<marketVars, rstate, op>> /\ chain[r] = "pending"
      /\ \A x \in Routes : x # r => chain'[x] = chain[x]
  BY DEF Execute, TypeOK
<1>2. UNCHANGED <<rsv, qty, recorded>>
  BY <1>1 DEF marketVars
<1>3. ASSUME NEW x \in Routes PROVE RouteHeld(x)' /\ QuotedOnly(x)'
  <2>1. RouteHeld(x) /\ QuotedOnly(x)
    BY DEF HeldInv
  <2>2. Matches(x)' <=> Matches(x)
    BY <1>2, MatchesOfRow
  <2>3. GivingBack(x)' <=> GivingBack(x)
    BY <1>1 DEF GivingBack, At
  <2> QED
    BY <1>1, <1>2, <2>1, <2>2, <2>3 DEF RouteHeld, QuotedOnly
<1>4. \A p \in Procs : CallHeld(p)'
  BY <1>1, <1>2 DEF HeldInv, CallHeld, At, Matches, Active
<1> QED
  BY <1>1, <1>3, <1>4 DEF HeldInv

LEMMA HeldInit == Init => HeldInv
BY DEF Init, HeldInv, RouteHeld, QuotedOnly, CallHeld, At

LEMMA HeldStep ==
  ASSUME TypeOK, Inductive, HeldInv, OneAtATime
  PROVE  HeldInv'
<1>1. ASSUME NEW p \in Procs, OthersIdle(p), CallStep(p) PROVE HeldInv'
  BY <1>1, ReserveMarketHeld, OtherCallsHeld
<1> QED
  BY <1>1, OrderStepHeld, RouteStartHeld, ExecuteHeld DEF OneAtATime

LEMMA HeldStutter == HeldInv /\ UNCHANGED vars => HeldInv'
BY DEF HeldInv, RouteHeld, QuotedOnly, CallHeld, GivingBack, At, Matches, Active, vars,
       marketVars

(* What is checked is the market, in either of its two ways to run. *)
LEMMA ModesAreMarket == MarketNext => Next
BY MarketAssumption DEF MarketNext, OneAtATime, Shared, Next

AloneInv == TypeOK /\ Inductive /\ (alone => HeldInv)

LEMMA AloneInvariant == MarketSpec => []AloneInv
<1>1. MarketInit => AloneInv
  BY InitTypeOK, InitInductive, HeldInit DEF MarketInit, AloneInv
<1>2. AloneInv /\ [MarketNext /\ UNCHANGED alone]_modeVars => AloneInv'
  <2> SUFFICES ASSUME AloneInv, [MarketNext /\ UNCHANGED alone]_modeVars PROVE AloneInv'
    OBVIOUS
  <2>1. [Next]_vars /\ alone' = alone
    BY ModesAreMarket DEF modeVars
  <2>2. TypeOK' /\ Inductive'
    BY <2>1, NextTypeOK, NextInductive DEF AloneInv
  <2>3. alone => HeldInv'
    BY HeldStep, HeldStutter DEF AloneInv, MarketNext, modeVars
  <2> QED
    BY <2>1, <2>2, <2>3 DEF AloneInv
<1> QED
  BY <1>1, <1>2, PTL DEF MarketSpec

(* What a route holds fits the signed order when it is booked. *)
LEMMA HoldingFits ==
  ASSUME TypeOK, BooksBalance, NEW r \in Routes
  PROVE  WithinSigned(r)
<1> SUFFICES ASSUME NEW o \in Active(r)
             PROVE  /\ filled[o] + qty[r][o] <= Sell[o]
                    /\ filledBuy[o] + pay[r][o] <= Buy[o]
  BY DEF WithinSigned
<1>1. o \in Orders /\ r \in Holders(o) /\ Booked(o)
  BY DEF Active, Holders, BooksBalance
<1>2. /\ reserved[o] = qty[r][o] /\ pay[r][o] = PriceOf(o, qty[r][o])
      /\ filled[o] + reserved[o] <= Sell[o]
  BY <1>1 DEF Booked
<1>3. PICK n \in Nat, buy \in Nat, sell \in Nat \ {0} :
        n = filled[o] + qty[r][o] /\ buy = Buy[o] /\ sell = Sell[o]
  <2>1. filled[o] \in Nat /\ qty[r][o] \in Nat /\ Buy[o] \in Nat /\ Sell[o] \in Nat \ {0}
    BY <1>1, MarketAssumption DEF TypeOK
  <2> QED
    BY <2>1
<1>4. n <= sell
  BY <1>2, <1>3
<1>5. RoundedUp(n * buy, sell) <= buy
  BY <1>4, RoundedUpWithin
<1>6. n * buy \in Nat
  BY <1>3
<1>7. RoundedUp(n * buy, sell) \in Nat
  BY <1>6, RoundedUpParts
<1>8. pay[r][o] = RoundedUp(n * buy, sell) - filledBuy[o] /\ filledBuy[o] \in Int
  BY <1>1, <1>2, <1>3 DEF PriceOf, CeilDiv, RoundedUp, TypeOK
<1>9. filledBuy[o] + pay[r][o] = RoundedUp(n * buy, sell)
  BY <1>7, <1>8
<1> QED
  BY <1>3, <1>4, <1>5, <1>9

(* While requests run one at a time, what is in execution is held and can  *)
(* be booked when the outcome is known (market-service.js), for any        *)
(* orders, routes and amounts.                                             *)
THEOREM InFlightIsHeld == MarketSpec => []AloneInFlightHeld
<1>1. AloneInv => AloneInFlightHeld
  <2> SUFFICES ASSUME AloneInv, alone, NEW r \in Routes,
                      chain[r] = "pending" \/ (chain[r] = "settled" /\ r \notin recorded)
               PROVE  Matches(r) /\ WithinSigned(r)
    BY DEF AloneInFlightHeld, InFlightHeld
  <2>1. TypeOK /\ BooksBalance /\ RouteHeld(r) /\ Resolved(r)
    BY DEF AloneInv, HeldInv, Inductive
  <2>2. Matches(r)
    BY <2>1 DEF RouteHeld, Resolved
  <2> QED
    BY <2>1, <2>2, HoldingFits
<1> QED
  BY <1>1, AloneInvariant, PTL
-----------------------------------------------------------------------------
(* Refinement of firm liquidity, step by step. What a route holds is the   *)
(* quantity of its active reservations.                                    *)

LEMMA HeldOf ==
  ASSUME NEW r \in Routes, NEW o \in Orders
  PROVE  Held[r][o] = IF rsv[r][o] = "ACTIVE" THEN qty[r][o] ELSE 0
BY DEF Held

LEMMA HeldKept ==
  ASSUME UNCHANGED qty,
         \A r \in Routes, o \in Orders : rsv'[r][o] = "ACTIVE" <=> rsv[r][o] = "ACTIVE"
  PROVE  Held' = Held
BY DEF Held

LEMMA OneRowMoves ==
  ASSUME NEW r \in Routes,
         \A x \in Routes, o \in Orders : x # r => Held'[x][o] = Held[x][o]
  PROVE  Held' = [Held EXCEPT ![r] = Held'[r]]
<1>1. PICK f : f = Held
  OBVIOUS
<1>2. PICK g : g = Held'
  OBVIOUS
<1>3. /\ f = [x \in Routes |-> f[x]] /\ g = [x \in Routes |-> g[x]]
      /\ \A x \in Routes : x # r => g[x] = f[x]
  BY <1>1, <1>2 DEF Held
<1>4. g = [f EXCEPT ![r] = g[r]]
  BY <1>3
<1> QED
  BY <1>1, <1>2, <1>4

(* The abstract module sums with an operator of its own.                   *)
LEMMA SameSum ==
  ASSUME NEW f, NEW S
  PROVE  Abstract!SumFunctionOnSet(f, S) = SumFunctionOnSet(f, S)
BY DEF Abstract!SumFunctionOnSet, Abstract!FoldFunctionOnSet, Abstract!MapThenFoldSet,
       SumFunctionOnSet, FoldFunctionOnSet, MapThenFoldSet

(* All the routes together hold what the order row calls reserved.         *)
LEMMA HeldTotal ==
  ASSUME TypeOK, NEW o \in Orders, Booked(o)
  PROVE  SumFunctionOnSet([r \in Routes |-> Held[r][o]], Routes) = reserved[o]
<1>1. PICK f : f = [r \in Routes |-> Held[r][o]]
  OBVIOUS
<1>2. \A r \in Routes : f[r] = IF r \in Holders(o) THEN qty[r][o] ELSE 0
  BY <1>1, HeldOf DEF Holders
<1>3. IsFiniteSet(Routes)
  BY MarketAssumption
<1>4. \A r \in Routes : f[r] \in Int
  BY <1>2 DEF TypeOK
<1>5. CASE Holders(o) = {}
  <2>1. SumFunctionOnSet(f, Routes) = 0
    BY <1>2, <1>3, <1>5, SumZero
  <2> QED
    BY <1>1, <1>5, <2>1 DEF Booked
<1>6. CASE Holders(o) # {}
  <2>1. PICK r \in Routes : r \in Holders(o)
    BY <1>6 DEF Holders
  <2>2. \A x \in Routes \ {r} : f[x] = 0
    BY <1>2, <2>1 DEF Booked
  <2>3. IsFiniteSet(Routes \ {r})
    BY <1>3, FS_RemoveElement
  <2>4. SumFunctionOnSet(f, Routes \ {r}) = 0
    BY <2>2, <2>3, SumZero
  <2>5. SumFunctionOnSet(f, Routes) = f[r] + SumFunctionOnSet(f, Routes \ {r})
    BY <1>3, <1>4, SumRemove
  <2>6. f[r] = reserved[o] /\ reserved[o] \in Nat
    BY <1>2, <2>1 DEF Booked, TypeOK
  <2> QED
    BY <1>1, <2>4, <2>5, <2>6
<1> QED
  BY <1>5, <1>6

LEMMA RoomIsAvailable ==
  ASSUME TypeOK, NEW o \in Orders, Booked(o)
  PROVE  Abstract!Room(o) = Available(o) /\ Available(o) \in Nat
<1>1. Abstract!SumFunctionOnSet([r \in Routes |-> Held[r][o]], Routes) = reserved[o]
  BY HeldTotal, SameSum
<1>2. Sell[o] \in Nat /\ filled[o] \in Nat /\ reserved[o] \in Nat
  BY MarketAssumption DEF TypeOK
<1> QED
  BY <1>1, <1>2 DEF Abstract!Room, Available, Booked

(* A route whose reservations are all active holds all it was quoted.      *)
LEMMA FullyHeld ==
  ASSUME TypeOK, BooksBalance, NEW r \in Routes, Matches(r), QuotedOnly(r)
  PROVE  Held[r] # Abstract!Nothing /\ Held[r] = qty[r]
<1>1. \A o \in Orders : Held[r][o] = qty[r][o]
  BY HeldOf DEF Matches, QuotedOnly
<1>2. Held[r] = qty[r]
  BY <1>1 DEF Held, TypeOK
<1>3. PICK o \in Orders : r \in Holders(o)
  BY DEF Matches, Active, Holders
<1>4. Held[r][o] > 0
  BY <1>1, <1>3 DEF BooksBalance, Booked
<1> QED
  BY <1>2, <1>4 DEF Abstract!Nothing

LEMMA GivesUp ==
  ASSUME TypeOK, NEW r \in Routes, chain[r] \in {"idle", "reverted"},
         UNCHANGED <<qty, filled, chain>>,
         \A x \in Routes, o \in Orders :
           rsv'[x][o] = rsv[x][o] \/ (x = r /\ rsv'[x][o] # "ACTIVE")
  PROVE  Abstract!Free(r)
<1>1. \A x \in Routes, o \in Orders : x # r => Held'[x][o] = Held[x][o]
  BY HeldOf DEF Held
<1>2. \A o \in Orders : Held'[r][o] \in {0, Held[r][o]}
  BY DEF Held
<1> QED
  BY <1>1, <1>2, OneRowMoves DEF Abstract!Free

firmVars == <<qty, Held, filled, chain>>
FirmStep == Abstract!FirmNext \/ UNCHANGED firmVars

LEMMA WithdrawIsFirm ==
  ASSUME TypeOK, Inductive, HeldInv, NEW o \in Orders, NEW final, Withdraw(o, final),
         UNCHANGED <<qty, filled, chain>>
  PROVE  FirmStep
<1>1. CASE Submitted(o) \/ Holders(o) = {}
  <2>1. \A r \in Routes : rsv'[r] = rsv[r]
    BY <1>1 DEF Withdraw
  <2> QED
    BY <2>1, HeldKept DEF FirmStep, firmVars
<1>2. CASE ~Submitted(o) /\ Holders(o) # {}
  <2>1. PICK r \in Routes : r \in Holders(o)
    BY <1>2 DEF Holders
  <2>2. \A x \in Routes : x # r => rsv'[x] = rsv[x]
    BY <1>2, <2>1 DEF Withdraw, Inductive, BooksBalance, Booked
  <2>3. \A x \in Orders : rsv'[r][x] = rsv[r][x] \/ rsv'[r][x] # "ACTIVE"
    BY <1>2, <2>1 DEF Withdraw, TypeOK
  <2>4. rstate[r] # "SUBMITTED" /\ RouteHeld(r) /\ Resolved(r) /\ o \in Active(r)
    BY <1>2, <2>1 DEF Submitted, HeldInv, Inductive, Holders, Active
  <2>5. chain[r] = "idle"
    BY <2>4 DEF RouteHeld, Resolved
  <2> QED
    BY <2>2, <2>3, <2>5, GivesUp DEF FirmStep, Abstract!FirmNext
<1> QED
  BY <1>1, <1>2

LEMMA ReleaseIsFirm ==
  ASSUME TypeOK, NEW r \in Routes, Release(r), UNCHANGED chain,
         chain[r] \in {"idle", "reverted"}
  PROVE  FirmStep
<1>1. \A x \in Routes, o \in Orders :
        rsv'[x][o] = rsv[x][o] \/ (x = r /\ rsv'[x][o] # "ACTIVE")
  BY ReleasedRow
<1>2. UNCHANGED <<qty, filled, chain>>
  BY ReleasedRow
<1> QED
  BY <1>1, <1>2, GivesUp DEF FirmStep, Abstract!FirmNext

LEMMA QuietIsFirm == ASSUME UNCHANGED <<rsv, qty, filled, chain>> PROVE FirmStep
BY HeldKept DEF FirmStep, firmVars

LEMMA ReserveIsFirm ==
  ASSUME TypeOK, Inductive, HeldInv, NEW p \in Procs, ReserveMarket(p)
  PROVE  FirmStep
<1>1. PICK r \in Routes : r = op[p].route
  BY CallParts DEF ReserveMarket, At
<1>2. /\ UNCHANGED chain /\ QuotedOnly(r) /\ \A o \in Orders : rsv[r][o] = "none"
  BY <1>1, InductiveParts DEF ReserveMarket, CallSound, HeldInv
<1>3. CASE UNCHANGED marketVars
  BY <1>2, <1>3, QuietIsFirm DEF marketVars, orderVars
<1>4. ASSUME NEW cand, NEW take \in [Orders -> 0..Want[r]],
             Greedy(cand, Want[r], take), Reserve(r, take)
      PROVE  FirmStep
  <2>1. qty[r] = Abstract!Nothing
    BY <1>2 DEF QuotedOnly, TypeOK, Abstract!Nothing
  <2>2. /\ qty' = [qty EXCEPT ![r] = take] /\ qty'[r] = take
        /\ \A o \in Orders : rsv'[r][o] = IF take[o] > 0 THEN "ACTIVE" ELSE "none"
        /\ UNCHANGED filled
    BY <1>4 DEF Reserve, TypeOK
  <2>3. \A x \in Routes, o \in Orders : x # r => Held'[x][o] = Held[x][o]
    BY <1>4 DEF Reserve, TypeOK, Held
  <2>4. \A o \in Orders : take[o] \in Nat
    BY MarketAssumption
  <2>5. Held'[r] = take
    <3>1. \A o \in Orders : Held'[r][o] = IF take[o] > 0 THEN take[o] ELSE 0
      BY <2>2 DEF Held
    <3>2. \A o \in Orders : Held'[r][o] = take[o]
      BY <2>4, <3>1
    <3> QED
      BY <3>2 DEF Held
  <2>6. take # Abstract!Nothing
    BY <1>4, GreedyTakes DEF Abstract!Nothing
  <2>7. \A o \in Orders : take[o] \in 0..Abstract!Room(o)
    <3> SUFFICES ASSUME NEW o \in Orders PROVE take[o] \in 0..Abstract!Room(o)
      OBVIOUS
    <3>1. Abstract!Room(o) = Available(o) /\ Available(o) \in Nat
      BY RoomIsAvailable DEF Inductive, BooksBalance
    <3>2. take[o] > 0 => take[o] <= Available(o)
      BY <1>4 DEF Greedy
    <3> QED
      BY <2>4, <3>1, <3>2
  <2>8. Abstract!Promise(r)
    BY <1>2, <2>1, <2>2, <2>3, <2>5, <2>6, <2>7, OneRowMoves DEF Abstract!Promise
  <2> QED
    BY <2>8 DEF FirmStep, Abstract!FirmNext
<1> QED
  BY <1>1, <1>3, <1>4 DEF ReserveMarket

LEMMA SubmitIsFirm ==
  ASSUME TypeOK, Inductive, HeldInv, NEW p \in Procs, OthersIdle(p), SubmitRoute(p)
  PROVE  FirmStep
<1>1. PICK r \in Routes : r = op[p].route
  BY CallParts DEF SubmitRoute, At
<1>2. UNCHANGED <<rsv, qty, filled>>
  BY DEF SubmitRoute, marketVars, orderVars
<1>3. CASE rstate[r] # "RESERVED"
  BY <1>1, <1>2, <1>3, QuietIsFirm DEF SubmitRoute
<1>4. CASE rstate[r] = "RESERVED"
  <2>1. ~GivingBack(r)
    BY DEF SubmitRoute, GivingBack, OthersIdle, At
  <2>2. Matches(r) /\ QuotedOnly(r) /\ chain[r] = "idle"
    BY <1>4, <2>1 DEF HeldInv, RouteHeld, Inductive, Resolved
  <2>3. Held[r] # Abstract!Nothing /\ Held[r] = qty[r]
    BY <2>2, FullyHeld DEF Inductive
  <2>4. chain' = [chain EXCEPT ![r] = "pending"]
    BY <1>1, <1>4 DEF SubmitRoute
  <2>5. Held' = Held
    BY <1>2, HeldKept
  <2>6. Abstract!Send(r)
    BY <1>2, <2>2, <2>3, <2>4, <2>5 DEF Abstract!Send
  <2> QED
    BY <2>6 DEF FirmStep, Abstract!FirmNext
<1> QED
  BY <1>3, <1>4

LEMMA FillIsFirm ==
  ASSUME TypeOK, BooksBalance, NEW r \in Routes, Matches(r), QuotedOnly(r), Fill(r),
         chain[r] = "settled", UNCHANGED chain
  PROVE  FirmStep
<1>1. Held[r] # Abstract!Nothing /\ Held[r] = qty[r]
  BY FullyHeld
<1>2. /\ UNCHANGED qty
      /\ \A x \in Routes : x # r => rsv'[x] = rsv[x]
      /\ \A o \in Orders : rsv'[r][o] # "ACTIVE"
  BY DEF Fill, TypeOK, Active, Spent
<1>3. filled' = [o \in Orders |-> filled[o] + Held[r][o]]
  <2>1. \A o \in Orders : filled[o] \in Nat
    BY DEF TypeOK
  <2>2. \A o \in Orders :
          (IF o \in Active(r) THEN filled[o] + qty[r][o] ELSE filled[o])
            = filled[o] + Held[r][o]
    BY <2>1, HeldOf DEF Active
  <2> QED
    BY <2>2 DEF Fill
<1>4. \A x \in Routes, o \in Orders : x # r => Held'[x][o] = Held[x][o]
  BY <1>2 DEF Held
<1>5. Held'[r] = Abstract!Nothing
  BY <1>2 DEF Held, Abstract!Nothing
<1>6. Held' = [Held EXCEPT ![r] = Abstract!Nothing]
  BY <1>4, <1>5, OneRowMoves
<1>7. Abstract!Book(r)
  BY <1>1, <1>2, <1>3, <1>6 DEF Abstract!Book
<1> QED
  BY <1>7 DEF FirmStep, Abstract!FirmNext

LEMMA ExecuteIsFirm == ASSUME NEW r \in Routes, Execute(r) PROVE FirmStep
<1>1. UNCHANGED <<rsv, qty, filled>>
  BY DEF Execute, marketVars, orderVars
<1>2. Held' = Held
  BY <1>1, HeldKept
<1>3. Abstract!Execute(r)
  BY <1>1, <1>2 DEF Execute, Abstract!Execute
<1> QED
  BY <1>3 DEF FirmStep, Abstract!FirmNext

LEMMA OrderStepIsFirm ==
  ASSUME TypeOK, Inductive, HeldInv, NEW p \in Procs, NEW o \in Orders, OrderStep(p, o)
  PROVE  FirmStep
<1>1. CASE AdmitOrder(p, o)
  BY <1>1, QuietIsFirm DEF AdmitOrder
<1>2. ASSUME Block(o) PROVE FirmStep
  BY <1>2, WithdrawIsFirm DEF Block
<1>3. CASE CancelOrder(p, o)
  BY <1>3, WithdrawIsFirm DEF CancelOrder
<1> QED
  BY <1>1, <1>2, <1>3 DEF OrderStep, BlockOrder, RevalidatePair, RevalidateReserved

LEMMA CallStepIsFirm ==
  ASSUME TypeOK, Inductive, HeldInv, NEW p \in Procs, OthersIdle(p), CallStep(p)
  PROVE  FirmStep
<1>1. CASE ReserveMarket(p)
  BY <1>1, ReserveIsFirm
<1>2. CASE SubmitRoute(p)
  BY <1>2, SubmitIsFirm
<1>3. CASE UNCHANGED <<marketVars, chain>>
  BY <1>3, QuietIsFirm DEF marketVars, orderVars
<1>4. CASE InsertRoute(p) \/ ReleaseMarket(p) \/ FailMarket(p) \/ ConfirmMarket(p)
  <2>1. PICK r \in Routes : r = op[p].route
    BY <1>4, CallParts DEF InsertRoute, ReleaseMarket, FailMarket, ConfirmMarket, At
  <2>2. CallHeld(p) /\ CallSound(p) /\ Resolved(r) /\ QuotedOnly(r) /\ UNCHANGED chain
    BY <1>4 DEF HeldInv, Inductive, InsertRoute, ReleaseMarket, FailMarket, ConfirmMarket
  <2>3. CASE InsertRoute(p)
    <3>1. chain[r] = "idle"
      BY <2>1, <2>2, <2>3 DEF InsertRoute, CallSound, Resolved
    <3> QED
      BY <1>3, <2>1, <2>2, <2>3, <3>1, ReleaseIsFirm DEF InsertRoute
  <2>4. CASE ReleaseMarket(p)
    <3>1. chain[r] = "idle" /\ Release(r)
      BY <2>1, <2>2, <2>4 DEF ReleaseMarket, CallHeld, Resolved
    <3> QED
      BY <2>2, <3>1, ReleaseIsFirm
  <2>5. CASE FailMarket(p)
    <3>1. chain[r] = "reverted"
      BY <2>1, <2>2, <2>5 DEF FailMarket, CallSound
    <3>2. UNCHANGED marketVars \/ Release(r)
      BY <2>1, <2>5 DEF FailMarket
    <3> QED
      BY <1>3, <2>2, <3>1, <3>2, ReleaseIsFirm
  <2>6. CASE ConfirmMarket(p)
    <3>1. chain[r] = "settled"
      BY <2>1, <2>2, <2>6 DEF ConfirmMarket, CallSound
    <3>2. UNCHANGED marketVars \/ (Matches(r) /\ Fill(r))
      BY <2>1, <2>6 DEF ConfirmMarket
    <3> QED
      BY <1>3, <2>2, <3>1, <3>2, FillIsFirm DEF Inductive
  <2> QED
    BY <1>4, <2>3, <2>4, <2>5, <2>6
<1>5. CASE ReleaseMark(p) \/ ConfirmMark(p) \/ FailMark(p)
  BY <1>3, <1>5 DEF ReleaseMark, ConfirmMark, FailMark
<1>6. CASE Normalize(p)
  BY <1>6, QuietIsFirm DEF Normalize
<1> QED
  BY <1>1, <1>2, <1>4, <1>5, <1>6 DEF CallStep

LEMMA StepIsFirm ==
  ASSUME TypeOK, Inductive, HeldInv, OneAtATime
  PROVE  FirmStep
<1>1. ASSUME NEW p \in Procs, NEW r \in Routes, RouteStart(p, r) PROVE FirmStep
  <2>1. UNCHANGED <<rsv, qty, filled, chain>>
    BY <1>1 DEF RouteStart, ReserveStart, SubmitStart, ReleaseStart, ConfirmStart,
                FailStart, marketVars, orderVars
  <2> QED
    BY <2>1, QuietIsFirm
<1> QED
  BY <1>1, OrderStepIsFirm, CallStepIsFirm, ExecuteIsFirm DEF OneAtATime

(* While requests run one at a time the market implements firm liquidity:  *)
(* every transaction of a call is a promise, a release, a submission, an   *)
(* outcome or a booking of FirmLiquidity, or changes nothing a route holds *)
(* (market-service.js, sqlite-market.js).                                  *)
THEOREM FirmLiquidityRefinement == MarketSpec => AloneImplementsFirmLiquidity
<1>1. MarketInit => Abstract!FirmInit
  BY DEF MarketInit, Init, Abstract!FirmInit, Abstract!Nothing, Held
<1>2. AloneInv /\ [MarketNext /\ UNCHANGED alone]_modeVars
        => [alone => Abstract!FirmNext]_(Abstract!firmVars)
  <2> SUFFICES ASSUME AloneInv, alone, [MarketNext /\ UNCHANGED alone]_modeVars
               PROVE  Abstract!FirmNext \/ UNCHANGED Abstract!firmVars
    OBVIOUS
  <2>1. CASE OneAtATime
    BY <2>1, StepIsFirm DEF AloneInv, FirmStep, firmVars, Abstract!firmVars
  <2>2. CASE UNCHANGED vars
    <3>1. UNCHANGED <<rsv, qty, filled, chain>>
      BY <2>2 DEF vars, marketVars, orderVars
    <3> QED
      BY <3>1, HeldKept DEF Abstract!firmVars
  <2> QED
    BY <2>1, <2>2 DEF MarketNext, modeVars
<1> QED
  BY <1>1, <1>2, AloneInvariant, PTL DEF MarketSpec, AloneImplementsFirmLiquidity
=============================================================================
