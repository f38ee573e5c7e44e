----------------------------- MODULE SwapMarket -----------------------------
(***************************************************************************)
(* The banking API's own coin market. A taker's intent crosses resting     *)
(* makers at the mid, oldest first, then the pool the liquidity providers  *)
(* committed, then the operator's own book up to its appetite; the plan    *)
(* settles whole or the request fails whole. Firm quotes are filled from   *)
(* the operator's book.                                                    *)
(*                                                                         *)
(* A trader's account in a coin is the trader's book in that coin. What    *)
(* the price formula says of a corridor is any spread of Spreads.          *)
(***************************************************************************)
EXTENDS BankCustomers, NodeClock, SequencesExt, FiniteSets

CONSTANTS
  Traders,           \* verified customers
  Traded,            \* the coins of the corridors
  MidOf,             \* [Currencies -> Nat]: value of a unit of each coin
  Spreads,           \* basis points a fill may cost
  Share,             \* [Traders -> basis points of the spread a provider earns]
  IntentIds, PositionIds, RfqIds,     \* each 1 .. n
  Sizes,             \* amounts a request may name
  Appetites,         \* positions the operator may allow itself
  IntentLife, RfqWindow,
  MaxRows,           \* bound: intents, positions and quotes in one run
  Endowment          \* what every trader holds of every coin at the start

VARIABLES
  intent,            \* [status, mode, who, from, to, remaining, expiresAt]
  position,          \* [status, who, from, coin, committed]
  rfq,               \* [status, who, from, to, pays, gets, expiresAt]
  maxPosition        \* the operator's appetite; 0 when it is switched off

swapVars == <<intent, position, rfq, maxPosition>>

ASSUME SwapAssumption ==
  /\ \A c \in Traded : MidOf[c] \in Nat \ {0}
  /\ Spreads \subseteq 0 .. 10000
  /\ \A t \in Traders : Share[t] \in 0 .. 9500

Pool == "lp:"           \* the corridor's pool: one book for each coin
Principal == "principal:"
Earned == "spread:"

SwapTypeOK ==
  /\ intent \in [IntentIds -> [status : {"none", "open", "filled", "cancelled"},
        mode : {"maker", "taker"}, who : Traders \cup {NoOne}, from : Currencies,
        to : Currencies, remaining : Nat, expiresAt : Nat]]
  /\ position \in [PositionIds -> [status : {"none", "active", "withdrawn"},
        who : Traders \cup {NoOne}, coin : Currencies, committed : Nat]]
  /\ rfq \in [RfqIds -> [status : {"none", "open", "accepted"}, who : Traders \cup {NoOne},
        from : Currencies, to : Currencies, pays : Nat, gets : Nat, expiresAt : Nat]]
  /\ maxPosition \in Nat

SwapInit ==
  /\ LET c == AnyCurrency IN
       /\ intent = [i \in IntentIds |-> [status |-> "none", mode |-> "taker", who |-> NoOne,
            from |-> c, to |-> c, remaining |-> 0, expiresAt |-> 0]]
       /\ position = [p \in PositionIds |->
            [status |-> "none", who |-> NoOne, coin |-> c, committed |-> 0]]
       /\ rfq = [r \in RfqIds |-> [status |-> "none", who |-> NoOne, from |-> c, to |-> c,
            pays |-> 0, gets |-> 0, expiresAt |-> 0]]
  /\ maxPosition \in Appetites

-----------------------------------------------------------------------------
(* Exact conversion: always rounded down.                                  *)
AtMid(n, from, to) == (n * MidOf[from]) \div MidOf[to]
WithSpread(n, from, to, bps) == (n * MidOf[from] * (10000 - bps)) \div (MidOf[to] * 10000)

(* What a provider earns of the spread a fill of the pool produced.        *)
Providers(coin) == {p \in PositionIds : position[p].status = "active" /\ position[p].coin = coin}
Committed(coin) == SumOf(Providers(coin), LAMBDA p : position[p].committed)

Cut(p, spread) ==
  (((spread * position[p].committed) \div Committed(position[p].coin))
     * Share[position[p].who]) \div 10000

Credits(coin, spread) ==
  FoldSet(LAMBDA p, entries :
            Together(entries, Moved(Cut(p, spread), coin, Earned, position[p].who)),
          Moved(0, coin, Earned, Pool), Providers(coin))

(* The postings of one fill: the taker's coin in, the net coin out, the    *)
(* spread between them, and the providers' share of it.                    *)
GrossOut(take, from, to) == AtMid(take, from, to)

FillEntries(who, from, to, counter, take, out) ==
  LET spread == GrossOut(take, from, to) - out
      trade == Together(Moved(take, from, who, counter), Moved(out, to, counter, who))
      kept == Together(trade, Moved(spread, to, counter, Earned))
  IN  IF counter = Pool /\ spread > 0 THEN Together(kept, Credits(to, spread)) ELSE kept

-----------------------------------------------------------------------------
(* The plan of a taker: what is left to fill, what it receives, the makers *)
(* it uses up and everything it posts.                                     *)
Resting(who, from, to) ==
  {m \in IntentIds :
     /\ intent[m].status = "open" /\ intent[m].mode = "maker" /\ now < intent[m].expiresAt
     /\ intent[m].from = to /\ intent[m].to = from /\ intent[m].who # who}

OldestFirst(S) == SetToSortSeq(S, <)

MakerTake(plan, m, from, to) ==
  LET capacity == AtMid(intent[m].remaining, to, from)
  IN  IF plan.left < capacity THEN plan.left ELSE capacity

(* A maker whose balance no longer covers its part is passed over; two     *)
(* orders of one maker are each compared with the same balance.            *)
CrossMaker(plan, m, who, from, to, bps) ==
  LET take == MakerTake(plan, m, from, to)
      gross == GrossOut(take, from, to)
      out == WithSpread(take, from, to, bps)
  IN  IF take = 0 \/ Holds(intent[m].who, to) < gross THEN plan
      ELSE [left |-> plan.left - take, out |-> plan.out + out,
            used |-> plan.used @@ (m :> gross),
            entries |-> Together(plan.entries,
                                 FillEntries(who, from, to, intent[m].who, take, out))]

Backstop(plan, counter, who, from, to, bps) ==
  LET out == WithSpread(plan.left, from, to, bps)
  IN  [plan EXCEPT !.left = 0, !.out = @ + out,
                   !.entries = Together(@, FillEntries(who, from, to, counter, plan.left, out))]

PoolCovers(n, from, to) == Holds(Pool, to) >= GrossOut(n, from, to)

Size(n) == IF n < 0 THEN -n ELSE n
PrincipalAvailable(n, from) ==
  maxPosition > 0 /\ Size(Holds(Principal, from)) + n <= maxPosition

Ladder(who, from, to, n, bps) ==
  LET start == [left |-> n, out |-> 0, used |-> <<>>, entries |-> Moved(0, from, who, Pool)]
      crossed == FoldLeft(LAMBDA plan, m : CrossMaker(plan, m, who, from, to, bps),
                          start, OldestFirst(Resting(who, from, to)))
  IN  IF crossed.left = 0 THEN crossed
      ELSE IF PoolCovers(crossed.left, from, to)
      THEN Backstop(crossed, Pool, who, from, to, bps)
      ELSE IF PrincipalAvailable(crossed.left, from)
      THEN Backstop(crossed, Principal, who, from, to, bps)
      ELSE crossed

-----------------------------------------------------------------------------

Intent(status, mode, who, from, to, remaining) ==
  [status |-> status, mode |-> mode, who |-> who, from |-> from, to |-> to,
   remaining |-> remaining, expiresAt |-> now + IntentLife]

Rest(i, who, from, to, n) ==
  /\ i \in FirstFree(IntentIds, intent) /\ n <= Holds(who, from)
  /\ intent' = [intent EXCEPT ![i] = Intent("open", "maker", who, from, to, n)]
  /\ UNCHANGED <<ledger, position, rfq, maxPosition>>

(* A taker that is not filled whole stays open, and is never matched again. *)
Take(i, who, from, to, n, atLeast, bps) ==
  LET plan == Ladder(who, from, to, n, bps)
      left(m) == intent[m].remaining - plan.used[m]
  IN
  /\ i \in FirstFree(IntentIds, intent) /\ n <= Holds(who, from)
  /\ plan.out >= atLeast
  /\ Post(plan.entries)
  /\ intent' = [m \in IntentIds |->
       IF m = i
       THEN Intent(IF plan.left = 0 THEN "filled" ELSE "open", "taker", who, from, to, plan.left)
       ELSE IF m \notin DOMAIN plan.used THEN intent[m]
       ELSE [intent[m] EXCEPT !.remaining = left(m),
                              !.status = IF left(m) <= 0 THEN "filled" ELSE "open"]]
  /\ UNCHANGED <<position, rfq, maxPosition>>

CancelIntent(i) ==
  /\ intent[i].status = "open"
  /\ intent' = [intent EXCEPT ![i].status = "cancelled"]
  /\ UNCHANGED <<ledger, position, rfq, maxPosition>>

-----------------------------------------------------------------------------
(* Liquidity provision. A withdrawal returns what the pool holds of the    *)
(* coin, at most what was committed, and ends the position either way.     *)
Commit(p, who, coin, n) ==
  /\ p \in FirstFree(PositionIds, position) /\ n <= Holds(who, coin)
  /\ Move(n, coin, who, Pool)
  /\ position' = [position EXCEPT ![p] =
       [status |-> "active", who |-> who, coin |-> coin, committed |-> n]]
  /\ UNCHANGED <<intent, rfq, maxPosition>>

GivesAll(p) == position[p].committed      \* mutant: not what the pool holds
Given(p) ==
  LET pooled == Holds(Pool, position[p].coin)
  IN  IF pooled < position[p].committed THEN pooled ELSE position[p].committed

WithdrawLiquidity(p) ==
  /\ position[p].status = "active"
  /\ IF Given(p) > 0 THEN Move(Given(p), position[p].coin, Pool, position[p].who)
     ELSE UNCHANGED ledger
  /\ position' = [position EXCEPT ![p].status = "withdrawn"]
  /\ UNCHANGED <<intent, rfq, maxPosition>>

-----------------------------------------------------------------------------
(* Firm quotes. The headroom is read when the quote is given, is not       *)
(* reserved, and is not read again when it is accepted.                    *)
AskFirm(r, who, from, to, n, bps) ==
  /\ r \in FirstFree(RfqIds, rfq)
  /\ PrincipalAvailable(n, from)
  /\ rfq' = [rfq EXCEPT ![r] = [status |-> "open", who |-> who, from |-> from, to |-> to,
       pays |-> n, gets |-> WithSpread(n, from, to, bps), expiresAt |-> now + RfqWindow]]
  /\ UNCHANGED <<ledger, intent, position, maxPosition>>

AcceptFirm(r) ==
  /\ rfq[r].status = "open" /\ now < rfq[r].expiresAt
  /\ rfq[r].pays <= Holds(rfq[r].who, rfq[r].from)
  /\ Post(FillEntries(rfq[r].who, rfq[r].from, rfq[r].to, Principal, rfq[r].pays, rfq[r].gets))
  /\ rfq' = [rfq EXCEPT ![r].status = "accepted"]
  /\ UNCHANGED <<intent, position, maxPosition>>

SetAppetite(n) ==
  /\ n # maxPosition
  /\ maxPosition' = n
  /\ UNCHANGED <<ledger, intent, position, rfq>>

Rows ==
  LET used(ids, row) == Cardinality({n \in ids : row[n].status # "none"})
  IN  used(IntentIds, intent) + used(PositionIds, position) + used(RfqIds, rfq)

SwapNext ==
  \/ Rows < MaxRows /\ \E who \in Traders, from \in Traded, to \in Traded, n \in Sizes :
       /\ from # to
       /\ \/ \E i \in IntentIds : Rest(i, who, from, to, n)
          \/ \E i \in IntentIds, bps \in Spreads : Take(i, who, from, to, n, 1, bps)
          \/ \E r \in RfqIds, bps \in Spreads : AskFirm(r, who, from, to, n, bps)
  \/ \E i \in IntentIds : CancelIntent(i)
  \/ Rows < MaxRows /\ \E p \in PositionIds, who \in Traders, coin \in Traded, n \in Sizes :
       Commit(p, who, coin, n)
  \/ \E p \in PositionIds : WithdrawLiquidity(p)
  \/ \E r \in RfqIds : AcceptFirm(r)
  \/ \E n \in Appetites : SetAppetite(n)

-----------------------------------------------------------------------------
Value(holder) == SumOf(Traded, LAMBDA c : Holds(holder, c) * MidOf[c])

(* At the mids the engine uses, the pools are always worth at least what   *)
(* the active providers committed, whatever trades, earnings and           *)
(* withdrawals came before, and no earning is paid out of anything but the *)
(* spread takers paid (fx-swap.js settle; fx-lp.js creditProviders and     *)
(* withdraw).                                                              *)
ProvidersCovered ==
  /\ Value(Pool) >= SumOf(Traded, LAMBDA c : Committed(c) * MidOf[c])
  /\ \A c \in Traded : Holds(Pool, c) >= 0 /\ Holds(Earned, c) >= 0

-----------------------------------------------------------------------------
(***************************************************************************)
(* What the banking API asks for a swap: the resting depth of both         *)
(* directions, and from it a spread that widens with the flow's imbalance  *)
(* and with the size against the depth, or narrows by a rebate on the side *)
(* that is short. All in hundredths of a basis point and rounded integers. *)
(***************************************************************************)
CONSTANTS
  Makers,            \* orders that may rest
  RestSizes,         \* what an order may have, in minor units
  RestLife,
  Askings            \* sizes a taker may ask a price for

VARIABLE
  book               \* [Makers -> [side, left, until]]: the orders of one corridor

Unrested == [left |-> 0]
Sides == {"with", "against"}

PriceTypeOK ==
  book \in [Makers -> [side : Sides, left : RestSizes, until : Nat] \cup {Unrested}]
PriceInit == book = [m \in Makers |-> Unrested]

-----------------------------------------------------------------------------
BASE == 400                  \* BASE_BPS, all in hundredths
MAX_SKEW == 12000
SIZE_IMPACT == 4800
MAX_REBATE == 800
SCALE == 1000000             \* RATIO_SCALE
REBATE_FROM == 350000
MAJOR == 100
THIN == 10000000

(* Halves are rounded away from zero.                                      *)
RoundedDiv(n, d) == IF n < 0 THEN -((-n + d \div 2) \div d) ELSE (n + d \div 2) \div d
Ratio(n, d) == IF d = 0 THEN 0 ELSE RoundedDiv(n * SCALE, d)
AtMost(n, limit) == IF n < limit THEN n ELSE limit

(* A ratio's part of a bound that SCALE and the bound share 100 of.        *)
PartOf(bound, ratio) == RoundedDiv((bound \div 100) * ratio, SCALE \div 100)

(* Positive when more rests on the taker's own side than it would meet.    *)
Imbalance(here, there) == Ratio(here - there, here + there)

(* An empty other side counts as one major unit of depth.                  *)
DepthAgainst(there) == IF there = 0 THEN MAJOR ELSE there
Impact(there, size) == AtMost(Ratio(size, DepthAgainst(there)), SCALE)

Rebate(here, there) ==
  LET over == -Imbalance(here, there) - REBATE_FROM
  IN  IF over <= 0 THEN 0        \* 20 / 13 is SCALE over what is left of it
      ELSE PartOf(MAX_REBATE, AtMost(RoundedDiv(over * 20, 13), SCALE))

Skew(here, there) ==
  IF Imbalance(here, there) <= 0 THEN 0
  ELSE PartOf(MAX_SKEW, Imbalance(here, there))

Widened(here, there, size) ==
  BASE + Skew(here, there) + PartOf(SIZE_IMPACT, Impact(there, size))
SkewOnBothSides(here, there, size) ==      \* mutant: the sign of the imbalance is lost
  BASE + Skew(here, there) + Skew(there, here)

(* Past the threshold the size of the taker is not looked at any more, and *)
(* a rebate beyond the base is not paid out.                               *)
Spread100(here, there, size) ==
  IF -Imbalance(here, there) > REBATE_FROM
  THEN IF Rebate(here, there) < BASE THEN BASE - Rebate(here, there) ELSE 0
  ELSE Widened(here, there, size)

Liquidity(here, there) ==
  IF here + there = 0 THEN "none" ELSE IF here + there < THIN THEN "thin" ELSE "deep"
SettlesNow(here, there, size) == there >= size /\ Liquidity(here, there) # "none"

-----------------------------------------------------------------------------
Live(m) == book[m] # Unrested /\ now < book[m].until
RestingDepth(side) ==
  MapThenSumSet(LAMBDA m : book[m].left, {m \in Makers : Live(m) /\ book[m].side = side})

PriceNow(size) == Spread100(RestingDepth("with"), RestingDepth("against"), size)

RestOrder(m, side, n) ==
  /\ book[m] = Unrested
  /\ book' = [book EXCEPT ![m] = [side |-> side, left |-> n, until |-> now + RestLife]]

(* Matched in part or whole, or cancelled.                                 *)
Reduce(m, n) ==
  /\ Live(m)
  /\ n < book[m].left /\ n \in RestSizes \cup {0}
  /\ book' = [book EXCEPT ![m] = IF n = 0 THEN Unrested ELSE [@ EXCEPT !.left = n]]

PriceNext ==
  \/ \E m \in Makers, side \in Sides, n \in RestSizes : RestOrder(m, side, n)
  \/ \E m \in Makers, n \in RestSizes \cup {0} : Reduce(m, n)

-----------------------------------------------------------------------------
(* Depths that follow from one more order on a side.                       *)
Deeper(n) == {n + more : more \in RestSizes}

(* Whatever rests in a corridor: asking for more never costs less, an      *)
(* order that competes with the taker never makes it cheaper, and one that *)
(* would serve it never makes it dearer once a major unit rests there; at  *)
(* most one direction pays a skew and the other a rebate; and what the     *)
(* price takes stays a part of the amount (pricing.js priceCorridor,       *)
(* fx-swap.js restingDepth).                                               *)
PricesInOrder ==
  LET here == RestingDepth("with")
      there == RestingDepth("against")
  IN  /\ \A size, larger \in Askings :
           size <= larger => Spread100(here, there, size) <= Spread100(here, there, larger)
      /\ \A size \in Askings :
           /\ PriceNow(size) \in 0 .. BASE + MAX_SKEW + SIZE_IMPACT
           /\ \A more \in Deeper(here) : PriceNow(size) <= Spread100(more, there, size)
           /\ there >= MAJOR =>
                \A more \in Deeper(there) : Spread100(here, more, size) <= PriceNow(size)
           /\ SettlesNow(here, there, size) => PriceNow(size) < 1000000
      /\ Rebate(here, there) > 0 => Rebate(there, here) = 0 /\ Skew(here, there) = 0
=============================================================================
