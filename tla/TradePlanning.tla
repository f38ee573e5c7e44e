----------------------------- MODULE TradePlanning -----------------------------
(***************************************************************************)
(* The reference trade: an exact amount of the payer's money is turned     *)
(* into the largest payout the sources can serve, found by bisection over  *)
(* exact-output plans, and then firmed leg by leg while the sources go on  *)
(* changing. One pair and one trade. The life of the quote after that and  *)
(* the release of legs one by one are in FxQuotes; policy is in FxPolicy.  *)
(***************************************************************************)
EXTENDS Integers, SequencesExt

CONSTANTS
  Signed,              \* the market's orders in sequence: [num, den, size, filled]
  Slices, SliceTerms,  \* reference liquidity and what it may offer: [num, den, max]
  PrincipalTerms,      \* prices and room of the bank's principal: [num, den, max]
  InScale, OutScale,   \* token units in a minor unit of either side
  Asked,               \* amounts a payer may name, in minor units
  Remainder            \* what may be left uncharged, in minor units

VARIABLES
  standing,            \* orders that are open to takers
  slice,               \* what each slice offers
  principal,           \* what the principal offers
  trade                \* [state, asked, output, legs, owed, taken]

tradeVars == <<standing, slice, principal, trade>>

OrderIds == DOMAIN Signed
NoTrade == [state |-> "none", asked |-> 0, output |-> 0, legs |-> <<>>, owed |-> <<>>,
            taken |-> <<>>]

TradeInit ==
  /\ standing = OrderIds
  /\ slice \in [Slices -> SliceTerms]
  /\ principal \in PrincipalTerms
  /\ trade = NoTrade

-----------------------------------------------------------------------------
CeilDiv(n, d) == (n + d - 1) \div d
Cost(x, n) == CeilDiv(n * x.num, x.den)
Dearer(x, y) == x.num * y.den > y.num * x.den
SamePrice(x, y) == x.num * y.den = y.num * x.den
Added(s) == FoldSeq(LAMBDA n, total : n + total, 0, s)

(* An amount is taken from capacities in their order until it is met.      *)
Shares(caps, amount) ==
  LET upto[k \in 0 .. Len(caps)] == IF k = 0 THEN 0 ELSE upto[k - 1] + caps[k] IN
  [k \in DOMAIN caps |->
     IF upto[k] <= amount THEN caps[k] ELSE IF upto[k - 1] < amount THEN amount - upto[k - 1] ELSE 0]

Served(s) == SelectSeq(s, LAMBDA leg : leg.output > 0)

-----------------------------------------------------------------------------
(* The sources as slices (candidateSlices). The market shows a level for   *)
(* each price; the principal shows the size asked for or nothing.          *)
Left(o) == Signed[o].size - Signed[o].filled
Level(o) == {x \in standing : SamePrice(Signed[x], Signed[o])}

First(S) == CHOOSE x \in S : \A y \in S : x <= y

MarketSlices ==
  {[kind |-> "market", id |-> First(Level(o)),
    num |-> Signed[First(Level(o))].num, den |-> Signed[First(Level(o))].den,
    max |-> Added([k \in OrderIds |-> IF k \in Level(o) THEN Left(k) ELSE 0])]
     : o \in standing}

ReferenceSlices ==
  {[kind |-> "reference", id |-> s, num |-> slice[s].num, den |-> slice[s].den,
    max |-> slice[s].max] : s \in {x \in Slices : slice[x].max > 0}}

PrincipalSlices(amount) ==
  IF amount <= principal.max
  THEN {[kind |-> "principal", id |-> 0, num |-> Cost(principal, amount), den |-> amount,
         max |-> amount]}
  ELSE {}

Rank(kind) == CASE kind = "principal" -> 0 [] kind = "market" -> 1 [] OTHER -> 2
Better(x, y) ==
  \/ Dearer(y, x)
  \/ SamePrice(x, y) /\ (Rank(x.kind) < Rank(y.kind) \/ (x.kind = y.kind /\ x.id < y.id))

(* planExactOutput: best price first; no legs when the sources fall short. *)
Plan(amount) ==
  LET offered == SetToSortSeq(MarketSlices \cup ReferenceSlices
                                \cup PrincipalSlices(amount), Better)
      share == Shares([k \in DOMAIN offered |-> offered[k].max], amount)
  IN IF Added(share) < amount THEN <<>>
     ELSE Served([k \in DOMAIN offered |->
            [kind |-> offered[k].kind, id |-> offered[k].id, output |-> share[k],
             input |-> Cost(offered[k], share[k])]])

Charge(legs) == Added([k \in DOMAIN legs |-> legs[k].input])

-----------------------------------------------------------------------------
(* The largest payout within the budget, by bisection (planExactInput).    *)
Affordable(asked, output) ==
  LET legs == Plan(output * OutScale) IN legs # <<>> /\ Charge(legs) <= asked * InScale

PlanExactInput(asked) ==
  LET search[low \in 1 .. asked + 1, high \in 0 .. asked] ==
        IF low > high THEN 0
        ELSE LET middle == (low + high) \div 2 IN
             IF Affordable(asked, middle)
             THEN LET above == search[middle + 1, high] IN IF above = 0 THEN middle ELSE above
             ELSE search[low, middle - 1]
  IN search[1, asked]

Charged(legs) == CeilDiv(Charge(legs), InScale)

(* The plan is made again with nothing in between before it is firmed.     *)
ReserveExactInput(asked) ==
  LET output == PlanExactInput(asked)
      legs == Plan(output * OutScale)
  IN /\ trade = NoTrade
     /\ output > 0 /\ Charged(legs) + Remainder >= asked
     /\ trade' = [NoTrade EXCEPT !.state = "reserving", !.asked = asked, !.output = output,
                                 !.legs = legs]
     /\ UNCHANGED <<standing, slice, principal>>

-----------------------------------------------------------------------------
(* Firming one leg (source-adapters.js, reference-liquidity.js). Each      *)
(* source prices again what it gives, and refuses above the leg's price.   *)
Pay(o, n) == Cost(Signed[o], Signed[o].filled + n) - Cost(Signed[o], Signed[o].filled)

(* The market takes its own best orders, rounding each one's pay up.       *)
Best == SetToSortSeq(standing, LAMBDA x, y :
          Dearer(Signed[y], Signed[x]) \/ (SamePrice(Signed[x], Signed[y]) /\ x < y))
Fills(amount) ==
  LET share == Shares([k \in DOMAIN Best |-> Left(Best[k])], amount) IN
  [o \in standing |-> share[CHOOSE k \in DOMAIN Best : Best[k] = o]]
Paid(fills) ==
  Added([o \in OrderIds |-> IF o \in DOMAIN fills THEN Pay(o, fills[o]) ELSE 0])
Amount(fills) ==
  Added([o \in OrderIds |-> IF o \in DOMAIN fills THEN fills[o] ELSE 0])

Has(leg) ==
  CASE leg.kind = "market" -> Amount(Fills(leg.output)) = leg.output
    [] leg.kind = "reference" -> slice[leg.id].max >= leg.output
    [] OTHER -> principal.max >= leg.output

Asks(leg) ==
  CASE leg.kind = "market" -> Paid(Fills(leg.output))
    [] leg.kind = "reference" -> Cost(slice[leg.id], leg.output)
    [] OTHER -> Cost(principal, leg.output)

AtAnyPrice(leg) == TRUE            \* mutant: what a source now asks is not compared
WithinLeg(leg) == Asks(leg) <= leg.input

NextLeg == trade.legs[Len(trade.owed) + 1]

FirmLeg ==
  /\ trade.state = "reserving"
  /\ Has(NextLeg) /\ WithinLeg(NextLeg)
  /\ LET fills == IF NextLeg.kind = "market" THEN Fills(NextLeg.output)
                  ELSE [o \in standing |-> 0]
     IN /\ standing' = {o \in standing : fills[o] = 0}
        /\ trade' = [trade EXCEPT
             !.owed = Append(@, Asks(NextLeg)),
             !.taken = Append(@, IF NextLeg.kind = "market" THEN fills ELSE NextLeg.output),
             !.state = IF Len(trade.owed) + 1 = Len(trade.legs) THEN "reserved" ELSE @]
  /\ slice' = [s \in Slices |-> IF NextLeg.kind = "reference" /\ NextLeg.id = s
                 THEN [slice[s] EXCEPT !.max = @ - NextLeg.output] ELSE slice[s]]
  /\ principal' = IF NextLeg.kind = "principal"
                   THEN [principal EXCEPT !.max = @ - NextLeg.output] ELSE principal

(* A leg that cannot be had gives back the ones before it.                 *)
LegsOf(kind) == {k \in DOMAIN trade.taken : trade.legs[k].kind = kind}
TakenFrom(kind, id) ==
  Added([k \in DOMAIN trade.taken |->
    IF k \in LegsOf(kind) /\ trade.legs[k].id = id THEN trade.taken[k] ELSE 0])
Held == {o \in OrderIds : \E k \in LegsOf("market") :
           o \in DOMAIN trade.taken[k] /\ trade.taken[k][o] > 0}

LoseLeg ==
  /\ trade.state = "reserving"
  /\ ~(Has(NextLeg) /\ WithinLeg(NextLeg))
  /\ standing' = standing \cup Held
  /\ slice' = [s \in Slices |-> [slice[s] EXCEPT !.max = @ + TakenFrom("reference", s)]]
  /\ principal' = [principal EXCEPT !.max = @ + TakenFrom("principal", 0)]
  /\ trade' = [trade EXCEPT !.state = "failed"]

(* Meanwhile orders come and go, slices are stored again and the           *)
(* principal's price and room move.                                        *)
SourcesMove ==
  /\ trade.state \in {"none", "reserving"}
  /\ \/ /\ \E o \in OrderIds \ Held : standing' = (standing \ {o}) \cup ({o} \ standing)
        /\ UNCHANGED <<slice, principal>>
     \/ /\ \E s \in Slices, terms \in SliceTerms : slice' = [slice EXCEPT ![s] = terms]
        /\ UNCHANGED <<standing, principal>>
     \/ principal' \in PrincipalTerms /\ UNCHANGED <<standing, slice>>
  /\ UNCHANGED trade

TradeNext ==
  (\E asked \in Asked : ReserveExactInput(asked)) \/ FirmLeg \/ LoseLeg \/ SourcesMove

-----------------------------------------------------------------------------
(* A trade pays out the most its budget could buy when it was planned; and *)
(* when it is firm the payer is charged no more than was asked, nearly all *)
(* of it, the sources hold the whole payout, and are owed no more than the *)
(* payer is charged, however prices and orders moved leg by leg            *)
(* (reference-trade-coordinator.js, optimizer.js, source-adapters.js).     *)
PlannedBest ==
  trade.state = "none" /\ trade'.state = "reserving" =>
    \A more \in 1 .. trade'.asked : more > trade'.output => ~Affordable(trade'.asked, more)

Secured(k) == IF trade.legs[k].kind = "market" THEN Amount(trade.taken[k]) ELSE trade.taken[k]

FirmAsAsked ==
  trade.state = "reserved" =>
    /\ Charged(trade.legs) \in trade.asked - Remainder .. trade.asked
    /\ Added([k \in DOMAIN trade.legs |-> Secured(k)]) = trade.output * OutScale
    /\ Added(trade.owed) <= Charged(trade.legs) * InScale

TradesHonest == [][PlannedBest /\ FirmAsAsked']_tradeVars
=============================================================================
