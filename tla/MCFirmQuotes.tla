---------------------------- MODULE MCFirmQuotes ----------------------------
(***************************************************************************)
(* Small instances of the two ends of a firm quote, of which a behaviour   *)
(* exercises one. "contracts" is AtomicSettlement: a maker with two orders *)
(* that compete for its balance, at prices that round, and a taker.        *)
(* "coordinator" is FxQuotes: a reference source, a maker order and the    *)
(* bank, cheapest first, and quotes that need more than one of them.       *)
(***************************************************************************)
EXTENDS AtomicSettlement, FxQuotes, TLC

CONSTANTS m, t, a, b, o1, o2, i1, i2, k, q1, q2, Parts

VARIABLE part

firmVars == <<part, settlementVars, vars>>

AnyOf(S) == CHOOSE x \in S : TRUE

(* Bound of the exploration: the operator tightens one limit at a time.    *)
Tight(limits, x) == ~ \A l \in HardLimits : l <= limits[x]
OneTightLimit(limits) == ~ \A x \in Assets : Tight(limits, x)

FirmInit ==
  /\ part \in Parts
  /\ SettlementInit /\ Init
  /\ part # "coordinator" =>
       /\ limit = [x \in Assets |-> AnyOf(HardLimits)]
       /\ max = [s \in Books |-> AnyOf(Capacity)]
  /\ part = "coordinator" => OneTightLimit(limit)

FirmNext ==
  /\ UNCHANGED part
  /\ \/ part = "contracts" /\ SettlementNext /\ UNCHANGED vars
     \/ part = "coordinator" /\ Next /\ OneTightLimit(limit') /\ UNCHANGED settlementVars

FirmSpec == FirmInit /\ [][FirmNext]_firmVars

-----------------------------------------------------------------------------
Terms == [o \in Orders |->
  IF o = o1 THEN [maker |-> m, recipient |-> m, sellToken |-> b, buyToken |-> a,
                  sellAmount |-> 3, buyAmount |-> 2, epoch |-> 1]
  ELSE [maker |-> m, recipient |-> m, sellToken |-> b, buyToken |-> a,
        sellAmount |-> 1, buyAmount |-> 1, epoch |-> 0]]
Wishes == [i \in Intents |->
  IF i = i1 THEN [taker |-> t, recipient |-> t, inputToken |-> a, outputToken |-> b,
                  maxInput |-> 2, minOutput |-> 2, nonce |-> 1, policy |-> k]
  ELSE [taker |-> m, recipient |-> m, inputToken |-> a, outputToken |-> b,
        maxInput |-> 1, minOutput |-> 1, nonce |-> 1, policy |-> k]]
TakerInput == {<<a, t>>}

Asked == [q \in Quotes |-> 2]
OperatorPositions == {0}
QuoteSymmetry == Permutations(Quotes)

(* The taker wants its single unit back: nothing but the vault moves.      *)
LeaverSpec ==
  /\ FirmInit
  /\ [][NoCancelStep /\ UNCHANGED <<part, fillVars, guardVars, usedNonce, route, vars>>]_firmVars
  /\ LeaverFairness
=============================================================================
