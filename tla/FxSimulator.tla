----------------------------- MODULE FxSimulator -----------------------------
(***************************************************************************)
(* The market simulator (packages/fx-simulator/src/simulator.js): requests *)
(* one after the other against sources that events take away and give back. *)
(* B is bought or sold in units; a plan takes the cheapest sources first   *)
(* and fills the whole request or nothing. Every principal is offered the  *)
(* whole room under the one hard limit.                                    *)
(***************************************************************************)
EXTENDS Integers, Sequences, SequencesExt, FiniteSets, FiniteSetsExt, Functions

CONSTANTS
  SimSources,       \* sequence of [type, name, size], cheapest first
  SimEvents,        \* sequences of [at, does, on], sorted by at
  SimOrders, MaxRequests, HardLimit, StormLeaves, Exposures

SimTypes == {"PRIVATE_MARKET", "BANK_PRINCIPAL", "ISSUER"}
SimNames == {SimSources[n].name : n \in DOMAIN SimSources}

ASSUME SimulatorAssumption ==
  /\ HardLimit \in Nat \ {0} /\ SimOrders \subseteq Nat \ {0} /\ StormLeaves \in Nat
  /\ SimSources \in Seq(Range(SimSources))
  /\ \A s \in Range(SimSources) : s.type \in SimTypes /\ s.size \in Nat
  /\ \A x \in Exposures : x \in -HardLimit..HardLimit

VARIABLES
  upcoming,       \* those not yet applied
  simStep,      \* index of the next request
  world,        \* [online, stormy: sets of names; reference, congested: BOOLEAN]
  exposure, peak,
  report       \* the counters of the report

simVars == <<upcoming, simStep, world, exposure, peak, report>>

Absolute(x) == IF x < 0 THEN -x ELSE x
Counters == {"requested", "filled", "risk", "none", "failed", "volume", "outage"}

SimTypeOK ==
  /\ simStep \in 0..MaxRequests /\ exposure \in Int /\ peak \in Nat
  /\ world \in [online : SUBSET SimNames, stormy : SUBSET SimNames,
                reference : BOOLEAN, congested : BOOLEAN]
  /\ report \in [count : [Counters -> Nat], by : [SimTypes -> Nat], start : Exposures]

SimInit ==
  /\ upcoming \in SimEvents /\ simStep = 0
  /\ world = [online |-> SimNames, stormy |-> {}, reference |-> TRUE, congested |-> FALSE]
  /\ exposure \in Exposures /\ peak = Absolute(exposure)
  /\ report = [count |-> [c \in Counters |-> 0], by |-> [t \in SimTypes |-> 0],
                start |-> exposure]

-----------------------------------------------------------------------------
(* applyEvent, for the events dated the next request; one dated earlier    *)
(* stands in the way of all that follow. After the last request the rest   *)
(* are applied.                                                            *)
EventEffect(e) ==
  CASE e.does = "SOURCE_OFFLINE" -> [world EXCEPT !.online = @ \ {e.on}]
    [] e.does = "SOURCE_ONLINE" -> [world EXCEPT !.online = @ \cup {e.on}]
    [] e.does = "CANCELLATION_STORM" -> [world EXCEPT !.stormy = @ \cup {e.on}]
    [] e.does = "CANCELLATION_RECOVERY" -> [world EXCEPT !.stormy = @ \ {e.on}]
    [] e.does = "REFERENCE_UNAVAILABLE" -> [world EXCEPT !.reference = FALSE]
    [] e.does = "REFERENCE_AVAILABLE" -> [world EXCEPT !.reference = TRUE]
    [] e.does = "CHAIN_CONGESTION" -> [world EXCEPT !.congested = TRUE]
    [] e.does = "CHAIN_RECOVERY" -> [world EXCEPT !.congested = FALSE]

EventDue == upcoming # <<>> /\ (Head(upcoming).at = simStep \/ simStep = MaxRequests)
ApplyEvent ==
  /\ EventDue
  /\ world' = EventEffect(Head(upcoming)) /\ upcoming' = Tail(upcoming)
  /\ UNCHANGED <<simStep, exposure, peak, report>>

(* makeSlice: what a source offers; the bank's room by direction.          *)
PrincipalRoom(buys) == IF buys THEN HardLimit + exposure ELSE HardLimit - exposure
OfferedBy(s, buys) ==
  IF s.name \notin world.online \/ (s.type = "BANK_PRINCIPAL" /\ ~world.reference) THEN 0
  ELSE IF s.type = "BANK_PRINCIPAL" THEN Min({s.size, Max({0, PrincipalRoom(buys)})})
  ELSE IF s.type = "PRIVATE_MARKET" /\ s.name \in world.stormy THEN Min({s.size, StormLeaves})
  ELSE s.size

(* planExactOutput: what the cheaper sources leave.                        *)
SimSlices(buys) == [n \in DOMAIN SimSources |-> OfferedBy(SimSources[n], buys)]
TakenBefore(n, buys) == SumFunctionOnSet(SimSlices(buys), 1..(n - 1))
FillOf(n, amount, buys) ==
  Max({0, Min({OfferedBy(SimSources[n], buys), amount - TakenBefore(n, buys)})})
FilledBy(type, amount, buys) ==
  SumFunctionOnSet([n \in DOMAIN SimSources |-> FillOf(n, amount, buys)],
                   {n \in DOMAIN SimSources : SimSources[n].type = type})
Coverable(amount, buys) == TakenBefore(Len(SimSources) + 1, buys) >= amount

PrincipalAtLimit(buys) == PrincipalRoom(buys) <= 0
CountedIn(names, amount, outage) ==
  [c \in Counters |->
     report.count[c] + (IF c \in names THEN 1 ELSE 0)
       + (IF c = "volume" /\ "filled" \in names THEN amount ELSE 0)
       + (IF c = "outage" /\ outage THEN 1 ELSE 0)]

Rejects(amount, buys, why) ==
  /\ report' = [report EXCEPT !.count = CountedIn({"requested", why}, amount, ~world.reference)]
  /\ UNCHANGED <<exposure, peak>>

AnyLimit(x) == TRUE      \* mutant: a plan is within the limit by its capacities
WithinHardLimit(x) == Absolute(x) <= HardLimit
SettleFill(amount, buys) ==
  LET took == FilledBy("BANK_PRINCIPAL", amount, buys)
      next == IF buys THEN exposure - took ELSE exposure + took
  IN  IF ~WithinHardLimit(next) THEN Rejects(amount, buys, "risk")
      ELSE \/ world.congested /\ Rejects(amount, buys, "failed")
           \/ /\ exposure' = next /\ peak' = Max({peak, Absolute(next)})
              /\ report' = [report EXCEPT
                   !.count = CountedIn({"requested", "filled"}, amount, ~world.reference),
                   !.by = [t \in SimTypes |-> @[t] + FilledBy(t, amount, buys)]]

SimRequest(amount, buys) ==
  /\ simStep < MaxRequests /\ ~EventDue
  /\ simStep' = simStep + 1
  /\ IF Coverable(amount, buys) THEN SettleFill(amount, buys)
     ELSE Rejects(amount, buys,
            IF PrincipalAtLimit(buys) /\ \E s \in Range(SimSources) :
                 s.type = "BANK_PRINCIPAL" /\ s.name \in world.online
            THEN "risk" ELSE "none")
  /\ UNCHANGED <<upcoming, world>>

SimNext == ApplyEvent \/ \E amount \in SimOrders, buys \in BOOLEAN : SimRequest(amount, buys)
SimSpec == SimInit /\ [][SimNext]_simVars

-----------------------------------------------------------------------------
(* The report adds up: every request is filled, rejected or failed once;   *)
(* what was filled is what the sources gave; the bank never stands beyond  *)
(* its limit although each of its principals was offered all of it, and    *)
(* stands no further from where it began than its principals gave          *)
(* (runSimulation).                                                        *)
SimulationAddsUp ==
  LET n == report.count IN
  /\ n["requested"] = simStep
  /\ n["filled"] + n["risk"] + n["none"] + n["failed"] = simStep /\ n["outage"] <= simStep
  /\ n["volume"] = SumFunctionOnSet(report.by, SimTypes)
  /\ Absolute(exposure) <= peak /\ peak <= HardLimit
  /\ Absolute(exposure - report.start) <= report.by["BANK_PRINCIPAL"]
=============================================================================
