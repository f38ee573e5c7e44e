----------------------------- MODULE RiskBook -----------------------------
(***************************************************************************)
(* The bank's own exposure (packages/fx-pricing/src/risk-book.js): settled *)
(* positions per asset, and what the firm quotes that draw on the bank's   *)
(* principal would add to them. Each operation is one database             *)
(* transaction; a call that throws changes nothing and is not a step.      *)
(***************************************************************************)
EXTENDS Integers, FiniteSetsExt

CONSTANTS
  Quotes,       \* quotes (random ids, never reused)
  Assets,
  HardLimits,   \* hard limits an operator configures
  Positions     \* settled positions an operator sets

ASSUME RiskAssumption ==
  /\ IsFiniteSet(Quotes)
  /\ HardLimits \subseteq Nat \ {0}
  /\ Positions \subseteq Int

VARIABLES
  settled, limit,   \* table principal_positions
  risk, delta       \* table principal_reservations: state, delta[q][asset]

riskVars == <<settled, limit, risk, delta>>

RiskStates == {"none", "ACTIVE", "RELEASED", "SETTLED"}

RiskTypeOK ==
  /\ settled \in [Assets -> Int]
  /\ limit \in [Assets -> Nat \ {0}]
  /\ risk \in [Quotes -> RiskStates]
  /\ delta \in [Quotes -> [Assets -> Int]]

RiskInit ==
  /\ settled = [a \in Assets |-> 0]
  /\ limit \in [Assets -> HardLimits]
  /\ risk = [q \in Quotes |-> "none"]
  /\ delta = [q \in Quotes |-> [a \in Assets |-> 0]]

Magnitude(n) == IF n < 0 THEN -n ELSE n

-----------------------------------------------------------------------------
(* activeReservedDelta *)
ActiveReserved(a) ==
  MapThenSumSet(LAMBDA q : delta[q][a], {q \in Quotes : risk[q] = "ACTIVE"})

(* checkDeltas: against what is settled and what is promised. *)
AgainstSettled(d) ==                     \* mutant: reservations are not counted
  \A a \in Assets : Magnitude(settled[a] + d[a]) <= limit[a]
WithinLimits(d) ==
  \A a \in Assets : Magnitude(settled[a] + ActiveReserved(a) + d[a]) <= limit[a]

ReserveRisk(q, d) ==
  /\ risk[q] = "none"
  /\ WithinLimits(d)
  /\ risk' = [risk EXCEPT ![q] = "ACTIVE"]
  /\ delta' = [delta EXCEPT ![q] = d]
  /\ UNCHANGED <<settled, limit>>

(* release: nothing to do unless the reservation is active. *)
ReleaseRisk(q) ==
  /\ risk' = [risk EXCEPT ![q] = IF @ = "ACTIVE" THEN "RELEASED" ELSE @]
  /\ UNCHANGED <<settled, limit, delta>>

(* settle: the event of a quote is booked once, and never past a limit. *)
BookedUnchecked(q) == risk[q] = "ACTIVE"   \* mutant: no limit at settlement
CanSettle(q) ==
  /\ risk[q] = "ACTIVE"
  /\ \A a \in Assets : Magnitude(settled[a] + delta[q][a]) <= limit[a]

SettleRisk(q) ==
  /\ IF risk[q] = "ACTIVE"
     THEN /\ settled' = [a \in Assets |-> settled[a] + delta[q][a]]
          /\ risk' = [risk EXCEPT ![q] = "SETTLED"]
     ELSE UNCHANGED <<settled, risk>>      \* the event was booked before
  /\ UNCHANGED <<limit, delta>>

-----------------------------------------------------------------------------
(* What an operator does to the book. *)

ConfigureAsset(a, l) ==
  /\ Magnitude(settled[a]) <= l
  /\ limit' = [limit EXCEPT ![a] = l]
  /\ UNCHANGED <<settled, risk, delta>>

SetSettledPosition(a, n) ==
  /\ Magnitude(n) <= limit[a]
  /\ settled' = [settled EXCEPT ![a] = n]
  /\ UNCHANGED <<limit, risk, delta>>

Operate ==
  \E a \in Assets :
    \/ \E l \in HardLimits : ConfigureAsset(a, l)
    \/ \E n \in Positions : SetSettledPosition(a, n)
=============================================================================
