--------------------------- MODULE FxQuotesProofs ---------------------------
(***************************************************************************)
(* Proofs about FxQuotes, for any number of quotes, sources and assets and *)
(* any capacities, limits and prices, with crashes and database errors.    *)
(***************************************************************************)
EXTENDS FxQuotes, SumTheorems

(* The invariant that is inductive: what the state of a quote, of its      *)
(* execution and of a call that awaits say about its legs.                 *)
CallMatchesQuote(q) ==
  /\ call[q].step \in {"reserve", "insert", "undo", "unwind"} => qstate[q] = "none"
  /\ call[q].step \in {"release", "mark"} =>
       /\ qstate[q] \in {"RESERVED", "EXPIRED"}
       /\ \E s \in Legs(q) : ~Live(q, s)
  /\ call[q].step \in {"reserve", "undo", "unwind", "release"} => call[q].at \in Legs(q)
  /\ call[q].step = "release" =>
       \A s \in Legs(q) : s > call[q].at => ~Live(q, s)
  /\ call[q].step = "mark" => \A s \in Legs(q) : ~Live(q, s)
  /\ qstate[q] # "none" \/ call[q].step # "idle" => Legs(q) # {}

(* Before it is submitted a quote is neither executed nor booked.          *)
UnsubmittedIsUnused(q) ==
  qstate[q] \in {"none", "RESERVED", "EXPIRED", "RELEASED"} =>
    /\ chain[q] = "none"
    /\ \A s \in Books : leg[q][s] \notin {"SUBMITTED", "CONSUMED", "FAILED"}
    /\ risk[q] # "SETTLED"

SubmittedHolds(q) ==
  qstate[q] = "SUBMITTED" =>
    /\ chain[q] \in {"none", "reverted"} => \A s \in Legs(q) : ~Spent(q, s)
    /\ chain[q] = "pending" => \A s \in Legs(q) :
         IF s = Principal THEN risk[q] = "ACTIVE" ELSE leg[q][s] = "SUBMITTED"
    /\ chain[q] = "settled" => \A s \in Legs(q) :
         IF s = Principal THEN risk[q] \in {"ACTIVE", "SETTLED"}
         ELSE leg[q][s] \in {"SUBMITTED", "CONSUMED"}

TerminalIsOver(q) ==
  /\ qstate[q] = "CONFIRMED" => \A s \in Legs(q) : Spent(q, s)
  /\ qstate[q] \in {"FAILED", "EXPIRED", "RELEASED"} =>
       \A s \in Legs(q) : ~Live(q, s) /\ ~Spent(q, s)

Coherent(q) ==
  CallMatchesQuote(q) /\ UnsubmittedIsUnused(q) /\ SubmittedHolds(q) /\ TerminalIsOver(q)

Inductive == \A q \in Quotes : Coherent(q)

-----------------------------------------------------------------------------
(* Lemmas about the operators *)

(* A set of sources that is not empty has a first element and a last.      *)
LEMMA MinIsFirst ==
  ASSUME NEW S \in SUBSET Sources, S # {}
  PROVE  Min(S) \in S /\ \A x \in S : Min(S) <= x
<1> DEFINE First(n) == n \in S /\ \A m \in S : n <= m
<1>1. S \in SUBSET Nat
  BY DEF Sources
<1>2. \E n : First(n)
  BY <1>1, LeastNumber
<1>3. First(CHOOSE n : First(n))
  <2> HIDE DEF First
  <2> QED
    BY <1>2
<1>4. Min(S) = CHOOSE n : First(n)
  BY DEF Min
<1> QED
  BY <1>3, <1>4

LEMMA MaxIsLast ==
  ASSUME NEW S \in SUBSET Sources, S # {}
  PROVE  Max(S) \in S /\ \A x \in S : Max(S) >= x
<1> DEFINE Last(n) == n \in S /\ \A m \in S : n >= m
<1> DEFINE Mirror == {N - x : x \in S}
<1>1. N \in Nat /\ \A x \in S : x \in Nat /\ N - x \in Nat
  BY QuoteAssumption DEF Sources
<1>2. Mirror \in SUBSET Nat /\ Mirror # {}
  BY <1>1
<1>3. PICK t \in Mirror : \A m \in Mirror : t <= m
  <2> HIDE DEF Mirror
  <2> QED
    BY <1>2, LeastNumber
<1>4. PICK y \in S : t = N - y
  BY <1>3
<1>5. \A x \in S : N - y <= N - x
  BY <1>3, <1>4
<1>6. \E n : Last(n)
  BY <1>1, <1>5
<1>7. Last(CHOOSE n : Last(n))
  <2> HIDE DEF Last
  <2> QED
    BY <1>6
<1>8. Max(S) = CHOOSE n : Last(n)
  BY DEF Max
<1> QED
  BY <1>7, <1>8

(* What a call does to the call of q, and of no other quote.               *)
LEMMA GoEffect ==
  ASSUME TypeOK, NEW q \in Quotes, NEW step \in Steps, NEW s \in 0..N + 1,
         Go(q, step, s)
  PROVE  /\ call' \in [Quotes -> [step : Steps, at : 0..N + 1]]
         /\ call'[q].step = step /\ call'[q].at = s
         /\ \A x \in Quotes : x # q => call'[x] = call[x]
BY DEF TypeOK, Go

LEMMA ReturnEffect ==
  ASSUME TypeOK, NEW q \in Quotes, Return(q)
  PROVE  /\ call' \in [Quotes -> [step : Steps, at : 0..N + 1]]
         /\ call'[q] = Idle /\ call'[q].step = "idle"
         /\ \A x \in Quotes : x # q => call'[x] = call[x]
<1>1. Idle \in [step : Steps, at : 0..N + 1] /\ Idle.step = "idle"
  BY QuoteAssumption DEF Idle, Steps
<1> QED
  BY <1>1 DEF TypeOK, Return

(* Going back from s leads to the last leg before it, or out of the call.  *)
LEMMA PreviousLegEffect ==
  ASSUME TypeOK, NEW q \in Quotes, NEW step \in {"undo", "unwind", "release"},
         NEW s \in 0..N + 1, PreviousLeg(q, step, s)
  PROVE  /\ call' \in [Quotes -> [step : Steps, at : 0..N + 1]]
         /\ \A x \in Quotes : x # q => call'[x] = call[x]
         /\ \/ /\ call'[q].step = step
               /\ call'[q].at \in Legs(q) /\ call'[q].at < s
               /\ \A x \in Legs(q) : x > call'[q].at => x >= s
            \/ /\ call'[q].step = IF step = "release" THEN "mark" ELSE "idle"
               /\ \A x \in Legs(q) : x >= s
<1> DEFINE before == {x \in Legs(q) : x < s}
<1>0. /\ Legs(q) \subseteq Sources /\ Sources \subseteq Int
      /\ \A x \in Legs(q) : x \in Int
      /\ 0 \in 0..N + 1 /\ s \in Int /\ N \in Nat
  BY QuoteAssumption DEF Legs, Sources
<1>1. CASE before # {}
  <2>1. Go(q, step, Max(before))
    BY <1>1, Zenon DEF PreviousLeg
  <2>2. before \in SUBSET Sources
    BY <1>0
  <2>3. Max(before) \in before /\ \A x \in before : Max(before) >= x
    BY <1>1, <2>2, MaxIsLast
  <2>4. Max(before) \in 0..N + 1 /\ step \in Steps
    BY <2>2, <2>3, QuoteAssumption DEF Sources, Steps
  <2>5. \A x \in Legs(q) : x > Max(before) => x >= s
    <3>1. \A x \in Legs(q) : x < s => Max(before) >= x
      BY <2>3
    <3>2. Max(before) \in Int
      BY <1>0, <2>2, <2>3
    <3> HIDE DEF before
    <3> QED
      BY <1>0, <3>1, <3>2
  <2> HIDE DEF before
  <2>6. /\ call' \in [Quotes -> [step : Steps, at : 0..N + 1]]
        /\ call'[q].step = step /\ call'[q].at = Max(before)
        /\ \A x \in Quotes : x # q => call'[x] = call[x]
    BY <2>1, <2>4, GoEffect
  <2>7. Max(before) \in Legs(q) /\ Max(before) < s
    BY <2>3 DEF before
  <2> QED
    BY <2>5, <2>6, <2>7
<1>2. CASE before = {}
  <2>1. \A x \in Legs(q) : x >= s
    <3>1. \A x \in Legs(q) : ~(x < s)
      BY <1>2
    <3> QED
      BY <1>0, <3>1
  <2>2. CASE step = "release"
    <3>1. Go(q, "mark", 0)
      BY <1>2, <2>2, Zenon DEF PreviousLeg
    <3>2. "mark" \in Steps
      BY DEF Steps
    <3> QED
      BY <1>0, <2>1, <2>2, <3>1, <3>2, GoEffect
  <2>3. CASE step # "release"
    <3>1. Return(q)
      BY <1>2, <2>3, Zenon DEF PreviousLeg
    <3> QED
      BY <2>1, <2>3, <3>1, ReturnEffect
  <2> QED
    BY <2>2, <2>3
<1> QED
  BY <1>1, <1>2

(* Turn changes the legs of q that it hits.                                *)
LEMMA TurnEffect ==
  ASSUME TypeOK, NEW q \in Quotes, NEW S, NEW old, NEW new \in LegStates,
         Turn(q, S, old, new)
  PROVE  /\ leg' \in [Quotes -> [Sources -> LegStates]]
         /\ \A x \in Quotes : x # q => leg'[x] = leg[x]
         /\ \A s \in Sources :
              leg'[q][s] = IF s \in S \cap Books /\ take[q][s] > 0 /\ leg[q][s] \in old
                           THEN new ELSE leg[q][s]
BY DEF TypeOK, Turn, Hit, Books

LEMMA GiveBackType ==
  ASSUME TypeOK, NEW q \in Quotes, NEW S, NEW old, GiveBack(q, S, old)
  PROVE  held' \in [Books -> Int]
BY DEF TypeOK, GiveBack, Books

LEMMA ReleaseRiskEffect ==
  ASSUME TypeOK, NEW q \in Quotes, ReleaseRisk(q)
  PROVE  /\ RiskTypeOK'
         /\ risk'[q] = IF risk[q] = "ACTIVE" THEN "RELEASED" ELSE risk[q]
         /\ \A x \in Quotes : x # q => risk'[x] = risk[x]
BY DEF TypeOK, RiskTypeOK, RiskStates, ReleaseRisk

LEMMA RiskUnchanged ==
  ASSUME TypeOK, UNCHANGED riskVars
  PROVE  RiskTypeOK' /\ risk' = risk
BY DEF TypeOK, RiskTypeOK, riskVars

(* A released leg that was not in flight is not live; none is booked.      *)
LEMMA ReleaseEffect ==
  ASSUME TypeOK, NEW q \in Quotes, NEW S, ReleaseLegs(q, S)
  PROVE  /\ leg' \in [Quotes -> [Sources -> LegStates]]
         /\ held' \in [Books -> Int] /\ max' = max /\ gone' = gone /\ RiskTypeOK'
         /\ \A x \in Quotes : x # q => leg'[x] = leg[x] /\ risk'[x] = risk[x]
         /\ risk'[q] = IF Principal \in S /\ risk[q] = "ACTIVE"
                       THEN "RELEASED" ELSE risk[q]
         /\ \A s \in Sources :
              leg'[q][s] = IF s \in S \cap Books /\ take[q][s] > 0 /\ leg[q][s] = "ACTIVE"
                           THEN "RELEASED" ELSE leg[q][s]
<1>1. "RELEASED" \in LegStates
  BY DEF LegStates
<1>2. Turn(q, S, {"ACTIVE"}, "RELEASED") /\ GiveBack(q, S, {"ACTIVE"})
  BY DEF ReleaseLegs
<1>3. IF Principal \in S THEN ReleaseRisk(q) ELSE UNCHANGED riskVars
  BY DEF ReleaseLegs
<1>4. /\ RiskTypeOK' /\ \A x \in Quotes : x # q => risk'[x] = risk[x]
      /\ risk'[q] = IF Principal \in S /\ risk[q] = "ACTIVE" THEN "RELEASED" ELSE risk[q]
  BY <1>3, ReleaseRiskEffect, RiskUnchanged
<1>5. max' = max /\ gone' = gone
  BY DEF ReleaseLegs
<1> QED
  BY <1>1, <1>2, <1>4, <1>5, TurnEffect, GiveBackType

(* The legs of a quote that are marked SUBMITTED.                          *)
LEMMA MarkedEffect ==
  ASSUME TypeOK, NEW q \in Quotes, NEW S
  PROVE  /\ Marked(q, S) \in [Quotes -> [Sources -> LegStates]]
         /\ \A x \in Quotes : x # q => Marked(q, S)[x] = leg[x]
         /\ \A s \in Sources :
              Marked(q, S)[q][s] = IF s \in S \cap Books /\ take[q][s] > 0
                                   THEN "SUBMITTED" ELSE leg[q][s]
<1>1. "SUBMITTED" \in LegStates
  BY DEF LegStates
<1> QED
  BY <1>1 DEF TypeOK, Marked

(* An order that leaves the market releases only legs that are active.     *)
LEMMA LeaveMarketEffect ==
  ASSUME TypeOK, NEW s \in Private, NEW l \in [Quotes -> [Sources -> LegStates]],
         LeaveMarket(s, l)
  PROVE  /\ leg' \in [Quotes -> [Sources -> LegStates]]
         /\ held' \in [Books -> Int]
         /\ \A y \in Books : held'[y] = held[y] \/ held'[y] = 0
         /\ gone' \in SUBSET Private
         /\ \A x \in Quotes, y \in Sources :
              \/ leg'[x][y] = l[x][y]
              \/ l[x][y] = "ACTIVE" /\ leg'[x][y] = "RELEASED"
<1>1. gone' \in SUBSET Private
  BY DEF TypeOK, LeaveMarket
<1>2. CASE InFlight(s, l)
  BY <1>1, <1>2 DEF TypeOK, LeaveMarket
<1>3. CASE ~InFlight(s, l)
  <2>1. "RELEASED" \in LegStates /\ s \in Books /\ s \in Sources
    BY QuoteAssumption DEF LegStates, Books
  <2>2. leg' = [q \in Quotes |-> IF l[q][s] = "ACTIVE"
                  THEN [l[q] EXCEPT ![s] = "RELEASED"] ELSE l[q]]
    BY <1>3 DEF LeaveMarket
  <2>3. held' = [held EXCEPT ![s] = 0]
    BY <1>3 DEF LeaveMarket
  <2>4. held' \in [Books -> Int] /\ \A y \in Books : held'[y] = held[y] \/ held'[y] = 0
    BY <2>1, <2>3 DEF TypeOK
  <2>5. leg' \in [Quotes -> [Sources -> LegStates]]
    BY <2>1, <2>2
  <2>6. \A x \in Quotes, y \in Sources :
          \/ leg'[x][y] = l[x][y]
          \/ l[x][y] = "ACTIVE" /\ leg'[x][y] = "RELEASED"
    BY <2>1, <2>2
  <2> QED
    BY <1>1, <2>4, <2>5, <2>6
<1> QED
  BY <1>2, <1>3

(* A quote is validated when all its legs are live.                        *)
LEMMA ValidatedIsLive ==
  ASSUME NEW q \in Quotes, Validated(q)
  PROVE  \A s \in Legs(q) : Live(q, s)
BY DEF Validated, Live, Books, Legs

LEMMA LegsAreSources ==
  ASSUME NEW q \in Quotes
  PROVE  Legs(q) \in SUBSET Sources /\ \A s \in Legs(q) : s \in Int /\ s \in 0..N + 1
BY QuoteAssumption DEF Legs, Sources

-----------------------------------------------------------------------------
(* What leaves a quote coherent: nothing happens to it, but that orders it *)
(* holds and has not submitted leave the market.                           *)
Keeps(q) ==
  /\ qstate'[q] = qstate[q] /\ chain'[q] = chain[q] /\ call'[q] = call[q]
  /\ take'[q] = take[q] /\ risk'[q] = risk[q]
  /\ \A s \in Sources : \/ leg'[q][s] = leg[q][s]
                        \/ leg[q][s] = "ACTIVE" /\ leg'[q][s] = "RELEASED"

LEMMA KeptIsCoherent ==
  ASSUME NEW q \in Quotes, Coherent(q), Keeps(q)
  PROVE  Coherent(q)'
<1>1. Legs(q)' = Legs(q) /\ Legs(q) \subseteq Sources
  BY DEF Keeps, Legs
<1>2. \A s \in Sources : /\ Live(q, s)' => Live(q, s)
                         /\ Spent(q, s)' = Spent(q, s)
  BY DEF Keeps, Live, Spent
<1>3. CallMatchesQuote(q)'
  BY <1>1, <1>2 DEF Keeps, Coherent, CallMatchesQuote
<1>4. UnsubmittedIsUnused(q)'
  BY DEF Keeps, Coherent, UnsubmittedIsUnused, Books
<1>5. SubmittedHolds(q)'
  BY <1>1, <1>2 DEF Keeps, Coherent, SubmittedHolds
<1>6. TerminalIsOver(q)'
  BY <1>1, <1>2 DEF Keeps, Coherent, TerminalIsOver
<1> QED
  BY <1>3, <1>4, <1>5, <1>6 DEF Coherent

-----------------------------------------------------------------------------
(* Every action on a quote keeps the types and the quote coherent, and     *)
(* leaves the others as they are but for orders that leave the market.     *)
Preserves(q) ==
  TypeOK' /\ Coherent(q)' /\ \A x \in Quotes : x # q => Keeps(x)

LEMMA ReserveStartStep ==
  ASSUME TypeOK, NEW q \in Quotes, Coherent(q), ReserveStart(q)
  PROVE  Preserves(q)
<1>1. /\ qstate[q] = "none" /\ call[q] = Idle
      /\ UNCHANGED riskVars /\ qstate' = qstate /\ leg' = leg /\ UNCHANGED bookVars
      /\ chain' = chain /\ disturbed' = disturbed
  BY DEF ReserveStart
<1>2. PICK plan \in [Sources -> 0..Want[q]] :
        /\ \E s \in Sources : plan[s] > 0
        /\ take' = [take EXCEPT ![q] = plan]
        /\ Go(q, "reserve", Min({s \in Sources : plan[s] > 0}))
  BY DEF ReserveStart, Planned
<1> DEFINE first == Min({s \in Sources : plan[s] > 0})
<1>3. first \in Sources /\ plan[first] > 0
  BY <1>2, MinIsFirst
<1>4. first \in 0..N + 1 /\ "reserve" \in Steps
  BY <1>3, QuoteAssumption DEF Sources, Steps
<1>5. Go(q, "reserve", first)
  BY <1>2
<1> HIDE DEF first
<1>6. /\ call' \in [Quotes -> [step : Steps, at : 0..N + 1]]
      /\ call'[q].step = "reserve" /\ call'[q].at = first
      /\ \A x \in Quotes : x # q => call'[x] = call[x]
  BY <1>4, <1>5, GoEffect
<1>7. Want[q] \in Nat
  BY QuoteAssumption
<1>8. /\ take' \in [Quotes -> [Sources -> Nat]] /\ take'[q] = plan
      /\ \A x \in Quotes : x # q => take'[x] = take[x]
  BY <1>2, <1>7 DEF TypeOK
<1>9. RiskTypeOK' /\ risk' = risk
  BY <1>1, RiskUnchanged
<1>10. TypeOK'
  BY <1>1, <1>6, <1>8, <1>9 DEF TypeOK, bookVars
<1>11. first \in Legs(q)'
  BY <1>3, <1>8 DEF Legs
<1>12. CallMatchesQuote(q)'
  BY <1>1, <1>6, <1>11 DEF CallMatchesQuote
<1>13. UnsubmittedIsUnused(q)'
  BY <1>1, <1>9 DEF Coherent, UnsubmittedIsUnused
<1>14. SubmittedHolds(q)' /\ TerminalIsOver(q)'
  BY <1>1 DEF SubmittedHolds, TerminalIsOver
<1>15. \A x \in Quotes : x # q => Keeps(x)
  BY <1>1, <1>6, <1>8, <1>9 DEF Keeps
<1> QED
  BY <1>10, <1>12, <1>13, <1>14, <1>15 DEF Preserves, Coherent

(* A leg that is held, and no other.                                       *)
LEMMA HoldLegEffect ==
  ASSUME TypeOK, NEW q \in Quotes, NEW s \in Legs(q), HoldLeg(q, s)
  PROVE  /\ RiskTypeOK' /\ leg' \in [Quotes -> [Sources -> LegStates]]
         /\ held' \in [Books -> Int] /\ max' = max /\ gone' = gone
         /\ \A x \in Quotes : x # q => leg'[x] = leg[x] /\ risk'[x] = risk[x]
         /\ risk'[q] = risk[q] \/ risk'[q] = "ACTIVE"
         /\ \A y \in Sources : leg'[q][y] = leg[q][y] \/ leg'[q][y] = "ACTIVE"
<1>1. s \in Sources /\ take[q][s] \in Nat
  BY DEF Legs, TypeOK
<1>2. CASE s = Principal
  <2>1. ReserveRisk(q, Deltas(take[q][s])) /\ leg' = leg /\ UNCHANGED bookVars
    BY <1>2 DEF HoldLeg
  <2>2. Deltas(take[q][s]) \in [Assets -> Int]
    <3>1. Cost \in Int
      BY QuoteAssumption
    <3> QED
      BY <1>1, <3>1 DEF Deltas
  <2>3. /\ risk' = [risk EXCEPT ![q] = "ACTIVE"]
        /\ delta' = [delta EXCEPT ![q] = Deltas(take[q][s])]
        /\ UNCHANGED <<settled, limit>>
    BY <2>1 DEF ReserveRisk
  <2>4. RiskTypeOK'
    BY <2>2, <2>3 DEF TypeOK, RiskTypeOK, RiskStates
  <2>5. /\ risk'[q] = "ACTIVE"
        /\ \A x \in Quotes : x # q => risk'[x] = risk[x]
    BY <2>3 DEF TypeOK, RiskTypeOK
  <2> QED
    BY <2>1, <2>4, <2>5 DEF TypeOK, bookVars
<1>3. CASE s # Principal
  <2>1. /\ leg' = [leg EXCEPT ![q][s] = "ACTIVE"]
        /\ held' = [held EXCEPT ![s] = @ + take[q][s]]
        /\ UNCHANGED <<riskVars, max, gone>>
    BY <1>3 DEF HoldLeg
  <2>2. RiskTypeOK' /\ risk' = risk
    BY <2>1, RiskUnchanged
  <2>3. s \in Books /\ "ACTIVE" \in LegStates
    BY <1>1, <1>3 DEF Books, LegStates
  <2>4. held' \in [Books -> Int]
    BY <1>1, <2>1, <2>3 DEF TypeOK
  <2>5. /\ leg' \in [Quotes -> [Sources -> LegStates]]
        /\ \A x \in Quotes : x # q => leg'[x] = leg[x]
        /\ \A y \in Sources : leg'[q][y] = leg[q][y] \/ leg'[q][y] = "ACTIVE"
    BY <1>1, <2>1, <2>3 DEF TypeOK
  <2> QED
    BY <2>1, <2>2, <2>4, <2>5
<1> QED
  BY <1>2, <1>3

(* The next leg, or the end of the loop.                                   *)
LEMMA NextLegEffect ==
  ASSUME TypeOK, NEW q \in Quotes, NEW s \in Legs(q), NextLeg(q, s)
  PROVE  /\ call' \in [Quotes -> [step : Steps, at : 0..N + 1]]
         /\ \A x \in Quotes : x # q => call'[x] = call[x]
         /\ call'[q].step = "insert" \/ call'[q].step = "reserve"
         /\ call'[q].step = "reserve" => call'[q].at \in Legs(q)
<1>1. "insert" \in Steps /\ "reserve" \in Steps /\ N + 1 \in 0..N + 1
  BY QuoteAssumption DEF Steps
<1>2. CASE From(q, s + 1) = {}
  <2>1. Go(q, "insert", N + 1)
    BY <1>2 DEF NextLeg
  <2> QED
    BY <1>1, <2>1, GoEffect
<1>3. CASE From(q, s + 1) # {}
  <2> DEFINE next == Min(From(q, s + 1))
  <2>1. Go(q, "reserve", next)
    BY <1>3 DEF NextLeg
  <2>2. From(q, s + 1) \in SUBSET Sources
    BY LegsAreSources DEF From
  <2>3. next \in From(q, s + 1)
    BY <1>3, <2>2, MinIsFirst
  <2>4. next \in Legs(q) /\ next \in 0..N + 1
    BY <2>3, LegsAreSources DEF From
  <2> HIDE DEF next
  <2> QED
    BY <1>1, <2>1, <2>4, GoEffect
<1> QED
  BY <1>2, <1>3

LEMMA ReserveLegStep ==
  ASSUME TypeOK, NEW q \in Quotes, Coherent(q), ReserveLeg(q)
  PROVE  Preserves(q)
<1> DEFINE s == call[q].at
<1>1. /\ call[q].step = "reserve"
      /\ qstate' = qstate /\ take' = take /\ chain' = chain /\ disturbed' = disturbed
      /\ \/ HoldLeg(q, s) /\ NextLeg(q, s)
         \/ PreviousLeg(q, "undo", s) /\ UNCHANGED <<riskVars, leg, bookVars>>
  BY DEF ReserveLeg
<1>2. s \in Legs(q) /\ qstate[q] = "none" /\ Legs(q) # {}
  BY <1>1 DEF Coherent, CallMatchesQuote
<1>3. s \in 0..N + 1
  BY <1>2, LegsAreSources
<1> HIDE DEF s
<1>4. /\ call' \in [Quotes -> [step : Steps, at : 0..N + 1]]
      /\ \A x \in Quotes : x # q => call'[x] = call[x]
      /\ call'[q].step \in {"idle", "reserve", "insert", "undo"}
      /\ call'[q].step \in {"reserve", "undo"} => call'[q].at \in Legs(q)
  <2>1. CASE NextLeg(q, s)
    BY <1>2, <2>1, NextLegEffect
  <2>2. CASE PreviousLeg(q, "undo", s)
    BY <1>3, <2>2, PreviousLegEffect
  <2> QED
    BY <1>1, <2>1, <2>2
<1>5. /\ RiskTypeOK' /\ leg' \in [Quotes -> [Sources -> LegStates]]
      /\ held' \in [Books -> Int] /\ max' = max /\ gone' = gone
      /\ \A x \in Quotes : x # q => leg'[x] = leg[x] /\ risk'[x] = risk[x]
      /\ risk'[q] = risk[q] \/ risk'[q] = "ACTIVE"
      /\ \A y \in Sources : leg'[q][y] = leg[q][y] \/ leg'[q][y] = "ACTIVE"
  <2>1. CASE HoldLeg(q, s)
    BY <1>2, <2>1, HoldLegEffect
  <2>2. CASE UNCHANGED <<riskVars, leg, bookVars>>
    BY <2>2, RiskUnchanged DEF TypeOK, bookVars
  <2> QED
    BY <1>1, <2>1, <2>2
<1>6. TypeOK'
  BY <1>1, <1>4, <1>5 DEF TypeOK
<1>7. Legs(q)' = Legs(q)
  BY <1>1 DEF Legs
<1>8. CallMatchesQuote(q)'
  BY <1>1, <1>2, <1>4, <1>7 DEF CallMatchesQuote
<1>9. UnsubmittedIsUnused(q)'
  BY <1>1, <1>2, <1>5 DEF Coherent, UnsubmittedIsUnused, Books
<1>10. SubmittedHolds(q)' /\ TerminalIsOver(q)'
  BY <1>1, <1>2 DEF SubmittedHolds, TerminalIsOver
<1>11. \A x \in Quotes : x # q => Keeps(x)
  BY <1>1, <1>4, <1>5 DEF Keeps
<1> QED
  BY <1>6, <1>8, <1>9, <1>10, <1>11 DEF Preserves, Coherent

LEMMA InsertQuoteStep ==
  ASSUME TypeOK, NEW q \in Quotes, Coherent(q), InsertQuote(q)
  PROVE  Preserves(q)
<1>1. /\ call[q].step = "insert"
      /\ UNCHANGED riskVars /\ take' = take /\ leg' = leg /\ UNCHANGED bookVars
      /\ chain' = chain /\ disturbed' = disturbed
      /\ \/ qstate' = [qstate EXCEPT ![q] = "RESERVED"] /\ Return(q)
         \/ PreviousLeg(q, "unwind", N + 1) /\ qstate' = qstate
  BY DEF InsertQuote
<1>2. qstate[q] = "none" /\ Legs(q) # {}
  BY <1>1 DEF Coherent, CallMatchesQuote
<1>3. RiskTypeOK' /\ risk' = risk
  BY <1>1, RiskUnchanged
<1>4. /\ call' \in [Quotes -> [step : Steps, at : 0..N + 1]]
      /\ \A x \in Quotes : x # q => call'[x] = call[x]
      /\ \/ call'[q].step = "idle"
         \/ qstate' = qstate /\ call'[q].step = "unwind" /\ call'[q].at \in Legs(q)
  <2>1. CASE Return(q)
    BY <2>1, ReturnEffect
  <2>2. CASE PreviousLeg(q, "unwind", N + 1) /\ qstate' = qstate
    <3>1. N + 1 \in 0..N + 1
      BY QuoteAssumption
    <3> QED
      BY <2>2, <3>1, PreviousLegEffect
  <2> QED
    BY <1>1, <2>1, <2>2
<1>5. /\ qstate' \in [Quotes -> QuoteStates]
      /\ \A x \in Quotes : x # q => qstate'[x] = qstate[x]
      /\ qstate'[q] \in {"none", "RESERVED"}
  BY <1>1, <1>2 DEF TypeOK, QuoteStates
<1>6. TypeOK'
  BY <1>1, <1>3, <1>4, <1>5 DEF TypeOK, bookVars
<1>7. Legs(q)' = Legs(q)
  BY <1>1 DEF Legs
<1>8. CallMatchesQuote(q)'
  BY <1>2, <1>4, <1>7 DEF CallMatchesQuote
<1>9. UnsubmittedIsUnused(q)'
  BY <1>1, <1>2, <1>3 DEF Coherent, UnsubmittedIsUnused
<1>10. SubmittedHolds(q)' /\ TerminalIsOver(q)'
  BY <1>5 DEF SubmittedHolds, TerminalIsOver
<1>11. \A x \in Quotes : x # q => Keeps(x)
  BY <1>1, <1>3, <1>4, <1>5 DEF Keeps
<1> QED
  BY <1>6, <1>8, <1>9, <1>10, <1>11 DEF Preserves, Coherent

(* Before the submission a release leaves nothing live in S.               *)
LEMMA ReleasedIsOver ==
  ASSUME TypeOK, NEW q \in Quotes, UnsubmittedIsUnused(q),
         qstate[q] \in {"none", "RESERVED", "EXPIRED", "RELEASED"},
         NEW S, ReleaseLegs(q, S), take' = take
  PROVE  /\ Legs(q)' = Legs(q)
         /\ \A x \in Legs(q) : /\ Live(q, x)' => Live(q, x) /\ x \notin S
                               /\ ~Spent(q, x)'
         /\ \A x \in Books : leg'[q][x] \notin {"SUBMITTED", "CONSUMED", "FAILED"}
         /\ risk'[q] # "SETTLED"
<1>1. /\ \A s \in Books : leg[q][s] \notin {"SUBMITTED", "CONSUMED", "FAILED"}
      /\ risk[q] # "SETTLED"
  BY DEF UnsubmittedIsUnused
<1>2. /\ risk'[q] = IF Principal \in S /\ risk[q] = "ACTIVE" THEN "RELEASED" ELSE risk[q]
      /\ \A s \in Sources :
           leg'[q][s] = IF s \in S \cap Books /\ take[q][s] > 0 /\ leg[q][s] = "ACTIVE"
                        THEN "RELEASED" ELSE leg[q][s]
  BY ReleaseEffect
<1>3. Legs(q)' = Legs(q)
  BY DEF Legs
<1>4. \A x \in Legs(q) : x \in Sources /\ take[q][x] > 0
  BY DEF Legs
<1>5. /\ \A x \in Books : leg'[q][x] \notin {"SUBMITTED", "CONSUMED", "FAILED"}
      /\ risk'[q] # "SETTLED"
  BY <1>1, <1>2 DEF Books
<1>6. \A x \in Legs(q) : Live(q, x)' => Live(q, x) /\ x \notin S
  BY <1>1, <1>2, <1>4 DEF Live, Books
<1>7. \A x \in Legs(q) : ~Spent(q, x)'
  BY <1>4, <1>5 DEF Spent, Books
<1> QED
  BY <1>3, <1>5, <1>6, <1>7

(* A step of the release of a quote: leg s, after which no leg is live but *)
(* those that are left.                                                    *)
LEMMA ReleasingStep ==
  ASSUME TypeOK, NEW q \in Quotes, Coherent(q), NEW s \in Legs(q),
         NEW step \in {"undo", "unwind", "release"},
         IF step = "release" THEN qstate[q] \in {"RESERVED", "EXPIRED"}
                             ELSE qstate[q] = "none",
         step = "release" => \A x \in Legs(q) : x > s => ~Live(q, x),
         ReleaseLegs(q, {s}), PreviousLeg(q, step, s),
         UNCHANGED <<qstate, take, chain>>, disturbed' = disturbed
  PROVE  Preserves(q)
<1>1. s \in 0..N + 1 /\ s \in Int /\ \A x \in Legs(q) : x \in Int
  BY LegsAreSources
<1>2. /\ call' \in [Quotes -> [step : Steps, at : 0..N + 1]]
      /\ \A x \in Quotes : x # q => call'[x] = call[x]
      /\ \/ /\ call'[q].step = step
            /\ call'[q].at \in Legs(q) /\ call'[q].at < s
            /\ \A x \in Legs(q) : x > call'[q].at => x >= s
         \/ /\ call'[q].step = IF step = "release" THEN "mark" ELSE "idle"
            /\ \A x \in Legs(q) : x >= s
  BY <1>1, PreviousLegEffect
<1>3. /\ leg' \in [Quotes -> [Sources -> LegStates]]
      /\ held' \in [Books -> Int] /\ max' = max /\ gone' = gone /\ RiskTypeOK'
      /\ \A x \in Quotes : x # q => leg'[x] = leg[x] /\ risk'[x] = risk[x]
  BY ReleaseEffect
<1>4. UnsubmittedIsUnused(q) /\ take' = take /\ qstate' = qstate /\ chain' = chain
  BY DEF Coherent
<1>5. qstate[q] \in {"none", "RESERVED", "EXPIRED"}
  OBVIOUS
<1>6. /\ Legs(q)' = Legs(q)
      /\ \A x \in Legs(q) : /\ Live(q, x)' => Live(q, x) /\ x \notin {s}
                            /\ ~Spent(q, x)'
      /\ \A x \in Books : leg'[q][x] \notin {"SUBMITTED", "CONSUMED", "FAILED"}
      /\ risk'[q] # "SETTLED"
  BY <1>4, <1>5, ReleasedIsOver
<1>7. ~Live(q, s)'
  BY <1>6
<1>8. step = "release" => \A x \in Legs(q) : x >= s => ~Live(q, x)'
  BY <1>1, <1>6
<1>9. TypeOK'
  BY <1>2, <1>3, <1>4 DEF TypeOK
<1>10. CallMatchesQuote(q)'
  <2>1. Legs(q)' # {}
    BY <1>6
  <2>2. CASE step = "release" /\ call'[q].step = "release"
    BY <1>2, <1>4, <1>6, <1>7, <1>8, <2>1, <2>2 DEF CallMatchesQuote
  <2>3. CASE step = "release" /\ call'[q].step = "mark"
    BY <1>2, <1>4, <1>6, <1>7, <1>8, <2>1, <2>3 DEF CallMatchesQuote
  <2>4. CASE step # "release"
    BY <1>2, <1>4, <1>6, <2>1, <2>4 DEF CallMatchesQuote
  <2> QED
    BY <1>2, <2>2, <2>3, <2>4
<1>11. UnsubmittedIsUnused(q)'
  BY <1>4, <1>5, <1>6 DEF UnsubmittedIsUnused
<1>12. SubmittedHolds(q)'
  BY <1>4, <1>5 DEF SubmittedHolds
<1>13. TerminalIsOver(q)'
  BY <1>4, <1>5, <1>6 DEF Coherent, TerminalIsOver
<1>14. \A x \in Quotes : x # q => Keeps(x)
  BY <1>2, <1>3, <1>4 DEF Keeps
<1> QED
  BY <1>9, <1>10, <1>11, <1>12, <1>13, <1>14 DEF Preserves, Coherent

LEMMA ReleaseLegStep ==
  ASSUME TypeOK, NEW q \in Quotes, Coherent(q), ReleaseLeg(q)
  PROVE  Preserves(q)
<1> DEFINE s == call[q].at
           step == call[q].step
<1>1. /\ step \in {"undo", "unwind", "release"}
      /\ UNCHANGED <<qstate, take, chain>>
      /\ \/ ReleaseLegs(q, {s}) /\ PreviousLeg(q, step, s) /\ disturbed' = disturbed
         \/ /\ IF step = "undo" THEN PreviousLeg(q, "undo", s) ELSE Return(q)
            /\ Disturb
            /\ UNCHANGED <<riskVars, leg, bookVars>>
  BY DEF ReleaseLeg
<1>2. /\ s \in Legs(q)
      /\ IF step = "release" THEN qstate[q] \in {"RESERVED", "EXPIRED"}
                             ELSE qstate[q] = "none"
      /\ step = "release" => \A x \in Legs(q) : x > s => ~Live(q, x)
  BY <1>1 DEF Coherent, CallMatchesQuote
<1>3. s \in 0..N + 1
  BY <1>2, LegsAreSources
<1> HIDE DEF s
<1>4. CASE ReleaseLegs(q, {s}) /\ PreviousLeg(q, step, s) /\ disturbed' = disturbed
  <2> HIDE DEF step
  <2> QED
    BY <1>1, <1>2, <1>4, ReleasingStep
<1>5. CASE /\ IF step = "undo" THEN PreviousLeg(q, "undo", s) ELSE Return(q)
           /\ Disturb
           /\ UNCHANGED <<riskVars, leg, bookVars>>
  <2>1. /\ call' \in [Quotes -> [step : Steps, at : 0..N + 1]]
        /\ \A x \in Quotes : x # q => call'[x] = call[x]
        /\ \/ call'[q].step = "idle"
           \/ step = "undo" /\ call'[q].step = "undo" /\ call'[q].at \in Legs(q)
    <3>1. CASE step = "undo"
      BY <1>3, <1>5, <3>1, PreviousLegEffect
    <3>2. CASE step # "undo"
      BY <1>5, <3>2, ReturnEffect
    <3> QED
      BY <3>1, <3>2
  <2>2. /\ RiskTypeOK' /\ risk' = risk /\ leg' = leg /\ UNCHANGED bookVars
        /\ qstate' = qstate /\ take' = take /\ chain' = chain /\ disturbed' = TRUE
    BY <1>1, <1>5, RiskUnchanged DEF Disturb
  <2>3. TypeOK'
    BY <2>1, <2>2 DEF TypeOK, bookVars
  <2>4. Legs(q)' = Legs(q) /\ Legs(q) # {}
    BY <1>2, <2>2 DEF Legs
  <2>5. /\ \A x \in Legs(q) : Live(q, x)' = Live(q, x) /\ Spent(q, x)' = Spent(q, x)
    BY <2>2 DEF Live, Spent
  <2>6. CallMatchesQuote(q)'
    BY <1>2, <2>1, <2>2, <2>4 DEF CallMatchesQuote
  <2>7. UnsubmittedIsUnused(q)'
    BY <2>2 DEF Coherent, UnsubmittedIsUnused
  <2>8. SubmittedHolds(q)' /\ TerminalIsOver(q)'
    BY <2>2, <2>4, <2>5 DEF Coherent, SubmittedHolds, TerminalIsOver
  <2>9. \A x \in Quotes : x # q => Keeps(x)
    BY <2>1, <2>2 DEF Keeps
  <2> QED
    BY <2>3, <2>6, <2>7, <2>8, <2>9 DEF Preserves, Coherent
<1> QED
  BY <1>1, <1>4, <1>5

LEMMA ReleaseTradeStep ==
  ASSUME TypeOK, NEW q \in Quotes, Coherent(q), ReleaseTrade(q)
  PROVE  Preserves(q)
<1> DEFINE s == Max(Legs(q))
<1>1. /\ qstate[q] = "RESERVED"
      /\ ReleaseLegs(q, {s}) /\ PreviousLeg(q, "release", s)
      /\ UNCHANGED <<qstate, take, chain>> /\ disturbed' = disturbed
  BY DEF ReleaseTrade
<1>2. Legs(q) # {}
  BY <1>1 DEF Coherent, CallMatchesQuote
<1>3. s \in Legs(q) /\ \A x \in Legs(q) : s >= x
  BY <1>2, LegsAreSources, MaxIsLast
<1>4. \A x \in Legs(q) : ~(x > s)
  BY <1>3, LegsAreSources
<1> HIDE DEF s
<1> QED
  BY <1>1, <1>3, <1>4, ReleasingStep

LEMMA ReleaseMarkStep ==
  ASSUME TypeOK, NEW q \in Quotes, Coherent(q), ReleaseMark(q)
  PROVE  Preserves(q)
<1>1. /\ call[q].step = "mark" /\ qstate' = [qstate EXCEPT ![q] = "RELEASED"]
      /\ Return(q)
      /\ UNCHANGED riskVars /\ take' = take /\ leg' = leg /\ UNCHANGED bookVars
      /\ chain' = chain /\ disturbed' = disturbed
  BY DEF ReleaseMark
<1>2. /\ qstate[q] \in {"RESERVED", "EXPIRED"} /\ Legs(q) # {}
      /\ \A s \in Legs(q) : ~Live(q, s)
  BY <1>1 DEF Coherent, CallMatchesQuote
<1>3. RiskTypeOK' /\ risk' = risk
  BY <1>1, RiskUnchanged
<1>4. /\ call' \in [Quotes -> [step : Steps, at : 0..N + 1]]
      /\ call'[q].step = "idle" /\ \A x \in Quotes : x # q => call'[x] = call[x]
  BY <1>1, ReturnEffect
<1>5. /\ qstate' \in [Quotes -> QuoteStates] /\ qstate'[q] = "RELEASED"
      /\ \A x \in Quotes : x # q => qstate'[x] = qstate[x]
  BY <1>1 DEF TypeOK, QuoteStates
<1>6. TypeOK'
  BY <1>1, <1>3, <1>4, <1>5 DEF TypeOK, bookVars
<1>7. Legs(q)' = Legs(q) /\ \A s \in Legs(q) : s \in Sources
  BY <1>1 DEF Legs
<1>8. UnsubmittedIsUnused(q)'
  BY <1>1, <1>2, <1>3 DEF Coherent, UnsubmittedIsUnused
<1>9. \A s \in Legs(q) : ~Live(q, s)' /\ ~Spent(q, s)'
  BY <1>1, <1>2, <1>3, <1>7 DEF Coherent, UnsubmittedIsUnused, Live, Spent, Books
<1>10. CallMatchesQuote(q)' /\ SubmittedHolds(q)' /\ TerminalIsOver(q)'
  BY <1>2, <1>4, <1>5, <1>7, <1>9 DEF CallMatchesQuote, SubmittedHolds, TerminalIsOver
<1>11. \A x \in Quotes : x # q => Keeps(x)
  BY <1>1, <1>3, <1>4, <1>5 DEF Keeps
<1> QED
  BY <1>6, <1>8, <1>10, <1>11 DEF Preserves, Coherent

(* Whatever becomes of the call, a quote that is submitted was not booked. *)
LEMMA SubmitStep ==
  ASSUME TypeOK, NEW q \in Quotes, Coherent(q), Submit(q)
  PROVE  Preserves(q)
<1>1. /\ qstate[q] = "RESERVED" /\ Validated(q)
      /\ qstate' = [qstate EXCEPT ![q] = "SUBMITTED"]
      /\ UNCHANGED riskVars /\ take' = take /\ max' = max /\ call' = call
      /\ \/ /\ leg' = Marked(q, Sources)
            /\ chain' = [chain EXCEPT ![q] = "pending"]
            /\ UNCHANGED <<held, gone, disturbed>>
         \/ \E s \in Private \cap Legs(q) :
            /\ LeaveMarket(s, Marked(q, 1..s - 1))
            /\ UNCHANGED <<chain, disturbed>>
         \/ \E n \in 0..N :
            /\ leg' = Marked(q, 1..n)
            /\ Disturb
            /\ UNCHANGED <<chain, held, gone>>
  BY DEF Submit
<1>2. RiskTypeOK' /\ risk' = risk
  BY <1>1, RiskUnchanged
<1>3. /\ chain[q] = "none" /\ risk[q] # "SETTLED"
      /\ \A s \in Books : leg[q][s] \notin {"SUBMITTED", "CONSUMED", "FAILED"}
  BY <1>1 DEF Coherent, UnsubmittedIsUnused
<1>4. call[q].step \notin {"reserve", "insert", "undo", "unwind", "release", "mark"}
  BY <1>1, ValidatedIsLive DEF Coherent, CallMatchesQuote
<1>5. /\ qstate' \in [Quotes -> QuoteStates] /\ qstate'[q] = "SUBMITTED"
      /\ \A x \in Quotes : x # q => qstate'[x] = qstate[x]
  BY <1>1 DEF TypeOK, QuoteStates
<1>6. Legs(q)' = Legs(q) /\ Legs(q) # {} /\ \A s \in Legs(q) : s \in Sources /\ take[q][s] > 0
  BY <1>1 DEF Coherent, CallMatchesQuote, Legs
<1>7. /\ leg' \in [Quotes -> [Sources -> LegStates]]
      /\ held' \in [Books -> Int] /\ gone' \in SUBSET Private /\ disturbed' \in BOOLEAN
      /\ \A x \in Quotes, s \in Sources : x # q =>
           \/ leg'[x][s] = leg[x][s]
           \/ leg[x][s] = "ACTIVE" /\ leg'[x][s] = "RELEASED"
      /\ \A s \in Books : leg'[q][s] # "CONSUMED"
      /\ \/ chain' = chain
         \/ /\ chain' = [chain EXCEPT ![q] = "pending"]
            /\ \A s \in Legs(q) \cap Books : leg'[q][s] = "SUBMITTED"
  <2>1. CASE leg' = Marked(q, Sources) /\ chain' = [chain EXCEPT ![q] = "pending"]
             /\ UNCHANGED <<held, gone, disturbed>>
    <3>1. \A s \in Legs(q) \cap Books : leg'[q][s] = "SUBMITTED"
      BY <1>6, <2>1, MarkedEffect
    <3>2. \A s \in Books : leg'[q][s] # "CONSUMED"
      BY <1>3, <2>1, MarkedEffect DEF Books
    <3>3. /\ leg' \in [Quotes -> [Sources -> LegStates]]
          /\ \A x \in Quotes : x # q => leg'[x] = leg[x]
      BY <2>1, MarkedEffect
    <3> QED
      BY <2>1, <3>1, <3>2, <3>3 DEF TypeOK
  <2>2. ASSUME NEW s \in Private \cap Legs(q), LeaveMarket(s, Marked(q, 1..s - 1)),
               UNCHANGED <<chain, disturbed>>
        PROVE  <1>7!1 /\ <1>7!2 /\ <1>7!3 /\ <1>7!4 /\ <1>7!5
    <3> DEFINE l == Marked(q, 1..s - 1)
    <3>1. /\ l \in [Quotes -> [Sources -> LegStates]]
          /\ \A x \in Quotes : x # q => l[x] = leg[x]
      BY MarkedEffect
    <3>2. \A y \in Books : l[q][y] # "CONSUMED"
      BY <1>3, MarkedEffect DEF Books
    <3>3. LeaveMarket(s, l)
      BY <2>2
    <3> HIDE DEF l
    <3>4. /\ leg' \in [Quotes -> [Sources -> LegStates]]
          /\ held' \in [Books -> Int] /\ gone' \in SUBSET Private
          /\ \A x \in Quotes, y \in Sources :
               \/ leg'[x][y] = l[x][y]
               \/ l[x][y] = "ACTIVE" /\ leg'[x][y] = "RELEASED"
      BY <3>1, <3>3, LeaveMarketEffect
    <3>5. \A y \in Books : leg'[q][y] # "CONSUMED"
      BY <3>2, <3>4 DEF Books
    <3> QED
      BY <2>2, <3>1, <3>4, <3>5 DEF TypeOK
  <2>3. ASSUME NEW n \in 0..N, leg' = Marked(q, 1..n), Disturb,
               UNCHANGED <<chain, held, gone>>
        PROVE  <1>7!1 /\ <1>7!2 /\ <1>7!3 /\ <1>7!4 /\ <1>7!5
    <3>1. \A s \in Books : leg'[q][s] # "CONSUMED"
      BY <1>3, <2>3, MarkedEffect DEF Books
    <3>2. /\ leg' \in [Quotes -> [Sources -> LegStates]]
          /\ \A x \in Quotes : x # q => leg'[x] = leg[x]
      BY <2>3, MarkedEffect
    <3> QED
      BY <2>3, <3>1, <3>2 DEF TypeOK, Disturb
  <2> QED
    BY <1>1, <2>1, <2>2, <2>3
<1>8. /\ chain' \in [Quotes -> {"none", "pending", "settled", "reverted"}]
      /\ \A x \in Quotes : x # q => chain'[x] = chain[x]
      /\ \/ chain'[q] = "none"
         \/ /\ chain'[q] = "pending"
            /\ \A s \in Legs(q) \cap Books : leg'[q][s] = "SUBMITTED"
  BY <1>3, <1>7 DEF TypeOK
<1>9. TypeOK'
  BY <1>1, <1>2, <1>5, <1>7, <1>8 DEF TypeOK
<1>10. CallMatchesQuote(q)'
  BY <1>1, <1>4, <1>6 DEF CallMatchesQuote
<1>11. UnsubmittedIsUnused(q)' /\ TerminalIsOver(q)'
  BY <1>5 DEF UnsubmittedIsUnused, TerminalIsOver
<1>12. \A s \in Legs(q) : ~Spent(q, s)'
  BY <1>2, <1>3, <1>6, <1>7 DEF Spent, Books
<1>13. chain'[q] = "pending" => \A s \in Legs(q) :
         IF s = Principal THEN risk'[q] = "ACTIVE" ELSE leg'[q][s] = "SUBMITTED"
  BY <1>1, <1>2, <1>6, <1>8 DEF Validated, Books
<1>14. SubmittedHolds(q)'
  BY <1>5, <1>6, <1>8, <1>12, <1>13 DEF SubmittedHolds
<1>15. \A x \in Quotes : x # q => Keeps(x)
  BY <1>1, <1>2, <1>5, <1>7, <1>8 DEF Keeps
<1> QED
  BY <1>9, <1>10, <1>11, <1>14, <1>15 DEF Preserves, Coherent

LEMMA ExecuteStep ==
  ASSUME TypeOK, NEW q \in Quotes, Coherent(q), AdapterExecutes(q)
  PROVE  Preserves(q)
<1>1. /\ chain[q] = "pending"
      /\ UNCHANGED riskVars /\ qstate' = qstate /\ take' = take /\ leg' = leg
      /\ UNCHANGED bookVars /\ call' = call /\ disturbed' = disturbed
  BY DEF AdapterExecutes
<1>2. PICK x \in {"settled", "reverted"} : chain' = [chain EXCEPT ![q] = x]
  BY DEF AdapterExecutes
<1>3. RiskTypeOK' /\ risk' = risk
  BY <1>1, RiskUnchanged
<1>4. /\ chain' \in [Quotes -> {"none", "pending", "settled", "reverted"}]
      /\ chain'[q] \in {"settled", "reverted"}
      /\ \A y \in Quotes : y # q => chain'[y] = chain[y]
  BY <1>2 DEF TypeOK
<1>5. TypeOK'
  BY <1>1, <1>3, <1>4 DEF TypeOK, bookVars
<1>6. Legs(q)' = Legs(q)
  BY <1>1 DEF Legs
<1>7. \A s \in Legs(q) : Live(q, s)' = Live(q, s) /\ Spent(q, s)' = Spent(q, s)
  BY <1>1, <1>3 DEF Live, Spent
<1>8. CallMatchesQuote(q)' /\ TerminalIsOver(q)'
  BY <1>1, <1>6, <1>7 DEF Coherent, CallMatchesQuote, TerminalIsOver
<1>9. qstate[q] \notin {"none", "RESERVED", "EXPIRED", "RELEASED"}
  BY <1>1 DEF Coherent, UnsubmittedIsUnused
<1>10. UnsubmittedIsUnused(q)'
  BY <1>1, <1>9 DEF UnsubmittedIsUnused
<1>11. qstate[q] = "SUBMITTED" => \A s \in Legs(q) :
         IF s = Principal THEN risk[q] = "ACTIVE" ELSE leg[q][s] = "SUBMITTED"
  BY <1>1 DEF Coherent, SubmittedHolds
<1>12. qstate[q] = "SUBMITTED" => \A s \in Legs(q) : ~Spent(q, s)'
  BY <1>7, <1>11 DEF Spent
<1>13. SubmittedHolds(q)'
  BY <1>1, <1>3, <1>4, <1>6, <1>11, <1>12 DEF SubmittedHolds
<1>14. \A y \in Quotes : y # q => Keeps(y)
  BY <1>1, <1>3, <1>4 DEF Keeps
<1> QED
  BY <1>5, <1>8, <1>10, <1>13, <1>14 DEF Preserves, Coherent

(* Booking the legs in S, all of which accept it.                          *)
LEMMA ConsumeEffect ==
  ASSUME TypeOK, NEW q \in Quotes, NEW S, ConsumeLegs(q, S),
         \A s \in Legs(q) : s \in S => AcceptsConfirm(q, s)
  PROVE  /\ leg' \in [Quotes -> [Sources -> LegStates]] /\ max' \in [Books -> Nat]
         /\ held' \in [Books -> Int] /\ gone' = gone /\ RiskTypeOK'
         /\ \A x \in Quotes : x # q => leg'[x] = leg[x] /\ risk'[x] = risk[x]
         /\ risk'[q] = IF Principal \in S \cap Legs(q) /\ risk[q] = "ACTIVE"
                       THEN "SETTLED" ELSE risk[q]
         /\ \A s \in Sources :
              leg'[q][s] = IF s \in S \cap Books /\ take[q][s] > 0 /\ leg[q][s] = "SUBMITTED"
                           THEN "CONSUMED" ELSE leg[q][s]
<1>1. /\ Turn(q, S, {"SUBMITTED"}, "CONSUMED") /\ GiveBack(q, S, {"SUBMITTED"})
      /\ max' = [s \in Books |->
           IF s \in Hit(q, S, {"SUBMITTED"}) THEN max[s] - take[q][s] ELSE max[s]]
      /\ IF Principal \in S \cap Legs(q) THEN SettleRisk(q) ELSE UNCHANGED riskVars
      /\ UNCHANGED gone
  BY DEF ConsumeLegs, ConsumeFrom
<1>2. "CONSUMED" \in LegStates
  BY DEF LegStates
<1>3. max' \in [Books -> Nat]
  <2>1. \A s \in Books : max[s] \in Nat /\ s \in Sources /\ s # Principal
    BY DEF TypeOK, Books
  <2>2. \A s \in Sources : take[q][s] \in Nat
    BY DEF TypeOK
  <2>3. \A s \in Hit(q, S, {"SUBMITTED"}) : max[s] - take[q][s] \in Nat
    <3> TAKE s \in Hit(q, S, {"SUBMITTED"})
    <3>1. s \in S \cap Books /\ s \in Legs(q) /\ leg[q][s] = "SUBMITTED"
      BY <2>1 DEF Hit, Legs
    <3>2. max[s] >= take[q][s]
      BY <2>1, <3>1 DEF AcceptsConfirm
    <3> QED
      BY <2>1, <2>2, <3>1, <3>2
  <2> QED
    BY <1>1, <2>1, <2>3
<1>4. /\ RiskTypeOK' /\ \A x \in Quotes : x # q => risk'[x] = risk[x]
      /\ risk'[q] = IF Principal \in S \cap Legs(q) /\ risk[q] = "ACTIVE"
                    THEN "SETTLED" ELSE risk[q]
  <2>1. CASE SettleRisk(q) /\ Principal \in S \cap Legs(q) /\ risk[q] = "ACTIVE"
    <3>1. /\ settled' = [a \in Assets |-> settled[a] + delta[q][a]]
          /\ risk' = [risk EXCEPT ![q] = "SETTLED"] /\ limit' = limit /\ delta' = delta
      BY <2>1 DEF SettleRisk
    <3>2. settled' \in [Assets -> Int]
      BY <3>1 DEF TypeOK, RiskTypeOK
    <3> QED
      BY <2>1, <3>1, <3>2 DEF TypeOK, RiskTypeOK, RiskStates
  <2>2. CASE SettleRisk(q) /\ risk[q] # "ACTIVE"
    BY <2>2 DEF TypeOK, RiskTypeOK, SettleRisk
  <2>3. CASE Principal \notin S \cap Legs(q) /\ UNCHANGED riskVars
    BY <2>3, RiskUnchanged
  <2> QED
    BY <1>1, <2>1, <2>2, <2>3
<1> QED
  BY <1>1, <1>2, <1>3, <1>4, TurnEffect, GiveBackType

LEMMA ConfirmStep ==
  ASSUME TypeOK, NEW q \in Quotes, Coherent(q), Confirm(q)
  PROVE  Preserves(q)
<1>1. /\ qstate[q] = "SUBMITTED" /\ chain[q] = "settled"
      /\ take' = take /\ call' = call /\ chain' = chain
  BY DEF Confirm
<1>2. PICK n \in 0..N :
        /\ \A s \in Legs(q) : s <= n => AcceptsConfirm(q, s)
        /\ ConsumeLegs(q, 1..n)
        /\ IF n = N
           THEN qstate' = [qstate EXCEPT ![q] = "CONFIRMED"] /\ UNCHANGED disturbed
           ELSE UNCHANGED qstate /\ (UNCHANGED disturbed \/ Disturb)
  BY DEF Confirm
<1>3. \A s \in Legs(q) : s \in 1..n => AcceptsConfirm(q, s)
  BY <1>2
<1>4. /\ leg' \in [Quotes -> [Sources -> LegStates]] /\ max' \in [Books -> Nat]
      /\ held' \in [Books -> Int] /\ gone' = gone /\ RiskTypeOK'
      /\ \A x \in Quotes : x # q => leg'[x] = leg[x] /\ risk'[x] = risk[x]
      /\ risk'[q] = IF Principal \in 1..n \cap Legs(q) /\ risk[q] = "ACTIVE"
                    THEN "SETTLED" ELSE risk[q]
      /\ \A s \in Sources :
           leg'[q][s] = IF s \in 1..n \cap Books /\ take[q][s] > 0 /\ leg[q][s] = "SUBMITTED"
                        THEN "CONSUMED" ELSE leg[q][s]
  BY <1>2, <1>3, ConsumeEffect
<1>5. /\ qstate' \in [Quotes -> QuoteStates] /\ disturbed' \in BOOLEAN
      /\ qstate'[q] = IF n = N THEN "CONFIRMED" ELSE "SUBMITTED"
      /\ \A x \in Quotes : x # q => qstate'[x] = qstate[x]
  BY <1>1, <1>2 DEF TypeOK, QuoteStates, Disturb
<1>6. TypeOK'
  BY <1>1, <1>4, <1>5 DEF TypeOK
<1>7. Legs(q)' = Legs(q) /\ \A s \in Legs(q) : s \in Sources /\ take[q][s] > 0
  BY <1>1 DEF Legs
<1>8. CallMatchesQuote(q)'
  BY <1>1, <1>7 DEF Coherent, CallMatchesQuote
<1>9. UnsubmittedIsUnused(q)'
  BY <1>5 DEF UnsubmittedIsUnused
<1>10. \A s \in Legs(q) : IF s = Principal THEN risk[q] \in {"ACTIVE", "SETTLED"}
                          ELSE leg[q][s] \in {"SUBMITTED", "CONSUMED"}
  BY <1>1 DEF Coherent, SubmittedHolds
<1>11. \A s \in Legs(q) : IF s = Principal THEN risk'[q] \in {"ACTIVE", "SETTLED"}
                          ELSE leg'[q][s] \in {"SUBMITTED", "CONSUMED"}
  BY <1>4, <1>7, <1>10
<1>12. SubmittedHolds(q)'
  BY <1>1, <1>7, <1>11 DEF SubmittedHolds
<1>13. n = N => \A s \in Legs(q) : Spent(q, s)'
  BY <1>4, <1>7, <1>10 DEF Spent, Books, Sources
<1>14. TerminalIsOver(q)'
  BY <1>5, <1>7, <1>13 DEF TerminalIsOver
<1>15. \A x \in Quotes : x # q => Keeps(x)
  BY <1>1, <1>4, <1>5 DEF Keeps
<1> QED
  BY <1>6, <1>8, <1>9, <1>12, <1>14, <1>15 DEF Preserves, Coherent

LEMMA FailStep ==
  ASSUME TypeOK, NEW q \in Quotes, Coherent(q), Fail(q)
  PROVE  Preserves(q)
<1>1. /\ qstate[q] = "SUBMITTED" /\ chain[q] \in {"none", "reverted"}
      /\ take' = take /\ call' = call /\ chain' = chain
  BY DEF Fail
<1>2. PICK n \in 0..N :
        /\ FailLegs(q, n + 1..N)
        /\ IF n = 0
           THEN qstate' = [qstate EXCEPT ![q] = "FAILED"] /\ UNCHANGED disturbed
           ELSE UNCHANGED qstate /\ (UNCHANGED disturbed \/ Disturb)
  BY DEF Fail
<1>3. /\ Turn(q, n + 1..N, {"ACTIVE", "SUBMITTED"}, "FAILED")
      /\ GiveBack(q, n + 1..N, {"ACTIVE", "SUBMITTED"})
      /\ IF Principal \in n + 1..N THEN ReleaseRisk(q) ELSE UNCHANGED riskVars
      /\ max' = max /\ gone' = gone
  BY <1>2 DEF FailLegs
<1>4. "FAILED" \in LegStates
  BY DEF LegStates
<1>5. /\ leg' \in [Quotes -> [Sources -> LegStates]]
      /\ \A x \in Quotes : x # q => leg'[x] = leg[x]
      /\ \A s \in Sources :
           leg'[q][s] = IF /\ s \in (n + 1..N) \cap Books /\ take[q][s] > 0
                           /\ leg[q][s] \in {"ACTIVE", "SUBMITTED"}
                        THEN "FAILED" ELSE leg[q][s]
  <2> DEFINE old == {"ACTIVE", "SUBMITTED"}
             S == n + 1..N
  <2>1. Turn(q, S, old, "FAILED")
    BY <1>3
  <2>2. old = {"ACTIVE", "SUBMITTED"} /\ S = n + 1..N
    OBVIOUS
  <2> HIDE DEF old, S
  <2>3. /\ leg' \in [Quotes -> [Sources -> LegStates]]
        /\ \A x \in Quotes : x # q => leg'[x] = leg[x]
        /\ \A s \in Sources :
             leg'[q][s] = IF s \in S \cap Books /\ take[q][s] > 0 /\ leg[q][s] \in old
                          THEN "FAILED" ELSE leg[q][s]
    BY <1>4, <2>1, TurnEffect
  <2> QED
    BY <2>2, <2>3
<1>6. held' \in [Books -> Int]
  BY <1>3, GiveBackType
<1>7. /\ RiskTypeOK' /\ \A x \in Quotes : x # q => risk'[x] = risk[x]
      /\ risk'[q] = IF Principal \in n + 1..N /\ risk[q] = "ACTIVE"
                    THEN "RELEASED" ELSE risk[q]
  BY <1>3, ReleaseRiskEffect, RiskUnchanged
<1>8. /\ qstate' \in [Quotes -> QuoteStates] /\ disturbed' \in BOOLEAN
      /\ qstate'[q] = IF n = 0 THEN "FAILED" ELSE "SUBMITTED"
      /\ \A x \in Quotes : x # q => qstate'[x] = qstate[x]
  BY <1>1, <1>2 DEF TypeOK, QuoteStates, Disturb
<1>9. TypeOK'
  BY <1>1, <1>3, <1>5, <1>6, <1>7, <1>8 DEF TypeOK
<1>10. Legs(q)' = Legs(q) /\ \A s \in Legs(q) : s \in Sources /\ take[q][s] > 0
  BY <1>1 DEF Legs
<1>11. CallMatchesQuote(q)'
  BY <1>1, <1>10 DEF Coherent, CallMatchesQuote
<1>12. UnsubmittedIsUnused(q)'
  BY <1>8 DEF UnsubmittedIsUnused
<1>13. \A s \in Legs(q) : ~Spent(q, s)
  BY <1>1 DEF Coherent, SubmittedHolds
<1>14. \A s \in Legs(q) : ~Spent(q, s)'
  BY <1>5, <1>7, <1>10, <1>13 DEF Spent
<1>15. n = 0 => \A s \in Legs(q) : ~Live(q, s)'
  BY <1>5, <1>7, <1>10 DEF Live, Books, Sources
<1>16. SubmittedHolds(q)'
  BY <1>1, <1>10, <1>14 DEF SubmittedHolds
<1>17. TerminalIsOver(q)'
  BY <1>8, <1>10, <1>14, <1>15 DEF TerminalIsOver
<1>18. \A x \in Quotes : x # q => Keeps(x)
  BY <1>1, <1>5, <1>7, <1>8 DEF Keeps
<1> QED
  BY <1>9, <1>11, <1>12, <1>16, <1>17, <1>18 DEF Preserves, Coherent

LEMMA ExpireStep ==
  ASSUME TypeOK, NEW q \in Quotes, Coherent(q), Expire(q)
  PROVE  Preserves(q)
<1>1. qstate[q] = "RESERVED" /\ take' = take /\ call' = call /\ chain' = chain
  BY DEF Expire
<1>2. PICK n \in 0..N :
        /\ ReleaseLegs(q, n + 1..N)
        /\ IF n = 0
           THEN qstate' = [qstate EXCEPT ![q] = "EXPIRED"] /\ UNCHANGED disturbed
           ELSE UNCHANGED qstate /\ Disturb
  BY DEF Expire
<1>3. UnsubmittedIsUnused(q)
  BY DEF Coherent
<1>4. /\ leg' \in [Quotes -> [Sources -> LegStates]]
      /\ held' \in [Books -> Int] /\ max' = max /\ gone' = gone /\ RiskTypeOK'
      /\ \A x \in Quotes : x # q => leg'[x] = leg[x] /\ risk'[x] = risk[x]
  BY <1>2, ReleaseEffect
<1>5. /\ Legs(q)' = Legs(q)
      /\ \A x \in Legs(q) : /\ Live(q, x)' => Live(q, x) /\ x \notin n + 1..N
                            /\ ~Spent(q, x)'
      /\ \A x \in Books : leg'[q][x] \notin {"SUBMITTED", "CONSUMED", "FAILED"}
      /\ risk'[q] # "SETTLED"
  BY <1>1, <1>2, <1>3, ReleasedIsOver
<1>6. /\ qstate' \in [Quotes -> QuoteStates] /\ disturbed' \in BOOLEAN
      /\ qstate'[q] = IF n = 0 THEN "EXPIRED" ELSE "RESERVED"
      /\ \A x \in Quotes : x # q => qstate'[x] = qstate[x]
  BY <1>1, <1>2 DEF TypeOK, QuoteStates, Disturb
<1>7. TypeOK'
  BY <1>1, <1>4, <1>6 DEF TypeOK
<1>8. CallMatchesQuote(q)'
  <2>1. \A s \in Legs(q) : ~Live(q, s) => ~Live(q, s)'
    BY <1>5
  <2>2. CallMatchesQuote(q) /\ qstate'[q] \in {"RESERVED", "EXPIRED"} /\ call' = call
    BY <1>1, <1>6 DEF Coherent
  <2> QED
    BY <1>1, <1>5, <2>1, <2>2 DEF CallMatchesQuote
<1>9. UnsubmittedIsUnused(q)'
  BY <1>1, <1>3, <1>5 DEF UnsubmittedIsUnused
<1>10. SubmittedHolds(q)'
  BY <1>6 DEF SubmittedHolds
<1>11. n = 0 => \A x \in Legs(q) : ~Live(q, x)'
  <2>1. \A x \in Legs(q) : x \in 1..N
    BY DEF Legs, Sources
  <2> QED
    BY <1>5, <2>1
<1>12. TerminalIsOver(q)'
  BY <1>5, <1>6, <1>11 DEF TerminalIsOver
<1>13. \A x \in Quotes : x # q => Keeps(x)
  BY <1>1, <1>4, <1>6 DEF Keeps
<1> QED
  BY <1>7, <1>8, <1>9, <1>10, <1>12, <1>13 DEF Preserves, Coherent

-----------------------------------------------------------------------------
(* What happens around the quotes *)

LEMMA QuoteStep ==
  ASSUME TypeOK, NEW q \in Quotes, Coherent(q),
         Asynchronous(q) \/ Synchronous(q) \/ AdapterExecutes(q)
  PROVE  Preserves(q)
BY ReserveStartStep, ReserveLegStep, InsertQuoteStep, ReleaseTradeStep,
   ReleaseLegStep, ReleaseMarkStep, SubmitStep, ConfirmStep, FailStep, ExpireStep,
   ExecuteStep
   DEF Asynchronous, Synchronous

LEMMA WithdrawOrderStep ==
  ASSUME TypeOK, NEW s \in Private, WithdrawOrder(s)
  PROVE  TypeOK' /\ \A q \in Quotes : Keeps(q)
<1>1. /\ LeaveMarket(s, leg)
      /\ UNCHANGED riskVars /\ qstate' = qstate /\ take' = take /\ max' = max
      /\ call' = call /\ chain' = chain /\ disturbed' = disturbed
  BY DEF WithdrawOrder
<1>2. leg \in [Quotes -> [Sources -> LegStates]]
  BY DEF TypeOK
<1>3. /\ leg' \in [Quotes -> [Sources -> LegStates]]
      /\ held' \in [Books -> Int] /\ gone' \in SUBSET Private
      /\ \A x \in Quotes, y \in Sources :
           \/ leg'[x][y] = leg[x][y]
           \/ leg[x][y] = "ACTIVE" /\ leg'[x][y] = "RELEASED"
  BY <1>1, <1>2, LeaveMarketEffect
<1>4. RiskTypeOK' /\ risk' = risk
  BY <1>1, RiskUnchanged
<1>5. TypeOK'
  BY <1>1, <1>3, <1>4 DEF TypeOK
<1> QED
  BY <1>1, <1>3, <1>4, <1>5 DEF Keeps

LEMMA UpsertSliceStep ==
  ASSUME TypeOK, NEW s \in Reference, UpsertSlice(s)
  PROVE  TypeOK' /\ \A q \in Quotes : Keeps(q)
<1>1. /\ UNCHANGED riskVars /\ qstate' = qstate /\ take' = take /\ leg' = leg
      /\ held' = held /\ gone' = gone /\ call' = call /\ chain' = chain
      /\ disturbed' = disturbed
  BY DEF UpsertSlice
<1>2. PICK m \in Capacity : max' = [max EXCEPT ![s] = m]
  BY DEF UpsertSlice
<1>3. max' \in [Books -> Nat]
  BY <1>2, QuoteAssumption DEF TypeOK
<1>4. RiskTypeOK' /\ risk' = risk
  BY <1>1, RiskUnchanged
<1> QED
  BY <1>1, <1>3, <1>4 DEF TypeOK, Keeps

LEMMA OperateStep ==
  ASSUME TypeOK, OperateRiskBook
  PROVE  TypeOK' /\ \A q \in Quotes : Keeps(q)
<1>1. /\ qstate' = qstate /\ take' = take /\ leg' = leg /\ UNCHANGED bookVars
      /\ call' = call /\ chain' = chain /\ disturbed' = disturbed /\ Operate
  BY DEF OperateRiskBook
<1>2. PICK a \in Assets : \/ \E l \in HardLimits : ConfigureAsset(a, l)
                          \/ \E n \in Positions : SetSettledPosition(a, n)
  BY <1>1 DEF Operate
<1>3. RiskTypeOK' /\ risk' = risk
  <2>1. ASSUME NEW l \in HardLimits, ConfigureAsset(a, l)
        PROVE  RiskTypeOK' /\ risk' = risk
    BY <2>1, RiskAssumption DEF TypeOK, RiskTypeOK, ConfigureAsset
  <2>2. ASSUME NEW n \in Positions, SetSettledPosition(a, n)
        PROVE  RiskTypeOK' /\ risk' = risk
    BY <2>2, RiskAssumption DEF TypeOK, RiskTypeOK, SetSettledPosition
  <2> QED
    BY <1>2, <2>1, <2>2
<1> QED
  BY <1>1, <1>3 DEF TypeOK, Keeps, bookVars

(* After a crash the calls are idle; nothing else is different.            *)
LEMMA CrashStep ==
  ASSUME TypeOK, Inductive, Crash
  PROVE  TypeOK' /\ Inductive'
<1>1. /\ UNCHANGED riskVars /\ qstate' = qstate /\ take' = take /\ leg' = leg
      /\ UNCHANGED bookVars /\ chain' = chain /\ disturbed' = TRUE
      /\ call' = [q \in Quotes |-> Idle]
  BY DEF Crash, Disturb
<1>2. RiskTypeOK' /\ risk' = risk
  BY <1>1, RiskUnchanged
<1>3. Idle \in [step : Steps, at : 0..N + 1] /\ Idle.step = "idle"
  BY QuoteAssumption DEF Idle, Steps
<1>4. TypeOK'
  BY <1>1, <1>2, <1>3 DEF TypeOK, bookVars
<1>5. ASSUME NEW q \in Quotes
      PROVE  Coherent(q)'
  <2>1. Coherent(q) /\ call'[q].step = "idle"
    BY <1>1, <1>3 DEF Inductive
  <2>2. Legs(q)' = Legs(q)
    BY <1>1 DEF Legs
  <2>3. \A s \in Legs(q) : Live(q, s)' = Live(q, s) /\ Spent(q, s)' = Spent(q, s)
    BY <1>1, <1>2 DEF Live, Spent
  <2>4. CallMatchesQuote(q)'
    BY <1>1, <2>1, <2>2 DEF Coherent, CallMatchesQuote
  <2>5. UnsubmittedIsUnused(q)'
    BY <1>1, <1>2, <2>1 DEF Coherent, UnsubmittedIsUnused
  <2>6. SubmittedHolds(q)' /\ TerminalIsOver(q)'
    BY <1>1, <1>2, <2>1, <2>2, <2>3 DEF Coherent, SubmittedHolds, TerminalIsOver
  <2> QED
    BY <2>4, <2>5, <2>6 DEF Coherent
<1> QED
  BY <1>4, <1>5 DEF Inductive

LEMMA StutterKeeps ==
  ASSUME TypeOK, UNCHANGED vars
  PROVE  TypeOK' /\ \A q \in Quotes : Keeps(q)
<1>1. /\ UNCHANGED riskVars /\ qstate' = qstate /\ take' = take /\ leg' = leg
      /\ UNCHANGED bookVars /\ call' = call /\ chain' = chain /\ disturbed' = disturbed
  BY DEF vars
<1>2. RiskTypeOK' /\ risk' = risk
  BY <1>1, RiskUnchanged
<1> QED
  BY <1>1, <1>2 DEF TypeOK, Keeps, bookVars

-----------------------------------------------------------------------------

LEMMA InitIsCoherent ==
  ASSUME Init
  PROVE  TypeOK /\ Inductive
<1>1. RiskTypeOK /\ \A q \in Quotes : risk[q] = "none"
  <2>1. limit \in [Assets -> HardLimits] /\ HardLimits \subseteq Nat \ {0}
    BY RiskAssumption DEF Init, RiskInit
  <2>2. limit \in [Assets -> Nat \ {0}]
    BY <2>1
  <2>3. /\ settled = [a \in Assets |-> 0] /\ risk = [q \in Quotes |-> "none"]
        /\ delta = [q \in Quotes |-> [a \in Assets |-> 0]]
    BY DEF Init, RiskInit
  <2> QED
    BY <2>2, <2>3 DEF RiskTypeOK, RiskStates
<1>2. Idle \in [step : Steps, at : 0..N + 1] /\ Idle.step = "idle"
  BY QuoteAssumption DEF Idle, Steps
<1>3. \A q \in Quotes : qstate[q] = "none" /\ call[q] = Idle /\ chain[q] = "none"
  BY DEF Init
<1>4. \A q \in Quotes, s \in Sources : leg[q][s] = "none"
  BY DEF Init
<1>5. TypeOK
  <2>1. /\ qstate \in [Quotes -> QuoteStates] /\ leg \in [Quotes -> [Sources -> LegStates]]
        /\ take \in [Quotes -> [Sources -> Nat]]
    BY DEF Init, QuoteStates, LegStates
  <2>2. max \in [Books -> Nat] /\ held \in [Books -> Int] /\ gone \in SUBSET Private
    <3>1. max \in [Books -> Capacity] /\ Capacity \subseteq Nat \ {0}
      BY QuoteAssumption DEF Init
    <3>2. held = [s \in Books |-> 0] /\ gone = {}
      BY DEF Init
    <3>3. max \in [Books -> Nat]
      BY <3>1
    <3>4. held \in [Books -> Int]
      BY <3>2
    <3> QED
      BY <3>2, <3>3, <3>4
  <2>3. /\ call \in [Quotes -> [step : Steps, at : 0..N + 1]]
        /\ chain \in [Quotes -> {"none", "pending", "settled", "reverted"}]
        /\ disturbed \in BOOLEAN
    BY <1>2 DEF Init
  <2> QED
    BY <1>1, <2>1, <2>2, <2>3 DEF TypeOK
<1>6. ASSUME NEW q \in Quotes
      PROVE  Coherent(q)
  <2>1. CallMatchesQuote(q)
    BY <1>2, <1>3 DEF CallMatchesQuote
  <2>2. UnsubmittedIsUnused(q)
    BY <1>1, <1>3, <1>4 DEF UnsubmittedIsUnused, Books
  <2>3. SubmittedHolds(q) /\ TerminalIsOver(q)
    BY <1>3 DEF SubmittedHolds, TerminalIsOver
  <2> QED
    BY <2>1, <2>2, <2>3 DEF Coherent
<1> QED
  BY <1>5, <1>6 DEF Inductive

LEMMA NextIsCoherent ==
  ASSUME TypeOK, Inductive, [Next]_vars
  PROVE  TypeOK' /\ Inductive'
<1>1. ASSUME TypeOK', \A q \in Quotes : Keeps(q)
      PROVE  TypeOK' /\ Inductive'
  BY <1>1, KeptIsCoherent DEF Inductive
<1>2. ASSUME NEW q \in Quotes, Asynchronous(q) \/ Synchronous(q) \/ AdapterExecutes(q)
      PROVE  TypeOK' /\ Inductive'
  <2>1. Preserves(q)
    BY <1>2, QuoteStep DEF Inductive
  <2>2. TypeOK' /\ Coherent(q)' /\ \A x \in Quotes : x # q => Keeps(x)
    BY <2>1 DEF Preserves
  <2>3. \A x \in Quotes : x # q => Coherent(x)'
    BY <2>2, KeptIsCoherent DEF Inductive
  <2> QED
    BY <2>2, <2>3 DEF Inductive
<1>3. ASSUME NEW s \in Private, WithdrawOrder(s)
      PROVE  TypeOK' /\ Inductive'
  BY <1>1, <1>3, WithdrawOrderStep
<1>4. ASSUME NEW s \in Reference, UpsertSlice(s)
      PROVE  TypeOK' /\ Inductive'
  BY <1>1, <1>4, UpsertSliceStep
<1>5. CASE OperateRiskBook
  BY <1>1, <1>5, OperateStep
<1>6. CASE Crash
  BY <1>6, CrashStep
<1>7. CASE UNCHANGED vars
  BY <1>1, <1>7, StutterKeeps
<1> QED
  BY <1>2, <1>3, <1>4, <1>5, <1>6, <1>7 DEF Next

(* The types hold, and every quote agrees with its legs, its execution and *)
(* the call that is at work on it, whatever was interrupted.               *)
THEOREM QuotesCoherent == Spec => [](TypeOK /\ Inductive)
<1>1. Init => TypeOK /\ Inductive
  BY InitIsCoherent
<1>2. TypeOK /\ Inductive /\ [Next]_vars => (TypeOK /\ Inductive)'
  BY NextIsCoherent
<1> QED
  BY <1>1, <1>2, PTL DEF Spec

(* The states are those the code's tables and calls can hold; a source's   *)
(* maximum never becomes negative, however often a confirmation is retried. *)
THEOREM TypeInvariant == Spec => []TypeOK
BY QuotesCoherent, PTL

(* Liquidity that may be executed is reserved or booked at every source of *)
(* the quote, from the call of the execution adapter to the booking.       *)
THEOREM ExecutionIsBacked == Spec => []InFlightBacked
<1>1. Inductive => InFlightBacked
  BY DEF Inductive, Coherent, SubmittedHolds, InFlightBacked, Live, Spent
<1> QED
  BY <1>1, QuotesCoherent, PTL

(* A quote that is over left its legs as its state says.                   *)
THEOREM LegsAgreeWithQuote == Spec => []LegsFollowQuote
<1>1. Inductive => LegsFollowQuote
  BY DEF Inductive, Coherent, TerminalIsOver, LegsFollowQuote
<1> QED
  BY <1>1, QuotesCoherent, PTL

-----------------------------------------------------------------------------
(* The exposure of the bank *)

(* Only a booking and an operator change a settled position or a limit.    *)
LEMMA ExposureFrame ==
  ASSUME NEW q \in Quotes, \/ Asynchronous(q) \/ Submit(q) \/ Fail(q) \/ Expire(q)
                           \/ AdapterExecutes(q)
  PROVE  settled' = settled /\ limit' = limit
<1>1. ASSUME UNCHANGED riskVars
      PROVE  settled' = settled /\ limit' = limit
  BY <1>1 DEF riskVars
<1>2. ASSUME ReleaseRisk(q)
      PROVE  settled' = settled /\ limit' = limit
  BY <1>2 DEF ReleaseRisk
<1>3. ASSUME NEW S, ReleaseLegs(q, S)
      PROVE  settled' = settled /\ limit' = limit
  BY <1>1, <1>2, <1>3 DEF ReleaseLegs
<1>4. CASE ReserveStart(q) \/ InsertQuote(q) \/ ReleaseMark(q) \/ Submit(q) \/ AdapterExecutes(q)
  <2>1. UNCHANGED riskVars
    BY <1>4 DEF ReserveStart, InsertQuote, ReleaseMark, Submit, AdapterExecutes
  <2> QED
    BY <1>1, <2>1
<1>5. CASE ReserveLeg(q)
  <2>1. ASSUME NEW s, HoldLeg(q, s)
        PROVE  settled' = settled /\ limit' = limit
    BY <1>1, <2>1 DEF HoldLeg, ReserveRisk
  <2> QED
    BY <1>1, <1>5, <2>1 DEF ReserveLeg
<1>6. CASE ReleaseLeg(q) \/ ReleaseTrade(q) \/ Expire(q)
  <2>1. (\E S : ReleaseLegs(q, S)) \/ UNCHANGED riskVars
    BY <1>6 DEF ReleaseLeg, ReleaseTrade, Expire
  <2> QED
    BY <1>1, <1>3, <2>1
<1>7. CASE Fail(q)
  <2>1. ReleaseRisk(q) \/ UNCHANGED riskVars
    BY <1>7 DEF Fail, FailLegs
  <2> QED
    BY <1>1, <1>2, <2>1
<1> QED
  BY <1>4, <1>5, <1>6, <1>7 DEF Asynchronous

LEMMA ExposureStep ==
  ASSUME TypeOK, ExposureBound, [Next]_vars
  PROVE  ExposureBound'
<1>1. ASSUME settled' = settled, limit' = limit
      PROVE  ExposureBound'
  BY <1>1 DEF ExposureBound
<1>2. ASSUME UNCHANGED riskVars
      PROVE  ExposureBound'
  BY <1>1, <1>2 DEF riskVars
<1>3. ASSUME NEW q \in Quotes, Confirm(q)
      PROVE  ExposureBound'
  <2>1. PICK n \in 0..N : /\ \A s \in Legs(q) : s <= n => AcceptsConfirm(q, s)
                          /\ ConsumeLegs(q, 1..n)
    BY <1>3 DEF Confirm
  <2>2. CASE Principal \in 1..n \cap Legs(q) /\ risk[q] = "ACTIVE"
    <3>1. CanSettle(q)
      BY <2>1, <2>2 DEF AcceptsConfirm
    <3>2. SettleRisk(q)
      BY <2>1, <2>2 DEF ConsumeLegs
    <3>3. settled' = [a \in Assets |-> settled[a] + delta[q][a]] /\ limit' = limit
      BY <2>2, <3>2 DEF SettleRisk
    <3>4. \A a \in Assets : Magnitude(settled[a] + delta[q][a]) <= limit[a]
      BY <3>1 DEF CanSettle
    <3> QED
      BY <3>3, <3>4 DEF ExposureBound
  <2>3. CASE Principal \in 1..n \cap Legs(q) /\ risk[q] # "ACTIVE"
    <3>1. SettleRisk(q)
      BY <2>1, <2>3 DEF ConsumeLegs
    <3>2. settled' = settled /\ limit' = limit
      BY <2>3, <3>1 DEF SettleRisk
    <3> QED
      BY <1>1, <3>2
  <2>4. CASE Principal \notin 1..n \cap Legs(q)
    <3>1. UNCHANGED riskVars
      BY <2>1, <2>4 DEF ConsumeLegs
    <3> QED
      BY <1>2, <3>1
  <2> QED
    BY <2>2, <2>3, <2>4
<1>4. CASE OperateRiskBook
  <2>1. PICK a \in Assets : \/ \E l \in HardLimits : ConfigureAsset(a, l)
                            \/ \E n \in Positions : SetSettledPosition(a, n)
    BY <1>4 DEF OperateRiskBook, Operate
  <2>2. ASSUME NEW l \in HardLimits, ConfigureAsset(a, l)
        PROVE  ExposureBound'
    BY <2>2 DEF TypeOK, RiskTypeOK, ExposureBound, ConfigureAsset
  <2>3. ASSUME NEW n \in Positions, SetSettledPosition(a, n)
        PROVE  ExposureBound'
    BY <2>3 DEF TypeOK, RiskTypeOK, ExposureBound, SetSettledPosition
  <2> QED
    BY <2>1, <2>2, <2>3
<1>5. ASSUME NEW q \in Quotes, Asynchronous(q) \/ Synchronous(q) \/ AdapterExecutes(q)
      PROVE  ExposureBound'
  BY <1>1, <1>3, <1>5, ExposureFrame DEF Synchronous
<1>6. CASE UNCHANGED vars \/ Crash \/ (\E s \in Private : WithdrawOrder(s))
           \/ (\E s \in Reference : UpsertSlice(s))
  <2>1. UNCHANGED riskVars
    BY <1>6 DEF vars, Crash, WithdrawOrder, UpsertSlice
  <2> QED
    BY <1>2, <2>1
<1> QED
  BY <1>4, <1>5, <1>6 DEF Next

(* The settled position of the bank never passes its hard limit, whatever  *)
(* quotes are confirmed, in whatever order, and whatever an operator does. *)
THEOREM ExposureIsBounded == Spec => []ExposureBound
<1>1. Init => ExposureBound
  <2>1. ASSUME Init
        PROVE  \A a \in Assets : settled[a] = 0 /\ limit[a] \in Nat \ {0}
    BY <2>1, InitIsCoherent DEF Init, RiskInit, TypeOK, RiskTypeOK
  <2> QED
    BY <2>1 DEF ExposureBound, Magnitude
<1>2. TypeOK /\ ExposureBound /\ [Next]_vars => ExposureBound'
  BY ExposureStep
<1> QED
  BY <1>1, <1>2, TypeInvariant, PTL DEF Spec

-----------------------------------------------------------------------------
(* The capacity of the sources *)

Allocates == \A s \in Books : held'[s] > held[s] => held'[s] <= max'[s]

LEMMA GiveBackAllocates ==
  ASSUME TypeOK, NEW q \in Quotes, NEW S, NEW old, GiveBack(q, S, old)
  PROVE  Allocates
<1>1. \A s \in Books : held[s] \in Int /\ s \in Sources
  BY DEF TypeOK, Books
<1>2. \A s \in Sources : take[q][s] \in Nat
  BY DEF TypeOK
<1>3. \A s \in Books : held'[s] = held[s] - take[q][s] \/ held'[s] = held[s]
  BY DEF GiveBack
<1> QED
  BY <1>1, <1>2, <1>3 DEF Allocates

LEMMA HoldLegAllocates ==
  ASSUME TypeOK, NEW q \in Quotes, NEW s \in Legs(q), HoldLeg(q, s)
  PROVE  Allocates
<1>1. CASE s = Principal
  <2>1. held' = held
    BY <1>1 DEF HoldLeg, bookVars
  <2>2. \A y \in Books : held[y] \in Int
    BY DEF TypeOK
  <2> QED
    BY <2>1, <2>2 DEF Allocates
<1>2. CASE s # Principal
  <2>1. /\ s \in Books /\ take[q][s] \in Nat /\ take[q][s] > 0
        /\ held[s] \in Int /\ max[s] \in Nat
    BY <1>2 DEF TypeOK, Legs, Books
  <2>2. /\ Free(s) >= take[q][s] /\ max' = max
        /\ held' = [held EXCEPT ![s] = @ + take[q][s]]
    BY <1>2 DEF HoldLeg, StillFree
  <2>3. held[s] + take[q][s] <= max[s]
    <3>1. CASE s \in Private
      <4>1. ~(held[s] > 0) /\ max[s] >= take[q][s]
        BY <2>1, <2>2, <3>1 DEF Free
      <4> QED
        BY <2>1, <4>1
    <3>2. CASE s \notin Private
      <4>1. max[s] - held[s] >= take[q][s]
        BY <2>2, <3>2 DEF Free
      <4> QED
        BY <2>1, <4>1
    <3> QED
      BY <3>1, <3>2
  <2>4. \A y \in Books : held[y] \in Int /\ (y # s => held'[y] = held[y])
    BY <2>2 DEF TypeOK
  <2>5. held'[s] = held[s] + take[q][s]
    BY <2>1, <2>2 DEF TypeOK
  <2> QED
    BY <2>2, <2>3, <2>4, <2>5 DEF Allocates
<1> QED
  BY <1>1, <1>2

LEMMA AllocationStep ==
  ASSUME TypeOK, TypeOK', Inductive, [Next]_vars
  PROVE  Allocates
<1>1. /\ \A s \in Books : held[s] \in Int /\ held'[s] \in Int /\ max'[s] \in Nat
      /\ leg \in [Quotes -> [Sources -> LegStates]]
  BY DEF TypeOK
<1>2. ASSUME held' = held
      PROVE  Allocates
  BY <1>1, <1>2 DEF Allocates
<1>3. ASSUME NEW s \in Private, NEW l \in [Quotes -> [Sources -> LegStates]],
             LeaveMarket(s, l)
      PROVE  Allocates
  <2>1. \A y \in Books : held'[y] = held[y] \/ held'[y] = 0
    BY <1>3, LeaveMarketEffect
  <2> QED
    BY <1>1, <2>1 DEF Allocates
<1>4. ASSUME NEW q \in Quotes, ReserveLeg(q)
      PROVE  Allocates
  <2>1. call[q].at \in Legs(q)
    BY <1>4 DEF Inductive, Coherent, CallMatchesQuote, ReserveLeg
  <2>2. HoldLeg(q, call[q].at) \/ UNCHANGED bookVars
    BY <1>4 DEF ReserveLeg
  <2> QED
    BY <1>2, <2>1, <2>2, HoldLegAllocates DEF bookVars
<1>5. ASSUME NEW q \in Quotes,
             ReleaseLeg(q) \/ ReleaseTrade(q) \/ Expire(q) \/ Confirm(q) \/ Fail(q)
      PROVE  Allocates
  <2>1. (\E S, old : GiveBack(q, S, old)) \/ UNCHANGED bookVars
    BY <1>5 DEF ReleaseLeg, ReleaseTrade, Expire, Confirm, Fail, ReleaseLegs,
                ConsumeLegs, FailLegs
  <2> QED
    BY <1>2, <2>1, GiveBackAllocates DEF bookVars
<1>6. ASSUME NEW q \in Quotes, Submit(q)
      PROVE  Allocates
  <2>1. \/ held' = held
        \/ \E s \in Private \cap Legs(q) : LeaveMarket(s, Marked(q, 1..s - 1))
    BY <1>6 DEF Submit
  <2> QED
    BY <1>2, <1>3, <2>1, MarkedEffect
<1>7. ASSUME NEW q \in Quotes,
             ReserveStart(q) \/ InsertQuote(q) \/ ReleaseMark(q) \/ AdapterExecutes(q)
      PROVE  Allocates
  BY <1>2, <1>7 DEF ReserveStart, InsertQuote, ReleaseMark, AdapterExecutes, bookVars
<1>8. ASSUME NEW s \in Private, WithdrawOrder(s)
      PROVE  Allocates
  BY <1>1, <1>3, <1>8 DEF WithdrawOrder
<1>9. CASE \/ UNCHANGED vars \/ Crash \/ OperateRiskBook
           \/ \E s \in Reference : UpsertSlice(s)
  BY <1>2, <1>9 DEF vars, Crash, OperateRiskBook, UpsertSlice, bookVars
<1> QED
  BY <1>4, <1>5, <1>6, <1>7, <1>8, <1>9 DEF Next, Asynchronous, Synchronous

(* A source reserves for a quote only what it has, though every leg of a   *)
(* plan is reserved in a step of its own and others reserve between them.  *)
THEOREM CapacityIsRespected == Spec => NoOverAllocation
<1>1. TypeOK /\ Inductive /\ TypeOK' /\ [Next]_vars =>
        [\A s \in Books : held'[s] > held[s] => held'[s] <= max'[s]]_vars
  BY AllocationStep DEF Allocates
<1> QED
  BY <1>1, QuotesCoherent, PTL DEF Spec, NoOverAllocation
-----------------------------------------------------------------------------
(* Every leg is accounted for. While a quote is reserved its legs are held *)
(* in order, while it is undone they are given back in the opposite order; *)
(* unless a call was cut short, that is all there is.                      *)

OnlyLegsLive(q) == \A s \in Sources : Live(q, s) => s \in Legs(q)

NotYetHeld(q) ==
  call[q].step = "reserve" => \A x \in Legs(q) : x >= call[q].at => ~Live(q, x)

HeldOrGone(q, x) == Live(q, x) \/ x \in gone

(* What an undisturbed call has done so far, and what it left.             *)
DoneSoFar(q) ==
  /\ call[q].step = "reserve" => \A x \in Legs(q) : x < call[q].at => HeldOrGone(q, x)
  /\ call[q].step = "insert" => \A x \in Legs(q) : HeldOrGone(q, x)
  /\ call[q].step \in {"undo", "unwind"} =>
       \A x \in Legs(q) : x > call[q].at => ~Live(q, x)
  /\ call[q].step = "idle" /\ qstate[q] = "none" => \A x \in Legs(q) : ~Live(q, x)
  /\ call[q].step = "idle" /\ qstate[q] = "RESERVED" =>
       \A x \in Legs(q) : HeldOrGone(q, x)

Accounted(q) == OnlyLegsLive(q) /\ NotYetHeld(q) /\ (~disturbed => DoneSoFar(q))

(* What others do to a quote: an order it holds may leave the market.      *)
Leaves(q) ==
  /\ gone \subseteq gone' /\ (disturbed => disturbed')
  /\ \A s \in Sources : leg'[q][s] = leg[q][s] \/ s \in gone'

LEMMA KeptIsAccounted ==
  ASSUME NEW q \in Quotes, Accounted(q), Keeps(q), Leaves(q)
  PROVE  Accounted(q)'
<1>1. Legs(q)' = Legs(q) /\ Legs(q) \subseteq Sources
  BY DEF Keeps, Legs
<1>2. \A s \in Sources : /\ Live(q, s)' => Live(q, s)
                         /\ HeldOrGone(q, s) => HeldOrGone(q, s)'
  BY DEF Keeps, Leaves, Live, HeldOrGone
<1>3. OnlyLegsLive(q)' /\ NotYetHeld(q)'
  BY <1>1, <1>2 DEF Keeps, Accounted, OnlyLegsLive, NotYetHeld
<1>4. ~disturbed' => DoneSoFar(q)'
  BY <1>1, <1>2 DEF Keeps, Leaves, Accounted, DoneSoFar
<1> QED
  BY <1>3, <1>4 DEF Accounted

(* A quote that is neither being reserved nor undone only loses legs.      *)
LEMMA LosingIsAccounted ==
  ASSUME NEW q \in Quotes, OnlyLegsLive(q), take' = take,
         \A s \in Sources : Live(q, s)' => Live(q, s),
         call'[q].step \notin {"reserve", "insert", "undo", "unwind"},
         \/ disturbed' = TRUE
         \/ call'[q].step # "idle"
         \/ qstate'[q] \notin {"none", "RESERVED"}
  PROVE  Accounted(q)'
<1>1. Legs(q)' = Legs(q)
  BY DEF Legs
<1>2. OnlyLegsLive(q)'
  BY <1>1 DEF OnlyLegsLive
<1>3. NotYetHeld(q)'
  BY DEF NotYetHeld
<1>4. ~disturbed' => DoneSoFar(q)'
  BY DEF DoneSoFar
<1> QED
  BY <1>2, <1>3, <1>4 DEF Accounted

LEMMA ReserveStartAccounted ==
  ASSUME TypeOK, NEW q \in Quotes, Coherent(q), Accounted(q), ReserveStart(q)
  PROVE  Accounted(q)'
<1>1. /\ Legs(q) = {} /\ UNCHANGED riskVars /\ leg' = leg
  BY DEF ReserveStart
<1>2. PICK plan \in [Sources -> 0..Want[q]] :
        /\ \E s \in Sources : plan[s] > 0
        /\ take' = [take EXCEPT ![q] = plan]
        /\ Go(q, "reserve", Min({s \in Sources : plan[s] > 0}))
  BY DEF ReserveStart, Planned
<1>3. PICK first : first = Min({s \in Sources : plan[s] > 0})
  OBVIOUS
<1>4. first \in Sources /\ \A x \in {s \in Sources : plan[s] > 0} : first <= x
  BY <1>2, <1>3, MinIsFirst
<1>5. first \in 0..N + 1 /\ "reserve" \in Steps /\ \A x \in Sources : x \in Int
  BY <1>4, QuoteAssumption DEF Sources, Steps
<1>6. call'[q].step = "reserve" /\ call'[q].at = first
  BY <1>2, <1>3, <1>5, GoEffect
<1>7. \A s \in Sources : ~Live(q, s)'
  <2>1. \A s \in Sources : ~Live(q, s)
    BY <1>1 DEF Accounted, OnlyLegsLive
  <2> QED
    BY <1>1, <2>1 DEF Live, riskVars
<1>8. Legs(q)' = {s \in Sources : plan[s] > 0}
  BY <1>2 DEF Legs, TypeOK
<1>9. \A x \in Legs(q)' : ~(x < first)
  <2>1. first \in Int
    BY <1>4, <1>5
  <2>2. \A x \in {s \in Sources : plan[s] > 0} : x \in Int /\ first <= x
    BY <1>4, <1>5
  <2>3. \A x \in {s \in Sources : plan[s] > 0} : ~(x < first)
    BY <2>1, <2>2
  <2> QED
    BY <1>8, <2>3
<1>10. OnlyLegsLive(q)' /\ NotYetHeld(q)'
  BY <1>7, <1>8 DEF OnlyLegsLive, NotYetHeld
<1>11. DoneSoFar(q)'
  BY <1>6, <1>9 DEF DoneSoFar
<1> QED
  BY <1>10, <1>11 DEF Accounted

(* A leg that is held is live, and the others are as they were.            *)
LEMMA HoldLegLive ==
  ASSUME TypeOK, NEW q \in Quotes, NEW s \in Legs(q), HoldLeg(q, s)
  PROVE  Live(q, s)' /\ \A y \in Sources : y # s => (Live(q, y)' <=> Live(q, y))
<1>1. s \in Sources
  BY DEF Legs
<1>2. CASE s = Principal
  <2>1. risk' = [risk EXCEPT ![q] = "ACTIVE"] /\ leg' = leg
    BY <1>2 DEF HoldLeg, ReserveRisk
  <2>2. risk'[q] = "ACTIVE"
    BY <2>1 DEF TypeOK, RiskTypeOK
  <2> QED
    BY <1>2, <2>1, <2>2 DEF Live
<1>3. CASE s # Principal
  <2>1. leg' = [leg EXCEPT ![q][s] = "ACTIVE"] /\ UNCHANGED riskVars
    BY <1>3 DEF HoldLeg
  <2>2. /\ leg'[q][s] = "ACTIVE"
        /\ \A y \in Sources : y # s => leg'[q][y] = leg[q][y]
    BY <1>1, <2>1 DEF TypeOK
  <2>3. risk' = risk
    BY <2>1, RiskUnchanged
  <2> QED
    BY <1>3, <2>2, <2>3 DEF Live
<1> QED
  BY <1>2, <1>3

(* After leg s the next leg is the first beyond it.                        *)
LEMMA NextLegPlace ==
  ASSUME TypeOK, NEW q \in Quotes, NEW s \in Legs(q), NextLeg(q, s)
  PROVE  /\ call'[q].step = "insert" => \A x \in Legs(q) : x <= s
         /\ call'[q].step = "reserve" =>
              \A x \in Legs(q) : x < call'[q].at <=> x <= s
<1>1. /\ "insert" \in Steps /\ "reserve" \in Steps /\ N + 1 \in 0..N + 1
      /\ \A x \in Legs(q) : x \in Int
  BY QuoteAssumption, LegsAreSources DEF Steps
<1>2. CASE From(q, s + 1) = {}
  <2>1. Go(q, "insert", N + 1)
    BY <1>2 DEF NextLeg
  <2>2. \A x \in Legs(q) : x <= s
    BY <1>1, <1>2 DEF From
  <2>3. call'[q].step = "insert"
    BY <1>1, <2>1, GoEffect
  <2> QED
    BY <2>2, <2>3
<1>3. CASE From(q, s + 1) # {}
  <2>1. PICK next : next = Min(From(q, s + 1))
    OBVIOUS
  <2>2. Go(q, "reserve", next)
    BY <1>3, <2>1 DEF NextLeg
  <2>3. From(q, s + 1) \in SUBSET Sources
    BY LegsAreSources DEF From
  <2>4. next \in From(q, s + 1) /\ \A x \in From(q, s + 1) : next <= x
    BY <1>3, <2>1, <2>3, MinIsFirst
  <2>5. next \in Legs(q) /\ next \in 0..N + 1 /\ next >= s + 1 /\ next \in Int
    BY <2>4, LegsAreSources DEF From
  <2>6. call'[q].step = "reserve" /\ call'[q].at = next
    BY <1>1, <2>2, <2>5, GoEffect
  <2>7. \A x \in Legs(q) : x >= s + 1 => next <= x
    BY <2>4 DEF From
  <2>8. \A x \in Legs(q) : x < next <=> x <= s
    BY <1>1, <2>5, <2>7
  <2> QED
    BY <2>6, <2>8
<1> QED
  BY <1>2, <1>3

LEMMA ReserveLegAccounted ==
  ASSUME TypeOK, NEW q \in Quotes, Coherent(q), Accounted(q), ReserveLeg(q)
  PROVE  Accounted(q)'
<1>1. PICK s : s = call[q].at
  OBVIOUS
<1>2. /\ call[q].step = "reserve"
      /\ qstate' = qstate /\ take' = take /\ disturbed' = disturbed
      /\ \/ HoldLeg(q, s) /\ NextLeg(q, s)
         \/ PreviousLeg(q, "undo", s) /\ UNCHANGED <<riskVars, leg, bookVars>>
  BY <1>1 DEF ReserveLeg
<1>3. s \in Legs(q) /\ qstate[q] = "none"
  BY <1>1, <1>2 DEF Coherent, CallMatchesQuote
<1>4. /\ s \in 0..N + 1 /\ \A x \in Legs(q) : x \in Int /\ x \in Sources
      /\ Legs(q)' = Legs(q)
  BY <1>2, <1>3, LegsAreSources DEF Legs
<1>5. /\ \A x \in Legs(q) : x >= s => ~Live(q, x)
      /\ ~disturbed => \A x \in Legs(q) : x < s => HeldOrGone(q, x)
  BY <1>1, <1>2 DEF Accounted, NotYetHeld, DoneSoFar
<1>6. CASE HoldLeg(q, s) /\ NextLeg(q, s)
  <2>1. Live(q, s)' /\ \A y \in Sources : y # s => (Live(q, y)' <=> Live(q, y))
    BY <1>3, <1>6, HoldLegLive
  <2>2. /\ call'[q].step = "insert" \/ call'[q].step = "reserve"
        /\ call'[q].step = "insert" => \A x \in Legs(q) : x <= s
        /\ call'[q].step = "reserve" =>
              \A x \in Legs(q) : x < call'[q].at <=> x <= s
    BY <1>3, <1>6, NextLegEffect, NextLegPlace
  <2>3. gone' = gone
    BY <1>3, <1>6, HoldLegEffect
  <2>4. ~disturbed => \A x \in Legs(q) : x <= s => HeldOrGone(q, x)'
    BY <1>4, <1>5, <2>1, <2>3 DEF HeldOrGone
  <2>5. OnlyLegsLive(q)'
    BY <1>3, <1>4, <2>1 DEF Accounted, OnlyLegsLive
  <2>6. NotYetHeld(q)'
    <3> SUFFICES ASSUME call'[q].step = "reserve", NEW x \in Legs(q), x >= call'[q].at
                 PROVE  ~Live(q, x)'
      BY <1>4 DEF NotYetHeld
    <3>1. call'[q].at \in Int
      BY <1>3, <1>6, NextLegEffect, LegsAreSources
    <3>2. ~(x <= s)
      BY <1>4, <2>2, <3>1
    <3> QED
      BY <1>4, <1>5, <2>1, <3>2
  <2>7. ~disturbed => DoneSoFar(q)'
    BY <1>2, <1>4, <2>2, <2>4 DEF DoneSoFar
  <2> QED
    BY <1>2, <2>5, <2>6, <2>7 DEF Accounted
<1>7. CASE PreviousLeg(q, "undo", s) /\ UNCHANGED <<riskVars, leg, bookVars>>
  <2>1. \/ /\ call'[q].step = "undo"
           /\ \A x \in Legs(q) : x > call'[q].at => x >= s
        \/ call'[q].step = "idle" /\ \A x \in Legs(q) : x >= s
    BY <1>4, <1>7, PreviousLegEffect
  <2>2. \A x \in Sources : Live(q, x)' <=> Live(q, x)
    BY <1>7 DEF Live, riskVars
  <2>3. OnlyLegsLive(q)' /\ NotYetHeld(q)'
    BY <1>4, <2>1, <2>2 DEF Accounted, OnlyLegsLive, NotYetHeld
  <2>4. DoneSoFar(q)'
    BY <1>2, <1>3, <1>4, <1>5, <2>1, <2>2 DEF DoneSoFar
  <2> QED
    BY <2>3, <2>4 DEF Accounted
<1> QED
  BY <1>2, <1>6, <1>7

LEMMA InsertQuoteAccounted ==
  ASSUME TypeOK, NEW q \in Quotes, Coherent(q), Accounted(q), InsertQuote(q)
  PROVE  Accounted(q)'
<1>1. /\ call[q].step = "insert"
      /\ UNCHANGED riskVars /\ take' = take /\ leg' = leg /\ UNCHANGED bookVars
      /\ disturbed' = disturbed
      /\ \/ qstate' = [qstate EXCEPT ![q] = "RESERVED"] /\ Return(q)
         \/ PreviousLeg(q, "unwind", N + 1) /\ qstate' = qstate
  BY DEF InsertQuote
<1>2. Legs(q)' = Legs(q) /\ gone' = gone /\ \A x \in Legs(q) : x \in Sources /\ ~(x >= N + 1)
  BY <1>1, QuoteAssumption DEF Legs, bookVars, Sources
<1>3. \A x \in Sources : Live(q, x)' <=> Live(q, x)
  BY <1>1 DEF Live, riskVars
<1>4. OnlyLegsLive(q)'
  BY <1>2, <1>3 DEF Accounted, OnlyLegsLive
<1>5. CASE qstate' = [qstate EXCEPT ![q] = "RESERVED"] /\ Return(q)
  <2>1. call'[q].step = "idle" /\ qstate'[q] = "RESERVED"
    BY <1>5, ReturnEffect DEF TypeOK
  <2>2. ~disturbed => \A x \in Legs(q) : HeldOrGone(q, x)'
    BY <1>1, <1>2, <1>3 DEF Accounted, DoneSoFar, HeldOrGone
  <2>3. NotYetHeld(q)' /\ (~disturbed => DoneSoFar(q)')
    BY <1>2, <2>1, <2>2 DEF NotYetHeld, DoneSoFar
  <2> QED
    BY <1>1, <1>4, <2>3 DEF Accounted
<1>6. CASE PreviousLeg(q, "unwind", N + 1) /\ qstate' = qstate
  <2>1. N + 1 \in 0..N + 1
    BY QuoteAssumption
  <2>2. \/ /\ call'[q].step = "unwind"
           /\ \A x \in Legs(q) : x > call'[q].at => x >= N + 1
        \/ call'[q].step = "idle" /\ \A x \in Legs(q) : x >= N + 1
    BY <1>6, <2>1, PreviousLegEffect
  <2>3. NotYetHeld(q)' /\ DoneSoFar(q)'
    BY <1>2, <2>2 DEF NotYetHeld, DoneSoFar
  <2> QED
    BY <1>4, <2>3 DEF Accounted
<1> QED
  BY <1>1, <1>5, <1>6

(* A release before the submission, of a call or of a quote that expires.  *)
LEMMA ReleaseShrinks ==
  ASSUME TypeOK, NEW q \in Quotes, Coherent(q), OnlyLegsLive(q),
         qstate[q] \in {"none", "RESERVED", "EXPIRED", "RELEASED"},
         NEW S, ReleaseLegs(q, S), take' = take
  PROVE  /\ Legs(q)' = Legs(q)
         /\ \A x \in Sources : Live(q, x)' => Live(q, x) /\ x \notin S
<1>1. /\ Legs(q)' = Legs(q)
      /\ \A x \in Legs(q) : Live(q, x)' => Live(q, x) /\ x \notin S
  BY ReleasedIsOver DEF Coherent
<1>2. \A x \in Sources : x \notin Legs(q) => ~Live(q, x)'
  <2>1. /\ risk'[q] = risk[q] \/ risk'[q] = "RELEASED"
        /\ \A s \in Sources : leg'[q][s] = leg[q][s] \/ leg'[q][s] = "RELEASED"
    BY ReleaseEffect
  <2> QED
    BY <2>1 DEF OnlyLegsLive, Live
<1> QED
  BY <1>1, <1>2

LEMMA ReleaseLegAccounted ==
  ASSUME TypeOK, NEW q \in Quotes, Coherent(q), Accounted(q), ReleaseLeg(q)
  PROVE  Accounted(q)'
<1>1. PICK s, step : s = call[q].at /\ step = call[q].step
  OBVIOUS
<1>2. /\ step \in {"undo", "unwind", "release"}
      /\ UNCHANGED <<qstate, take>>
      /\ \/ ReleaseLegs(q, {s}) /\ PreviousLeg(q, step, s) /\ disturbed' = disturbed
         \/ /\ IF step = "undo" THEN PreviousLeg(q, "undo", s) ELSE Return(q)
            /\ Disturb
            /\ UNCHANGED <<riskVars, leg, bookVars>>
  BY <1>1 DEF ReleaseLeg
<1>3. /\ s \in Legs(q)
      /\ IF step = "release" THEN qstate[q] \in {"RESERVED", "EXPIRED"}
                             ELSE qstate[q] = "none"
  BY <1>1, <1>2 DEF Coherent, CallMatchesQuote
<1>4. s \in 0..N + 1 /\ \A x \in Legs(q) : x \in Int /\ x \in Sources
  BY <1>3, LegsAreSources
<1>5. OnlyLegsLive(q)
  BY DEF Accounted
<1>6. CASE ReleaseLegs(q, {s}) /\ PreviousLeg(q, step, s) /\ disturbed' = disturbed
  <2>1. /\ Legs(q)' = Legs(q)
        /\ \A x \in Sources : Live(q, x)' => Live(q, x) /\ x \notin {s}
    BY <1>2, <1>3, <1>5, <1>6, ReleaseShrinks
  <2>2. \/ /\ call'[q].step = step
           /\ \A x \in Legs(q) : x > call'[q].at => x >= s
        \/ /\ call'[q].step = IF step = "release" THEN "mark" ELSE "idle"
           /\ \A x \in Legs(q) : x >= s
    BY <1>2, <1>4, <1>6, PreviousLegEffect
  <2>3. CASE step = "release"
    BY <1>2, <1>5, <2>1, <2>2, <2>3, LosingIsAccounted
  <2>4. CASE step # "release"
    <3>1. ~disturbed => \A x \in Legs(q) : x >= s => ~Live(q, x)'
      <4>1. ~disturbed => \A x \in Legs(q) : x > s => ~Live(q, x)
        BY <1>1, <1>2, <2>4 DEF Accounted, DoneSoFar
      <4> QED
        BY <1>4, <2>1, <4>1
    <3>2. OnlyLegsLive(q)' /\ NotYetHeld(q)'
      BY <1>2, <1>5, <2>1, <2>2, <2>4 DEF OnlyLegsLive, NotYetHeld
    <3>3. ~disturbed => DoneSoFar(q)'
      BY <1>2, <1>3, <2>1, <2>2, <2>4, <3>1 DEF DoneSoFar
    <3> QED
      BY <1>6, <3>2, <3>3 DEF Accounted
  <2> QED
    BY <2>3, <2>4
<1>7. CASE /\ IF step = "undo" THEN PreviousLeg(q, "undo", s) ELSE Return(q)
           /\ Disturb
           /\ UNCHANGED <<riskVars, leg, bookVars>>
  <2>1. call'[q].step \in {"idle", "undo"}
    <3>1. CASE step = "undo"
      BY <1>4, <1>7, <3>1, PreviousLegEffect
    <3>2. CASE step # "undo"
      BY <1>7, <3>2, ReturnEffect
    <3> QED
      BY <3>1, <3>2
  <2>2. Legs(q)' = Legs(q) /\ \A x \in Sources : Live(q, x)' <=> Live(q, x)
    BY <1>2, <1>7 DEF Legs, Live, riskVars
  <2>3. OnlyLegsLive(q)' /\ NotYetHeld(q)' /\ disturbed' = TRUE
    BY <1>5, <1>7, <2>1, <2>2 DEF OnlyLegsLive, NotYetHeld, Disturb
  <2> QED
    BY <2>3 DEF Accounted
<1> QED
  BY <1>2, <1>6, <1>7

LEMMA ReleaseTradeAccounted ==
  ASSUME TypeOK, NEW q \in Quotes, Coherent(q), Accounted(q), ReleaseTrade(q)
  PROVE  Accounted(q)'
<1>1. PICK s : s = Max(Legs(q))
  OBVIOUS
<1>2. /\ qstate[q] = "RESERVED"
      /\ ReleaseLegs(q, {s}) /\ PreviousLeg(q, "release", s) /\ take' = take
  BY <1>1 DEF ReleaseTrade
<1>3. Legs(q) # {}
  BY <1>2 DEF Coherent, CallMatchesQuote
<1>4. s \in 0..N + 1
  BY <1>1, <1>3, LegsAreSources, MaxIsLast
<1>5. call'[q].step \in {"release", "mark"}
  BY <1>2, <1>4, PreviousLegEffect
<1>6. OnlyLegsLive(q)
  BY DEF Accounted
<1>7. \A x \in Sources : Live(q, x)' => Live(q, x)
  BY <1>2, <1>6, ReleaseShrinks
<1> QED
  BY <1>2, <1>5, <1>6, <1>7, LosingIsAccounted

LEMMA ReleaseMarkAccounted ==
  ASSUME TypeOK, NEW q \in Quotes, Coherent(q), Accounted(q), ReleaseMark(q)
  PROVE  Accounted(q)'
<1>1. /\ qstate' = [qstate EXCEPT ![q] = "RELEASED"] /\ Return(q)
      /\ UNCHANGED riskVars /\ take' = take /\ leg' = leg
  BY DEF ReleaseMark
<1>2. qstate'[q] = "RELEASED" /\ call'[q].step = "idle"
  BY <1>1, ReturnEffect DEF TypeOK
<1>3. \A x \in Sources : Live(q, x)' => Live(q, x)
  BY <1>1 DEF Live, riskVars
<1> QED
  BY <1>1, <1>2, <1>3, LosingIsAccounted DEF Accounted

(* The legs that Turn hits are no longer live.                             *)
LEMMA TurnedIsOver ==
  ASSUME TypeOK, NEW q \in Quotes, NEW S, NEW old,
         NEW new \in LegStates \ {"ACTIVE", "SUBMITTED"}, Turn(q, S, old, new)
  PROVE  \A s \in Books : Live(q, s)' => Live(q, s)
<1>1. \A s \in Sources : leg'[q][s] = leg[q][s] \/ leg'[q][s] = new
  BY TurnEffect
<1> QED
  BY <1>1 DEF Live, Books

LEMMA SubmitAccounted ==
  ASSUME TypeOK, NEW q \in Quotes, Coherent(q), Accounted(q), Submit(q)
  PROVE  Accounted(q)'
<1>1. /\ qstate[q] = "RESERVED" /\ Validated(q)
      /\ qstate' = [qstate EXCEPT ![q] = "SUBMITTED"]
      /\ UNCHANGED riskVars /\ take' = take /\ call' = call
      /\ \/ \E S : leg' = Marked(q, S)
         \/ \E s \in Private \cap Legs(q) : LeaveMarket(s, Marked(q, 1..s - 1))
  BY DEF Submit
<1>2. call'[q].step \notin {"reserve", "insert", "undo", "unwind"}
  BY <1>1 DEF Coherent, CallMatchesQuote
<1>3. qstate'[q] = "SUBMITTED"
  BY <1>1 DEF TypeOK
<1>4. ASSUME NEW S
      PROVE  \A s \in Books : Marked(q, S)[q][s] \in {"ACTIVE", "SUBMITTED"} => Live(q, s)
  <2>1. \A s \in Books : s \in Sources /\ s # Principal
    BY DEF Books
  <2>2. \A s \in Books : take[q][s] > 0 => Live(q, s)
    BY <1>1, <2>1, ValidatedIsLive DEF Legs
  <2> QED
    BY <2>1, <2>2, MarkedEffect DEF Live
<1>5. \A s \in Books : leg'[q][s] \in {"ACTIVE", "SUBMITTED"} => Live(q, s)
  <2>1. ASSUME NEW S, leg' = Marked(q, S)
        PROVE  \A s \in Books : leg'[q][s] \in {"ACTIVE", "SUBMITTED"} => Live(q, s)
    BY <1>4, <2>1
  <2>2. ASSUME NEW s \in Private, NEW S, LeaveMarket(s, Marked(q, S))
        PROVE  \A y \in Books : leg'[q][y] \in {"ACTIVE", "SUBMITTED"} => Live(q, y)
    <3>1. PICK l : l = Marked(q, S)
      OBVIOUS
    <3>2. l \in [Quotes -> [Sources -> LegStates]] /\ LeaveMarket(s, l)
      BY <2>2, <3>1, MarkedEffect
    <3>3. \A y \in Sources : leg'[q][y] = l[q][y] \/ leg'[q][y] = "RELEASED"
      BY <3>2, LeaveMarketEffect
    <3> QED
      BY <1>4, <3>1, <3>3 DEF Books
  <2> QED
    BY <1>1, <2>1, <2>2
<1>6. \A s \in Sources : Live(q, s)' => Live(q, s)
  BY <1>1, <1>5 DEF Live, Books, riskVars
<1>7. OnlyLegsLive(q)
  BY DEF Accounted
<1> QED
  BY <1>1, <1>2, <1>3, <1>6, <1>7, LosingIsAccounted

LEMMA ExecuteAccounted ==
  ASSUME TypeOK, NEW q \in Quotes, Coherent(q), Accounted(q), AdapterExecutes(q)
  PROVE  Accounted(q)'
<1>1. /\ chain[q] = "pending" /\ UNCHANGED riskVars
      /\ qstate' = qstate /\ take' = take /\ leg' = leg /\ call' = call
  BY DEF AdapterExecutes
<1>2. qstate[q] \notin {"none", "RESERVED"}
  BY <1>1 DEF Coherent, UnsubmittedIsUnused
<1>3. call'[q].step \notin {"reserve", "insert", "undo", "unwind"}
  BY <1>1, <1>2 DEF Coherent, CallMatchesQuote
<1>4. \A s \in Sources : Live(q, s)' => Live(q, s)
  BY <1>1 DEF Live, riskVars
<1> QED
  BY <1>1, <1>2, <1>3, <1>4, LosingIsAccounted DEF Accounted

LEMMA ConfirmAccounted ==
  ASSUME TypeOK, NEW q \in Quotes, Coherent(q), Accounted(q), Confirm(q)
  PROVE  Accounted(q)'
<1>1. qstate[q] = "SUBMITTED" /\ take' = take /\ call' = call
  BY DEF Confirm
<1>2. PICK n \in 0..N :
        /\ \A s \in Legs(q) : s <= n => AcceptsConfirm(q, s)
        /\ ConsumeLegs(q, 1..n)
        /\ qstate' = [qstate EXCEPT ![q] = "CONFIRMED"] \/ qstate' = qstate
  BY DEF Confirm
<1>3. qstate'[q] \in {"SUBMITTED", "CONFIRMED"}
  BY <1>1, <1>2 DEF TypeOK
<1>4. call'[q].step \notin {"reserve", "insert", "undo", "unwind"}
  BY <1>1 DEF Coherent, CallMatchesQuote
<1>5. \A s \in Sources : Live(q, s)' => Live(q, s)
  <2>1. \A s \in Legs(q) : s \in 1..n => AcceptsConfirm(q, s)
    BY <1>2
  <2>2. /\ risk'[q] = risk[q] \/ risk'[q] = "SETTLED"
        /\ \A s \in Sources : leg'[q][s] = leg[q][s] \/ leg'[q][s] = "CONSUMED"
    BY <1>2, <2>1, ConsumeEffect
  <2> QED
    BY <2>2 DEF Live
<1> QED
  BY <1>1, <1>3, <1>4, <1>5, LosingIsAccounted DEF Accounted

LEMMA FailAccounted ==
  ASSUME TypeOK, NEW q \in Quotes, Coherent(q), Accounted(q), Fail(q)
  PROVE  Accounted(q)'
<1>1. qstate[q] = "SUBMITTED" /\ take' = take /\ call' = call
  BY DEF Fail
<1>2. PICK n \in 0..N :
        /\ FailLegs(q, n + 1..N)
        /\ qstate' = [qstate EXCEPT ![q] = "FAILED"] \/ qstate' = qstate
  BY DEF Fail
<1>3. qstate'[q] \in {"SUBMITTED", "FAILED"}
  BY <1>1, <1>2 DEF TypeOK
<1>4. call'[q].step \notin {"reserve", "insert", "undo", "unwind"}
  BY <1>1 DEF Coherent, CallMatchesQuote
<1>5. \A s \in Sources : Live(q, s)' => Live(q, s)
  <2>1. "FAILED" \in LegStates \ {"ACTIVE", "SUBMITTED"}
    BY DEF LegStates
  <2>2. \E S, old : Turn(q, S, old, "FAILED")
    BY <1>2 DEF FailLegs
  <2>3. \A s \in Books : Live(q, s)' => Live(q, s)
    BY <2>1, <2>2, TurnedIsOver
  <2>4. ReleaseRisk(q) \/ UNCHANGED riskVars
    BY <1>2 DEF FailLegs
  <2>5. risk'[q] = "ACTIVE" => risk[q] = "ACTIVE"
    BY <2>4, ReleaseRiskEffect, RiskUnchanged
  <2> QED
    BY <2>3, <2>5 DEF Live, Books
<1> QED
  BY <1>1, <1>3, <1>4, <1>5, LosingIsAccounted DEF Accounted

LEMMA ExpireAccounted ==
  ASSUME TypeOK, NEW q \in Quotes, Coherent(q), Accounted(q), Expire(q)
  PROVE  Accounted(q)'
<1>1. qstate[q] = "RESERVED" /\ take' = take /\ call' = call
  BY DEF Expire
<1>2. PICK n \in 0..N :
        /\ ReleaseLegs(q, n + 1..N)
        /\ qstate' = [qstate EXCEPT ![q] = "EXPIRED"] \/ Disturb
  BY DEF Expire
<1>3. qstate'[q] = "EXPIRED" \/ disturbed' = TRUE
  BY <1>2 DEF TypeOK, Disturb
<1>4. call'[q].step \notin {"reserve", "insert", "undo", "unwind"}
  BY <1>1 DEF Coherent, CallMatchesQuote
<1>5. OnlyLegsLive(q)
  BY DEF Accounted
<1>6. \A s \in Sources : Live(q, s)' => Live(q, s)
  BY <1>1, <1>2, <1>5, ReleaseShrinks
<1> QED
  BY <1>1, <1>3, <1>4, <1>5, <1>6, LosingIsAccounted

LEMMA QuoteStepAccounted ==
  ASSUME TypeOK, NEW q \in Quotes, Coherent(q), Accounted(q),
         Asynchronous(q) \/ Synchronous(q) \/ AdapterExecutes(q)
  PROVE  Accounted(q)'
BY ReserveStartAccounted, ReserveLegAccounted, InsertQuoteAccounted,
   ReleaseTradeAccounted, ReleaseLegAccounted, ReleaseMarkAccounted, SubmitAccounted,
   ConfirmAccounted, FailAccounted, ExpireAccounted, ExecuteAccounted
   DEF Asynchronous, Synchronous

-----------------------------------------------------------------------------
(* What a step of one quote does to the others: an order may leave.        *)

LEMMA LeaveMarketLeaves ==
  ASSUME TypeOK, NEW s \in Private, NEW l \in [Quotes -> [Sources -> LegStates]],
         LeaveMarket(s, l)
  PROVE  /\ gone \subseteq gone' /\ s \in gone'
         /\ \A x \in Quotes, y \in Sources : y # s => leg'[x][y] = l[x][y]
<1>1. gone' = gone \cup {s} /\ s \in Sources
  BY QuoteAssumption DEF LeaveMarket
<1>2. CASE InFlight(s, l)
  BY <1>1, <1>2 DEF LeaveMarket
<1>3. CASE ~InFlight(s, l)
  <2>1. leg' = [q \in Quotes |-> IF l[q][s] = "ACTIVE"
                  THEN [l[q] EXCEPT ![s] = "RELEASED"] ELSE l[q]]
    BY <1>3 DEF LeaveMarket
  <2>2. \A x \in Quotes, y \in Sources : y # s => leg'[x][y] = l[x][y]
    BY <2>1
  <2> QED
    BY <1>1, <2>2
<1> QED
  BY <1>2, <1>3

Aside(q) ==
  /\ gone' = gone /\ (disturbed' = disturbed \/ disturbed' = TRUE)
  /\ \A x \in Quotes : x # q => leg'[x] = leg[x]

LEMMA AsideOfCalls ==
  ASSUME TypeOK, NEW q \in Quotes, Coherent(q), Asynchronous(q) \/ AdapterExecutes(q)
  PROVE  Aside(q)
<1>1. CASE ReserveStart(q) \/ InsertQuote(q) \/ ReleaseMark(q) \/ AdapterExecutes(q)
  BY <1>1 DEF ReserveStart, InsertQuote, ReleaseMark, AdapterExecutes, bookVars, Aside
<1>2. CASE ReserveLeg(q)
  <2>1. call[q].at \in Legs(q) /\ disturbed' = disturbed
    BY <1>2 DEF ReserveLeg, Coherent, CallMatchesQuote
  <2>2. HoldLeg(q, call[q].at) \/ (leg' = leg /\ gone' = gone)
    BY <1>2 DEF ReserveLeg, bookVars
  <2> QED
    BY <2>1, <2>2, HoldLegEffect DEF Aside
<1>3. CASE ReleaseTrade(q) \/ ReleaseLeg(q)
  <2>1. (\E S : ReleaseLegs(q, S)) \/ (leg' = leg /\ gone' = gone)
    BY <1>3 DEF ReleaseTrade, ReleaseLeg, bookVars
  <2>2. disturbed' = disturbed \/ disturbed' = TRUE
    BY <1>3 DEF ReleaseTrade, ReleaseLeg, Disturb
  <2> QED
    BY <2>1, <2>2, ReleaseEffect DEF Aside
<1> QED
  BY <1>1, <1>2, <1>3 DEF Asynchronous

LEMMA AsideOfOutcomes ==
  ASSUME TypeOK, NEW q \in Quotes, Coherent(q), Confirm(q) \/ Fail(q) \/ Expire(q)
  PROVE  Aside(q)
<1>1. disturbed' = disturbed \/ disturbed' = TRUE
  BY DEF Confirm, Fail, Expire, Disturb
<1>2. gone' = gone
  BY DEF Confirm, Fail, Expire, ConsumeLegs, FailLegs, ReleaseLegs
<1>3. \E S, old, new : new \in LegStates /\ Turn(q, S, old, new)
  <2>1. \E S, old : \/ Turn(q, S, old, "CONSUMED") \/ Turn(q, S, old, "FAILED")
                    \/ Turn(q, S, old, "RELEASED")
    BY DEF Confirm, Fail, Expire, ConsumeLegs, FailLegs, ReleaseLegs
  <2> QED
    BY <2>1 DEF LegStates
<1> QED
  BY <1>1, <1>2, <1>3, TurnEffect DEF Aside

LEMMA OthersLeave ==
  ASSUME TypeOK, NEW q \in Quotes, Coherent(q),
         Asynchronous(q) \/ Synchronous(q) \/ AdapterExecutes(q)
  PROVE  \A x \in Quotes : x # q => Leaves(x)
<1>1. CASE Aside(q)
  BY <1>1 DEF Aside, Leaves
<1>2. CASE Submit(q)
  <2>1. disturbed' = disturbed \/ disturbed' = TRUE
    BY <1>2 DEF Submit, Disturb
  <2>2. \/ (\E S : leg' = Marked(q, S)) /\ gone' = gone
        \/ \E s \in Private : LeaveMarket(s, Marked(q, 1..s - 1))
    BY <1>2 DEF Submit
  <2>3. CASE (\E S : leg' = Marked(q, S)) /\ gone' = gone
    BY <2>1, <2>3, MarkedEffect DEF Leaves
  <2>4. ASSUME NEW s \in Private, LeaveMarket(s, Marked(q, 1..s - 1))
        PROVE  \A x \in Quotes : x # q => Leaves(x)
    <3>1. PICK l : l = Marked(q, 1..s - 1)
      OBVIOUS
    <3>2. /\ l \in [Quotes -> [Sources -> LegStates]] /\ LeaveMarket(s, l)
          /\ \A x \in Quotes : x # q => l[x] = leg[x]
      BY <2>4, <3>1, MarkedEffect
    <3>3. /\ gone \subseteq gone' /\ s \in gone'
          /\ \A x \in Quotes, y \in Sources : y # s => leg'[x][y] = l[x][y]
      BY <3>2, LeaveMarketLeaves
    <3> QED
      BY <2>1, <3>2, <3>3 DEF Leaves
  <2> QED
    BY <2>2, <2>3, <2>4
<1> QED
  BY <1>1, <1>2, AsideOfCalls, AsideOfOutcomes DEF Synchronous

LEMMA EveryQuoteAccounted ==
  ASSUME TypeOK, Inductive, \A q \in Quotes : Accounted(q), [Next]_vars
  PROVE  \A q \in Quotes : Accounted(q)'
<1>1. ASSUME \A q \in Quotes : Keeps(q), \A q \in Quotes : Leaves(q)
      PROVE  \A q \in Quotes : Accounted(q)'
  BY <1>1, KeptIsAccounted
<1>2. ASSUME NEW q \in Quotes, Asynchronous(q) \/ Synchronous(q) \/ AdapterExecutes(q)
      PROVE  \A x \in Quotes : Accounted(x)'
  <2>1. Coherent(q)
    BY DEF Inductive
  <2>2. Accounted(q)'
    BY <1>2, <2>1, QuoteStepAccounted
  <2>3. \A x \in Quotes : x # q => Keeps(x) /\ Leaves(x)
    BY <1>2, <2>1, QuoteStep, OthersLeave DEF Preserves
  <2> QED
    BY <2>2, <2>3, KeptIsAccounted
<1>3. ASSUME NEW s \in Private, WithdrawOrder(s)
      PROVE  \A q \in Quotes : Accounted(q)'
  <2>1. LeaveMarket(s, leg) /\ disturbed' = disturbed
    BY <1>3 DEF WithdrawOrder
  <2>2. leg \in [Quotes -> [Sources -> LegStates]]
    BY DEF TypeOK
  <2>3. \A q \in Quotes : Leaves(q)
    BY <2>1, <2>2, LeaveMarketLeaves DEF Leaves
  <2> QED
    BY <1>1, <1>3, <2>3, WithdrawOrderStep
<1>4. ASSUME leg' = leg, gone' = gone, disturbed' = disturbed
      PROVE  \A q \in Quotes : Leaves(q)
  BY <1>4 DEF Leaves
<1>5. ASSUME NEW s \in Reference, UpsertSlice(s)
      PROVE  \A q \in Quotes : Accounted(q)'
  <2>1. leg' = leg /\ gone' = gone /\ disturbed' = disturbed
    BY <1>5 DEF UpsertSlice
  <2> QED
    BY <1>1, <1>4, <1>5, <2>1, UpsertSliceStep
<1>6. CASE OperateRiskBook
  <2>1. leg' = leg /\ gone' = gone /\ disturbed' = disturbed
    BY <1>6 DEF OperateRiskBook, bookVars
  <2> QED
    BY <1>1, <1>4, <1>6, <2>1, OperateStep
<1>7. CASE Crash
  <2>1. /\ UNCHANGED riskVars /\ take' = take /\ leg' = leg /\ disturbed' = TRUE
        /\ \A q \in Quotes : call'[q].step = "idle"
    BY <1>7 DEF Crash, Disturb, Idle
  <2>2. \A q \in Quotes, s \in Sources : Live(q, s)' => Live(q, s)
    BY <2>1 DEF Live, riskVars
  <2> QED
    BY <2>1, <2>2, LosingIsAccounted DEF Accounted
<1>8. CASE UNCHANGED vars
  <2>1. leg' = leg /\ gone' = gone /\ disturbed' = disturbed
    BY <1>8 DEF vars, bookVars
  <2> QED
    BY <1>1, <1>4, <1>8, <2>1, StutterKeeps
<1> QED
  BY <1>2, <1>3, <1>5, <1>6, <1>7, <1>8 DEF Next

-----------------------------------------------------------------------------
(* What is held at a source is the sum of the legs that are live there.    *)

Part(q, s) == IF Live(q, s) THEN take[q][s] ELSE 0

(* A step of q moves what is held by as much as it moves the legs of q.    *)
Moves(q) ==
  \A s \in Books :
    /\ \A x \in Quotes \ {q} : take'[x][s] = take[x][s] /\ (Live(x, s)' <=> Live(x, s))
    /\ held'[s] = held[s] + Part(q, s)' - Part(q, s)

LEMMA MovedIsReserved ==
  ASSUME TypeOK, TypeOK', HeldIsReserved, NEW q \in Quotes, Moves(q)
  PROVE  HeldIsReserved'
<1> SUFFICES ASSUME NEW s \in Books
             PROVE  held'[s] = SumFunctionOnSet([x \in Quotes |-> take'[x][s]],
                                                {x \in Quotes : Live(x, s)'})
  BY DEF HeldIsReserved
<1>1. PICK f : f = [x \in Quotes |-> take[x][s]]
  OBVIOUS
<1>2. PICK g : g = [x \in Quotes |-> take'[x][s]]
  OBVIOUS
<1>3. PICK P : P = {x \in Quotes : Live(x, s)}
  OBVIOUS
<1>4. PICK Q : Q = {x \in Quotes : Live(x, s)'}
  OBVIOUS
<1>5. IsFiniteSet(Quotes) /\ P \in SUBSET Quotes /\ Q \in SUBSET Quotes
  BY <1>3, <1>4, RiskAssumption
<1>6. s \in Sources
  BY DEF Books
<1>7. \A x \in Quotes : f[x] \in Int /\ g[x] \in Int
  BY <1>1, <1>2, <1>6 DEF TypeOK
<1>8. \A x \in Quotes \ {q} : g[x] = f[x] /\ (x \in P <=> x \in Q)
  BY <1>1, <1>2, <1>3, <1>4 DEF Moves
<1>9. SumFunctionOnSet(g, Q) = SumFunctionOnSet(f, P)
        + (IF q \in Q THEN g[q] ELSE 0) - (IF q \in P THEN f[q] ELSE 0)
  BY <1>5, <1>7, <1>8, SumSelected
<1>10. held[s] = SumFunctionOnSet(f, P)
  BY <1>1, <1>3 DEF HeldIsReserved
<1>11. (IF q \in Q THEN g[q] ELSE 0) = Part(q, s)'
  BY <1>2, <1>4 DEF Part
<1>12. (IF q \in P THEN f[q] ELSE 0) = Part(q, s)
  BY <1>1, <1>3 DEF Part
<1>13. held'[s] = held[s] + Part(q, s)' - Part(q, s)
  BY DEF Moves
<1> QED
  BY <1>2, <1>4, <1>9, <1>10, <1>11, <1>12, <1>13

LEMMA HeldFrame ==
  ASSUME HeldIsReserved, leg' = leg, take' = take, held' = held
  PROVE  HeldIsReserved'
<1> SUFFICES ASSUME NEW s \in Books
             PROVE  held'[s] = SumFunctionOnSet([x \in Quotes |-> take'[x][s]],
                                                {x \in Quotes : Live(x, s)'})
  BY DEF HeldIsReserved
<1>1. \A x \in Quotes : Live(x, s)' <=> Live(x, s)
  BY DEF Live, Books
<1>2. {x \in Quotes : Live(x, s)'} = {x \in Quotes : Live(x, s)}
  BY <1>1
<1>3. [x \in Quotes |-> take'[x][s]] = [x \in Quotes |-> take[x][s]]
  OBVIOUS
<1> QED
  BY <1>2, <1>3 DEF HeldIsReserved

LEMMA TurnMoves ==
  ASSUME TypeOK, NEW q \in Quotes, NEW S, NEW old \in SUBSET {"ACTIVE", "SUBMITTED"},
         NEW new \in LegStates \ {"ACTIVE", "SUBMITTED"},
         Turn(q, S, old, new), GiveBack(q, S, old), take' = take
  PROVE  Moves(q)
<1>1. /\ \A x \in Quotes : x # q => leg'[x] = leg[x]
      /\ \A s \in Sources :
           leg'[q][s] = IF s \in S \cap Books /\ take[q][s] > 0 /\ leg[q][s] \in old
                        THEN new ELSE leg[q][s]
  BY TurnEffect
<1>2. \A s \in Books : held'[s] = IF s \in S \cap Books /\ take[q][s] > 0 /\ leg[q][s] \in old
                                  THEN held[s] - take[q][s] ELSE held[s]
  BY DEF GiveBack, Hit
<1>3. ASSUME NEW s \in Books
      PROVE  /\ \A x \in Quotes \ {q} : Live(x, s)' <=> Live(x, s)
             /\ held'[s] = held[s] + Part(q, s)' - Part(q, s)
  <2>1. s \in Sources /\ s # Principal /\ held[s] \in Int /\ take[q][s] \in Int
    BY DEF Books, TypeOK
  <2>2. \A x \in Quotes \ {q} : Live(x, s)' <=> Live(x, s)
    BY <1>1, <2>1 DEF Live
  <2>3. CASE s \in S \cap Books /\ take[q][s] > 0 /\ leg[q][s] \in old
    <3>1. Live(q, s) /\ ~Live(q, s)'
      BY <1>1, <2>1, <2>3 DEF Live
    <3>2. held'[s] = held[s] - take[q][s]
      BY <1>2, <2>3
    <3> QED
      BY <2>1, <2>2, <3>1, <3>2 DEF Part
  <2>4. CASE ~(s \in S \cap Books /\ take[q][s] > 0 /\ leg[q][s] \in old)
    <3>1. Live(q, s)' <=> Live(q, s)
      BY <1>1, <2>1, <2>4 DEF Live
    <3>2. held'[s] = held[s]
      BY <1>2, <2>4
    <3>3. Part(q, s)' = Part(q, s)
      BY <3>1 DEF Part
    <3>4. Part(q, s) \in Int
      BY <2>1 DEF Part
    <3> QED
      BY <2>1, <2>2, <3>2, <3>3, <3>4
  <2> QED
    BY <2>3, <2>4
<1> QED
  BY <1>3 DEF Moves

LEMMA HoldLegMoves ==
  ASSUME TypeOK, NEW q \in Quotes, NEW s \in Legs(q), HoldLeg(q, s), ~Live(q, s),
         take' = take
  PROVE  Moves(q)
<1>1. /\ \A x \in Quotes : x # q => leg'[x] = leg[x] /\ risk'[x] = risk[x]
      /\ Live(q, s)' /\ \A y \in Sources : y # s => (Live(q, y)' <=> Live(q, y))
  BY HoldLegEffect, HoldLegLive
<1>2. \A y \in Books : /\ y # s => held'[y] = held[y]
                       /\ y = s => held'[y] = held[y] + take[q][s]
  BY DEF HoldLeg, bookVars, Books, TypeOK
<1>3. ASSUME NEW y \in Books
      PROVE  held'[y] = held[y] + Part(q, y)' - Part(q, y)
  <2>1. y \in Sources /\ held[y] \in Int /\ take[q][y] \in Int
    BY DEF Books, TypeOK
  <2> QED
    BY <1>1, <1>2, <2>1 DEF Part
<1>4. \A y \in Books, x \in Quotes \ {q} : Live(x, y)' <=> Live(x, y)
  BY <1>1 DEF Live, Books
<1> QED
  BY <1>3, <1>4 DEF Moves

(* Nothing is reserved at an order that left, and the rest is as it was.   *)
LEMMA LeaveMarketHeld ==
  ASSUME TypeOK, HeldIsReserved, NEW s \in Private,
         NEW l \in [Quotes -> [Sources -> LegStates]],
         \A x \in Quotes, y \in Books :
           l[x][y] \in {"ACTIVE", "SUBMITTED"} <=> leg[x][y] \in {"ACTIVE", "SUBMITTED"},
         LeaveMarket(s, l), take' = take
  PROVE  HeldIsReserved'
<1> SUFFICES ASSUME NEW y \in Books
             PROVE  held'[y] = SumFunctionOnSet([x \in Quotes |-> take'[x][y]],
                                                {x \in Quotes : Live(x, y)'})
  BY DEF HeldIsReserved
<1>1. y \in Sources /\ y # Principal /\ s \in Sources /\ s \in Books
  BY QuoteAssumption DEF Books
<1>2. [x \in Quotes |-> take'[x][y]] = [x \in Quotes |-> take[x][y]]
  OBVIOUS
<1>3. CASE InFlight(s, l) \/ y # s
  <2>1. held'[y] = held[y]
    BY <1>3 DEF LeaveMarket, TypeOK
  <2>2. \A x \in Quotes : leg'[x][y] = l[x][y]
    BY <1>1, <1>3, LeaveMarketLeaves DEF LeaveMarket
  <2>3. \A x \in Quotes : Live(x, y)' <=> Live(x, y)
    BY <1>1, <2>2 DEF Live
  <2>4. {x \in Quotes : Live(x, y)'} = {x \in Quotes : Live(x, y)}
    BY <2>3
  <2> QED
    BY <1>2, <2>1, <2>4 DEF HeldIsReserved
<1>4. CASE ~InFlight(s, l) /\ y = s
  <2>1. held'[y] = 0
    BY <1>1, <1>4 DEF LeaveMarket, TypeOK
  <2>2. leg' = [q \in Quotes |-> IF l[q][s] = "ACTIVE"
                  THEN [l[q] EXCEPT ![s] = "RELEASED"] ELSE l[q]]
    BY <1>4 DEF LeaveMarket
  <2>3. \A x \in Quotes : leg'[x][s] \notin {"ACTIVE", "SUBMITTED"}
    BY <1>1, <1>4, <2>2 DEF InFlight
  <2>4. {x \in Quotes : Live(x, y)'} = {}
    BY <1>1, <1>4, <2>3 DEF Live
  <2> QED
    BY <2>1, <2>4, SumEmpty
<1> QED
  BY <1>3, <1>4

LEMMA SubmitHeld ==
  ASSUME TypeOK, NEW q \in Quotes, Submit(q), HeldIsReserved
  PROVE  HeldIsReserved'
<1>1. /\ Validated(q) /\ take' = take
      /\ \/ (\E S : leg' = Marked(q, S)) /\ held' = held
         \/ \E s \in Private : LeaveMarket(s, Marked(q, 1..s - 1))
  BY DEF Submit
<1>2. ASSUME NEW S
      PROVE  /\ Marked(q, S) \in [Quotes -> [Sources -> LegStates]]
             /\ \A x \in Quotes, y \in Books :
                  Marked(q, S)[x][y] \in {"ACTIVE", "SUBMITTED"} <=>
                    leg[x][y] \in {"ACTIVE", "SUBMITTED"}
  <2>1. \A y \in Books : y \in Sources /\ y # Principal
    BY DEF Books
  <2>2. \A y \in Books : take[q][y] > 0 => leg[q][y] \in {"ACTIVE", "SUBMITTED"}
    BY <1>1, <2>1 DEF Validated, Legs
  <2> QED
    BY <2>1, <2>2, MarkedEffect
<1>3. ASSUME NEW S, leg' = Marked(q, S), held' = held
      PROVE  HeldIsReserved'
  <2> SUFFICES ASSUME NEW y \in Books
               PROVE  held'[y] = SumFunctionOnSet([x \in Quotes |-> take'[x][y]],
                                                  {x \in Quotes : Live(x, y)'})
    BY DEF HeldIsReserved
  <2>1. \A x \in Quotes : Live(x, y)' <=> Live(x, y)
    BY <1>2, <1>3 DEF Live, Books
  <2>2. {x \in Quotes : Live(x, y)'} = {x \in Quotes : Live(x, y)}
    BY <2>1
  <2>3. [x \in Quotes |-> take'[x][y]] = [x \in Quotes |-> take[x][y]]
    BY <1>1
  <2> QED
    BY <1>3, <2>2, <2>3 DEF HeldIsReserved
<1>4. ASSUME NEW s \in Private, LeaveMarket(s, Marked(q, 1..s - 1))
      PROVE  HeldIsReserved'
  <2>1. PICK l : l = Marked(q, 1..s - 1)
    OBVIOUS
  <2>2. /\ l \in [Quotes -> [Sources -> LegStates]]
        /\ \A x \in Quotes, y \in Books :
             l[x][y] \in {"ACTIVE", "SUBMITTED"} <=> leg[x][y] \in {"ACTIVE", "SUBMITTED"}
    BY <1>2, <2>1
  <2>3. LeaveMarket(s, l) /\ take' = take
    BY <1>1, <1>4, <2>1
  <2> QED
    BY <2>2, <2>3, LeaveMarketHeld
<1> QED
  BY <1>1, <1>3, <1>4

(* A quote begins with nothing reserved.                                   *)
LEMMA ReserveStartMoves ==
  ASSUME TypeOK, NEW q \in Quotes, Accounted(q), ReserveStart(q)
  PROVE  Moves(q)
<1>1. /\ Legs(q) = {} /\ UNCHANGED riskVars /\ leg' = leg /\ held' = held
      /\ \E plan : take' = [take EXCEPT ![q] = plan]
  BY DEF ReserveStart, bookVars
<1>2. ASSUME NEW s \in Books
      PROVE  /\ \A x \in Quotes \ {q} : /\ take'[x][s] = take[x][s]
                                        /\ Live(x, s)' <=> Live(x, s)
             /\ held'[s] = held[s] + Part(q, s)' - Part(q, s)
  <2>1. held[s] \in Int
    BY DEF TypeOK
  <2>2. ~Live(q, s)
    BY <1>1 DEF Accounted, OnlyLegsLive, Books
  <2>3. \A x \in Quotes : Live(x, s)' <=> Live(x, s)
    BY <1>1 DEF Live, riskVars
  <2>4. \A x \in Quotes \ {q} : take'[x] = take[x]
    BY <1>1 DEF TypeOK
  <2> QED
    BY <1>1, <2>1, <2>2, <2>3, <2>4 DEF Part
<1> QED
  BY <1>2 DEF Moves

LEMMA QuoteStepHeld ==
  ASSUME TypeOK, TypeOK', NEW q \in Quotes, Coherent(q), Accounted(q), HeldIsReserved,
         Asynchronous(q) \/ Synchronous(q) \/ AdapterExecutes(q)
  PROVE  HeldIsReserved'
<1>1. CASE ReserveStart(q)
  BY <1>1, ReserveStartMoves, MovedIsReserved
<1>2. CASE ReserveLeg(q)
  <2>1. call[q].at \in Legs(q) /\ take' = take /\ ~Live(q, call[q].at)
    <3>1. /\ call[q].step = "reserve" /\ call[q].at \in Legs(q) /\ take' = take
      BY <1>2 DEF ReserveLeg, Coherent, CallMatchesQuote
    <3>2. call[q].at \in Int
      BY <3>1, LegsAreSources
    <3> QED
      BY <3>1, <3>2 DEF Accounted, NotYetHeld
  <2>2. HoldLeg(q, call[q].at) \/ (leg' = leg /\ held' = held)
    BY <1>2 DEF ReserveLeg, bookVars
  <2>3. CASE HoldLeg(q, call[q].at)
    BY <2>1, <2>3, HoldLegMoves, MovedIsReserved
  <2>4. CASE leg' = leg /\ held' = held
    BY <2>1, <2>4, HeldFrame
  <2> QED
    BY <2>2, <2>3, <2>4
<1>3. CASE InsertQuote(q) \/ ReleaseMark(q) \/ AdapterExecutes(q)
  <2>1. leg' = leg /\ take' = take /\ held' = held
    BY <1>3 DEF InsertQuote, ReleaseMark, AdapterExecutes, bookVars
  <2> QED
    BY <2>1, HeldFrame
<1>4. /\ {"ACTIVE"} \in SUBSET {"ACTIVE", "SUBMITTED"}
      /\ {"SUBMITTED"} \in SUBSET {"ACTIVE", "SUBMITTED"}
      /\ {"ACTIVE", "SUBMITTED"} \in SUBSET {"ACTIVE", "SUBMITTED"}
      /\ "RELEASED" \in LegStates \ {"ACTIVE", "SUBMITTED"}
      /\ "CONSUMED" \in LegStates \ {"ACTIVE", "SUBMITTED"}
      /\ "FAILED" \in LegStates \ {"ACTIVE", "SUBMITTED"}
  BY DEF LegStates
<1>5. ASSUME NEW S, ReleaseLegs(q, S), take' = take
      PROVE  HeldIsReserved'
  <2>1. Turn(q, S, {"ACTIVE"}, "RELEASED") /\ GiveBack(q, S, {"ACTIVE"})
    BY <1>5 DEF ReleaseLegs
  <2>2. Moves(q)
    BY <1>4, <1>5, <2>1, TurnMoves
  <2> QED
    BY <2>2, MovedIsReserved
<1>6. CASE ReleaseTrade(q) \/ ReleaseLeg(q) \/ Expire(q)
  <2>1. /\ take' = take
        /\ (\E S : ReleaseLegs(q, S)) \/ (leg' = leg /\ held' = held)
    BY <1>6 DEF ReleaseTrade, ReleaseLeg, Expire, bookVars
  <2> QED
    BY <1>5, <2>1, HeldFrame
<1>7. CASE Submit(q)
  BY <1>7, SubmitHeld
<1>8. CASE Confirm(q)
  <2>1. PICK S : /\ Turn(q, S, {"SUBMITTED"}, "CONSUMED") /\ GiveBack(q, S, {"SUBMITTED"})
                 /\ take' = take
    BY <1>8 DEF Confirm, ConsumeLegs, ConsumeFrom
  <2>2. Moves(q)
    BY <1>4, <2>1, TurnMoves
  <2> QED
    BY <2>2, MovedIsReserved
<1>9. CASE Fail(q)
  <2>1. PICK S : /\ Turn(q, S, {"ACTIVE", "SUBMITTED"}, "FAILED")
                 /\ GiveBack(q, S, {"ACTIVE", "SUBMITTED"})
                 /\ take' = take
    BY <1>9 DEF Fail, FailLegs
  <2>2. PICK old : old = {"ACTIVE", "SUBMITTED"}
    OBVIOUS
  <2>3. Turn(q, S, old, "FAILED") /\ GiveBack(q, S, old) /\ old \in SUBSET {"ACTIVE", "SUBMITTED"}
    BY <2>1, <2>2
  <2>4. Moves(q)
    BY <1>4, <2>1, <2>3, TurnMoves
  <2> QED
    BY <2>4, MovedIsReserved
<1> QED
  BY <1>1, <1>2, <1>3, <1>6, <1>7, <1>8, <1>9 DEF Asynchronous, Synchronous

LEMMA HeldStep ==
  ASSUME TypeOK, TypeOK', Inductive, \A q \in Quotes : Accounted(q), HeldIsReserved,
         [Next]_vars
  PROVE  HeldIsReserved'
<1>1. ASSUME NEW q \in Quotes, Asynchronous(q) \/ Synchronous(q) \/ AdapterExecutes(q)
      PROVE  HeldIsReserved'
  BY <1>1, QuoteStepHeld DEF Inductive
<1>2. ASSUME NEW s \in Private, WithdrawOrder(s)
      PROVE  HeldIsReserved'
  <2>1. LeaveMarket(s, leg) /\ take' = take /\ leg \in [Quotes -> [Sources -> LegStates]]
    BY <1>2 DEF WithdrawOrder, TypeOK
  <2> QED
    BY <2>1, LeaveMarketHeld
<1>3. CASE \/ UNCHANGED vars \/ Crash \/ OperateRiskBook
           \/ \E s \in Reference : UpsertSlice(s)
  <2>1. leg' = leg /\ take' = take /\ held' = held
    BY <1>3 DEF vars, Crash, OperateRiskBook, UpsertSlice, bookVars
  <2> QED
    BY <2>1, HeldFrame
<1> QED
  BY <1>1, <1>2, <1>3 DEF Next

LegsInv ==
  TypeOK /\ Inductive /\ (\A q \in Quotes : Accounted(q)) /\ HeldIsReserved

LEMMA InitAccounted ==
  ASSUME Init
  PROVE  LegsInv
<1>1. TypeOK /\ Inductive
  BY InitIsCoherent
<1>2. /\ \A q \in Quotes : risk[q] = "none" /\ call[q] = Idle
      /\ \A q \in Quotes, s \in Sources : leg[q][s] = "none" /\ take[q][s] = 0
      /\ \A s \in Books : held[s] = 0
  BY DEF Init, RiskInit, Books
<1>3. \A q \in Quotes, s \in Sources : ~Live(q, s) /\ Legs(q) = {}
  BY <1>2 DEF Live, Legs
<1>4. \A q \in Quotes : Legs(q) = {}
  BY <1>2 DEF Legs
<1>5. \A q \in Quotes : call[q].step = "idle"
  BY <1>2 DEF Idle
<1>6. \A q \in Quotes : Accounted(q)
  BY <1>3, <1>4, <1>5 DEF Accounted, OnlyLegsLive, NotYetHeld, DoneSoFar
<1>7. HeldIsReserved
  <2> SUFFICES ASSUME NEW s \in Books
               PROVE  held[s] = SumFunctionOnSet([q \in Quotes |-> take[q][s]],
                                                 {q \in Quotes : Live(q, s)})
    BY DEF HeldIsReserved
  <2>1. {q \in Quotes : Live(q, s)} = {}
    BY <1>3 DEF Books
  <2> QED
    BY <1>2, <2>1, SumEmpty
<1> QED
  BY <1>1, <1>6, <1>7 DEF LegsInv

LEMMA LegsStep ==
  ASSUME LegsInv, [Next]_vars
  PROVE  LegsInv'
<1>1. TypeOK /\ Inductive /\ (\A q \in Quotes : Accounted(q)) /\ HeldIsReserved
  BY DEF LegsInv
<1>2. TypeOK' /\ Inductive'
  BY <1>1, NextIsCoherent
<1>3. \A q \in Quotes : Accounted(q)'
  BY <1>1, EveryQuoteAccounted
<1>4. HeldIsReserved'
  BY <1>1, <1>2, HeldStep
<1> QED
  BY <1>2, <1>3, <1>4 DEF LegsInv

(* What a source has reserved is what the legs that are live there take,   *)
(* though each book is a database of its own and any release, failure or   *)
(* confirmation may be repeated or cut short; and unless a call was cut    *)
(* short a quote that was not given holds nothing and a firm quote has all *)
(* its legs but those whose maker withdrew.                                *)
THEOREM EveryLegAccountedFor == Spec => []LegsAccountedFor
<1>1. Init => LegsInv
  BY InitAccounted
<1>2. LegsInv /\ [Next]_vars => LegsInv'
  BY LegsStep
<1>3. LegsInv => LegsAccountedFor
  <2>1. ASSUME LegsInv, NEW q \in Quotes, ~disturbed, call[q] = Idle
        PROVE  /\ qstate[q] = "none" => \A s \in Legs(q) : ~Live(q, s)
               /\ qstate[q] = "RESERVED" => \A s \in Legs(q) : Live(q, s) \/ s \in gone
    <3>1. DoneSoFar(q) /\ call[q].step = "idle"
      BY <2>1 DEF LegsInv, Accounted, Idle
    <3> QED
      BY <3>1 DEF DoneSoFar, HeldOrGone
  <2> QED
    BY <2>1 DEF LegsInv, LegsAccountedFor, FirmOrGivenBack
<1> QED
  BY <1>1, <1>2, <1>3, PTL DEF Spec
=============================================================================
