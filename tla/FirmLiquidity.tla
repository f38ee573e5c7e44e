--------------------------- MODULE FirmLiquidity ---------------------------
(***************************************************************************)
(* What the private market promises the taker of a firm quote and the      *)
(* makers of its orders: quantity is promised only while it is unsold and  *)
(* unpromised, a route is sent to execution only while everything it       *)
(* promises is held, what is held then stays held until the outcome is     *)
(* known, and a maker's quantity is sold only by a route that settled.     *)
(* FxMarket implements this specification when one process serves the      *)
(* market and does not die between two of its database steps.              *)
(***************************************************************************)
EXTENDS Integers, Functions

CONSTANTS
  Routes,      \* firm quotes on the market
  Orders,      \* maker orders
  Size         \* Size[o]: quantity the maker signed

VARIABLES
  promised,    \* promised[r][o]: quantity of o that route r was quoted
  held,        \* held[r][o]: quantity of o kept for r
  sold,        \* sold[o]: quantity booked as filled
  outcome      \* outcome[r]: what the execution of r came to

firmVars == <<promised, held, sold, outcome>>

Nothing == [o \in Orders |-> 0]
Room(o) == Size[o] - sold[o] - SumFunctionOnSet([r \in Routes |-> held[r][o]], Routes)

FirmInit ==
  /\ promised = [r \in Routes |-> Nothing]
  /\ held = [r \in Routes |-> Nothing]
  /\ sold = Nothing
  /\ outcome = [r \in Routes |-> "idle"]

Promise(r) ==
  /\ promised[r] = Nothing
  /\ held' = [held EXCEPT ![r] = held'[r]]
  /\ held'[r] # Nothing
  /\ \A o \in Orders : held'[r][o] \in 0..Room(o)
  /\ promised' = [promised EXCEPT ![r] = held'[r]]
  /\ UNCHANGED <<sold, outcome>>

(* Given up before it was sent, or after the execution reverted; a         *)
(* withdrawn order is given up alone.                                      *)
Free(r) ==
  /\ outcome[r] \in {"idle", "reverted"}
  /\ held' = [held EXCEPT ![r] = held'[r]]
  /\ \A o \in Orders : held'[r][o] \in {0, held[r][o]}
  /\ UNCHANGED <<promised, sold, outcome>>

Send(r) ==
  /\ outcome[r] = "idle"
  /\ held[r] # Nothing /\ held[r] = promised[r]
  /\ outcome' = [outcome EXCEPT ![r] = "pending"]
  /\ UNCHANGED <<promised, held, sold>>

Execute(r) ==
  /\ outcome[r] = "pending"
  /\ \E x \in {"settled", "reverted"} : outcome' = [outcome EXCEPT ![r] = x]
  /\ UNCHANGED <<promised, held, sold>>

Book(r) ==
  /\ outcome[r] = "settled"
  /\ held[r] # Nothing /\ held[r] = promised[r]
  /\ sold' = [o \in Orders |-> sold[o] + held[r][o]]
  /\ held' = [held EXCEPT ![r] = Nothing]
  /\ UNCHANGED <<promised, outcome>>

FirmNext == \E r \in Routes : Promise(r) \/ Free(r) \/ Send(r) \/ Execute(r) \/ Book(r)

FirmSpec == FirmInit /\ [][FirmNext]_firmVars
=============================================================================
