----------------------------- MODULE MCFxMarket -----------------------------
(***************************************************************************)
(* Small instances of FxMarket: a route that needs two orders and routes   *)
(* that compete for what is left, at prices that do not divide evenly.     *)
(***************************************************************************)
EXTENDS FxMarket, TLC

CONSTANTS p, q, r1, r2, r3

TwoOrders == {1, 2}
Signed == [o \in Orders |-> IF o = 1 THEN 3 ELSE 2]
Price == [o \in Orders |-> IF o = 1 THEN 4 ELSE 3]
ProcessSymmetry == Permutations(Procs)
Asked == [r \in Routes |-> IF r = r1 THEN 4 ELSE 1]

=============================================================================
