SPECIFICATION MarketSpec
CONSTANTS
  p = p
  q = q
  r1 = r1
  r2 = r2
  r3 = r3
  Procs = {p, q}
  Orders <- TwoOrders
  Sell <- Signed
  Buy <- Price
  Routes = {r1, r2, r3}
  Contested = {r1, r2}
  Want <- Asked
  MayCrash = TRUE
SYMMETRY ProcessSymmetry
CHECK_DEADLOCK FALSE
INVARIANTS
  BooksBalance
  FilledByRoutes
  RouteTold
  LiquidityRestored
  AloneInFlightHeld
PROPERTIES
  AloneImplementsFirmLiquidity
