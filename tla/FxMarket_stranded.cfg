SPECIFICATION MarketSpec
CONSTANTS
  p = p
  q = q
  r1 = r1
  r2 = r2
  r3 = r3
  Procs = {p}
  Orders <- TwoOrders
  Sell <- Signed
  Buy <- Price
  Routes = {r1, r2}
  Contested = {r1, r2}
  Want <- Asked
  MayCrash = FALSE
CHECK_DEADLOCK FALSE
INVARIANT ReservationsEnd
