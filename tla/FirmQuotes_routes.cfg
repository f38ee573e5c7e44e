SPECIFICATION FirmSpec
CONSTANTS
  Parts = {"contracts", "coordinator"}
  m = m
  t = t
  a = a
  b = b
  o1 = o1
  o2 = o2
  i1 = i1
  i2 = i2
  k = k
  Tokens = {a, b}
  Accounts = {m, t}
  Recipients = {"wallet"}
  Amounts = {1}
  Filers <- TakerInput
  MaxDelay = 1
  MaxFee = 1
  Supply = 2
  Orders = {o1, o2}
  Order <- Terms
  Intents = {i1, i2}
  Intent <- Wishes
  Policies = {k}
  MaxEpoch = 1
  q1 = q1
  q2 = q2
  Quotes = {q1, q2}
  Assets = {"in", "out"}
  In = "in"
  Out = "out"
  HardLimits = {1, 2}
  Positions <- OperatorPositions
  N = 3
  Private = {2}
  Principal = 3
  Want <- Asked
  Cost = 1
  Capacity = {1, 2}
SYMMETRY QuoteSymmetry
INVARIANTS
  Solvent
  LedgerAddsUp
  LegsAccountedFor
  InFlightBacked
  ExposureBound
PROPERTIES
  CancellationIsFinal
  ImplementsAtomicExchange
