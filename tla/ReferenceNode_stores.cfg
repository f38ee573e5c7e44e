SPECIFICATION NodeEdgesSpec
CONSTANTS
  p1 = p1
  p2 = p2
  r1 = r1
  r2 = r2
  Parts = {"policy", "money", "fiat", "trade", "public", "quotes", "simulator", "agent", "client"}
  MaxNow = 2
  Participants = {"lp", "rail"}
  CredentialTypes = {"KYB"}
  Accounts = {"lpa", "raila"}
  Corridors = {"c"}
  Actions = {"PROVIDE_LIQUIDITY", "SETTLE_FIAT_EDGE"}
  Facts <- SomeFacts
  Policies <- TwoPolicies
  Reports = {"PASSED", "FAILED"}
  Lifetimes = {1}
  Amounts = {1}
  Requests <- SomeRequests
  MaxEpoch <- Changes
  MaxAsked = 1
  MaxIssued = 3
  Offers <- TwoOffers
  ReferencePolicy <- Open
  ReferenceFacts <- AllLenders
  Margin = 0
  Term = 2
  Instruments = {"USD", "TD"}
  Currencies = {"usd"}
  BackedBy <- SameBacking
  Coverage <- Covers
  Deposits = {1, 2}
  Receipts = {r1, r2}
  References = {p1, p2}
  Sizes = {1, 2}
  Capital = {0}
  Terms = {1}
  Intents = {r1, r2}
  Payloads <- TwoPayloads
  Verifiers = {"ledger", "rail"}
  Payments = {"m1", "m2"}
  Ledger = "ledger"
  Ids = {"m1", "m2"}
  Windows = {1}
  Signed <- TwoLevels
  Slices = {1}
  SliceTerms <- SomeSlices
  PrincipalTerms <- SomePrincipal
  InScale = 2
  OutScale = 2
  Asked = {4, 6}
  Remainder = 1
  Desks = {"issuer", "lp", "treasury"}
  DeskSize <- CorridorSizes
  NearlyEmpty = 1
  OrderSize = 1
  PriceRank <- Ranks
  PerUnit = 2
  RiskLimit = 4
  AtRiskLimit = 3
  Grant <- Grants
  TradeLife = 2
  PublicTrades = {1, 2}
  Orders = {3}
  PrivateQuotes = {1, 2}
  SimSources <- ThreeSources
  SimEvents <- SomeEvents
  SimOrders = {1, 3}
  MaxRequests = 3
  HardLimit = 2
  StormLeaves = 1
  Exposures = {0, 1}
  Tenants = {"t", "u"}
  Turns = {1, 2, 3}
  TurnLimit = 1
  BudgetLimit = 2
  Remembered = 1
  Calls = {1, 2, 3, 4}
  Keys = {1, 2}
SYMMETRY NodeSymmetry
CHECK_DEADLOCK FALSE
INVARIANTS
  PolicyHolds
  HoldersCanCollect
  OnePaymentEach
  MarketAsTold
  SentOnceAndHeld
  SimulationAddsUp
  SiteHonest
PROPERTIES
  FinalStaysFinal
  TradesHonest
  AnonymousChangesNothing
