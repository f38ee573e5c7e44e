SPECIFICATION BankingSpec
CONSTANTS
  cu = cu
  acc = acc
  bcc = bcc
  coinacc = coinacc
  vlt = vlt
  crl = crl
  wal = wal
  k1 = k1
  tr = tr
  lp = lp
  Parts = {"commands"}
  MaxNow = 1
  NoOne = NoOne
  Held = {acc, bcc, coinacc, vlt, crl, wal, tr, lp}
  House <- BankBooks
  Currencies = {"usd", "eur", "coin"}
  Customers = {cu}
  Accounts = {acc, bcc, coinacc}
  Applications = {"app"}
  Simulations = {"one"}
  HolderOf <- Holder
  CurrencyOf <- Denominated
  Amounts = {1, 2}
  MaxFunds = 3
  Transfers = {1, 2}
  Vaults = {vlt}
  Lines = {crl}
  Quotes = {1, 2}
  AccountOf <- Over
  Rails <- TwoRails
  Limit = 3
  Ltv = 5000
  Worths = {2, 6}
  Mid <- Mids
  Spread = 100
  QuoteLife = 1
  Coins <- OneCoin
  Cards = {"card"}
  Authorisations = {1, 2}
  Disputes = {"dispute"}
  CardAccount <- CardOver
  Physical = {"card"}
  CardKeys = {"ka", "kb"}
  Admins = {"kb"}
  Controls <- SomeControls
  MerchantCategories = {"food", "games", "fuel"}
  DayLength = 1
  MonthLength = 2
  ResponseTime = 1
  Policies = {"policy"}
  Capped = {wal, "card"}
  Caps = {1}
  Wallets = {wal}
  Chains = {1, 2}
  Approvals = {1}
  WalletHolder <- OfWallet
  WalletCurrency <- InWallet
  Thresholds <- Starts
  Keys = {"ka", "kb"}
  EventIds = {"e1", "e2", "e3"}
  Sources = {"default"}
  References = {"r1", "r2"}
  Resources = {acc, wal}
  Reported = {1, 2}
  Traders = {tr, lp}
  Traded = {"usd", "eur"}
  MidOf <- Mids
  Spreads = {4000}
  Share <- Shares
  IntentIds = {1, 2}
  PositionIds = {1, 2}
  RfqIds = {1}
  Sizes = {3}
  Appetites = {0, 3}
  IntentLife = 1
  RfqWindow = 1
  MaxRows = 4
  Endowment = 4
  Tenants = {"t"}
  Operations = {"act", "end"}
  Things = {"a", "b"}
  Closing = {"end"}
  Bodies = {"m", "n"}
  Headers = {"h"}
  NoHeader = "none"
  IdempotencyLife = 1
  Quota = 2
  Window = 2
  MaxCommands = 2
  Commands = {"c1"}
  Records = {"x1"}
  Fields = {"f"}
  Absent = Absent
  Seeded = Seeded
  Nobody = Nobody
  NotTaken = NotTaken
  Retention = 1
  MaxStaged = 1
  Mandates = {"m"}
  Subscriptions = {"s1", "s2"}
  Members = {"one", "two"}
  Recipients = {"payee"}
  Destinations = {"dest"}
  RecipientOf <- PayeeOf
  Names = {"ann", "bob"}
  MaxEdits = 2
  KeyIds = {"root", "child", "grandchild"}
  Domains = {"keys", "cards"}
  KeyLives = {1}
  Requests <- Asked
  Root = Root
  TenantIds = {"ta", "tb"}
  NoTenant = NoTenant
  Projects = {"project"}
  Seeds <- SeedsOf
  SeedBook <- SeedBooks
  PayoutBook <- PayoutBooks
  SeedAmount <- SeedOf
  Blueprints <- SomeBlueprints
  MaxSeeded = 2
  Payments = {1, 2}
  Sheets <- SomeSheets
  Numeric <- Iso
  MaxName = 25
  MaxCity = 15
  MaxReference = 25
  Guid <- OurName
  Country <- AnyCountry
  Symbols <- Damages
  Refused = Refused
  Ledgered = {"x", "y"}
  StatementsOf = {"x"}
  Periods <- SomePeriods
  PostedAmounts = {1}
  MaxTxns = 2
  MaxStatements = 2
  RowIds = {1, 2, 3}
  PageLimits = {1, 2}
  MaxRowsListed = 3
  FillSizes = {1, 3}
  FillSpreads = {0, 2500}
  MaxFills = 3
  ValueOf <- WorthOf
  Connections = {1, 2}
  Addresses = {"x"}
  Proxy = "proxy"
  Credentials = {"k1", "k2"}
  HolderKey <- OwnerOf
  Patrons = {"ta", "tb"}
  Newcomer = "newcomer"
  Operator = "operator"
  Anonymous = "anonymous"
  Environments <- Configured
  Paths <- SomePaths
  SourceLimit = 1
  PatronLimit = 1
  GateWindow = 1
  MaxTurns = 2
  Makers = {"p", "q"}
  RestSizes = {1, 100, 300}
  RestLife = 1
  Askings = {1, 100, 350}
CHECK_DEADLOCK FALSE
INVARIANTS
  AnswersTheRequest
