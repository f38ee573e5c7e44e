SPECIFICATION SentSpec
CONSTANTS
  t1 = t1
  s1 = s1
  s2 = s2
  c1 = c1
  i1 = i1
  acc = acc
  wal = wal
  Jobs = {t1, s1, s2, c1, i1}
  Accounts = {acc, wal}
  Budget = 4
  Parts = {"provider", "webhooks", "secrets"}
  Events = {"e"}
  Webhooks = {"w1"}
  MaxReplays = 1
  Attempts = 2
  Kids = {"old", "new"}
  PlainText = "plain"
  Unsealed = "unsealed"
  Targets = {"w1", "w2"}
  Owner <- HookOf
  Parcels = {"p"}
  Deployments <- SomeRings
  MaxTries = 2
  Tries <- MostTries
  Batches <- KindsAndPair
  Capability <- Kind
  Source <- MoneySource
  Amount <- MoneyAmount
  Opening <- MoneyOpening
INVARIANTS
  BooksMatchProvider
  AtMostOneInstruction
  TransferMoneyAccountedFor
  NothingFromNothing
  DeliveriesHonest
PROPERTIES
  ImplementsMoneyMovement
  TransferEnds
  DeliveriesEnd
CHECK_DEADLOCK FALSE
