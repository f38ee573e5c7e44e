SPECIFICATION SentSpec
CONSTANTS
  Tries <- MostTries
  Batches <- LoneSend
  t1 = t1
  s1 = s1
  s2 = s2
  c1 = c1
  i1 = i1
  acc = acc
  wal = wal
  Jobs = {s1}
  Accounts = {wal}
  Budget = 2
  Parts = {"provider"}
  Events = {"e"}
  Webhooks = {"w1"}
  MaxReplays = 1
  Attempts = 2
  Kids = {"old", "new"}
  PlainText = "plain"
  Unsealed = "unsealed"
  Targets = {"w1", "w2"}
  Owner <- HookOf
  Parcels = {"p"}
  Deployments <- SomeRings
  MaxTries = 2
  Capability <- Kind
  Source <- MoneySource
  Amount <- MoneyAmount
  Opening <- MoneyOpening
INVARIANTS
  CustodySuccessMovesReservation
CHECK_DEADLOCK FALSE
