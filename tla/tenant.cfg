SPECIFICATION Spec
CONSTANTS
  SetupRun = {r1}
  PoolAdder = {x}
  MaxApp = 2
  MaxCert = 3
  MaxSetupFault = 1
  MaxSetupStop = 1
  Mailbox = {m}
  Saver = {a}
  MaxName = 3
  MaxSave = 3
  MaxMiss = 1
  MaxSlot = 2
  Password = {p1}
  MaxKeyAct = 5
  MaxKeyFault = 2
  Template = {x1, y1}
  Shipped = {x1}
  MaxTplAct = 3
  MaxVersion = 2
  MaxAsk = 2
  MaxUpdFault = 2
  MaxEdition = 2
  MaxHubAct = 4
  MaxClaim = 2
  MaxHubFault = 1
  MaxRow = 2
  Checked = {m1}
  Checker = {scheduler, button}
  KvValid = 2
  MaxHour = 2
  MaxCheck = 3
  MaxTurn = 1
  Rung = {0, 1}
  WarnDays = 1
  Validity = 2
  LicenceUntil = 1
  MaxDay = 1
  MaxDailyStop = 1
  Worker = {w1, w2}
  MaxCount = 2
  MaxReport = 2
  MaxCountStop = 1
INVARIANTS TypesOK GraphStaysReachable OnlySwitchedOnOrders SavedHolds NoKeyLost OrdersComeThrough OrdersWereRead GreenIsEarned ReportedOnce
PROPERTIES UpkeepUnseen ConvertedAlike
CHECK_DEADLOCK FALSE
