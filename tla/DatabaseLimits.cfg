SPECIFICATION Spec
SYMMETRY Symmetry
CONSTANTS
  Accounts = {a1}
  NoAccount = NoAccount
  NOrders = 3
  NSessions = 2
  NDeposits = 1
  NWithdrawals = 1
  NIncidents = 1
  WorkOrders = {}
  NoWork = NoWork
  FillRefs = {}
  Signatures = {g1}
  NoSignature = NoSignature
  Transfers = {3, 9}
  Notionals = {2}
  VenueCosts = {0}
  MinFee = 1
  MaxOrder = 2
  MaxDaily = 2
  MaxPosition = 2
INVARIANTS
  DailyOvershootBounded
  BalanceAgreesWithLedger
  TreasuryBacksLiabilities
  LedgerExplainsRows
CHECK_DEADLOCK FALSE
