SPECIFICATION Spec
SYMMETRY Symmetry
CONSTANTS
  Accounts = {a1}
  NoAccount = NoAccount
  NOrders = 2
  NSessions = 1
  NDeposits = 1
  NWithdrawals = 0
  NIncidents = 0
  WorkOrders = {w1, w2}
  NoWork = NoWork
  FillRefs = {f1, f2}
  Signatures = {g1}
  NoSignature = NoSignature
  Transfers = {6}
  Notionals = {2}
  VenueCosts = {0, 1}
  MinFee = 1
  MaxOrder = 2
  MaxDaily = 2
  MaxPosition = 2
INVARIANTS
  TypeOK
  ReservedIsHeld
  BalanceAgreesWithLedger
  TreasuryBacksLiabilities
  LedgerExplainsRows
  OrderFollowsReservation
CHECK_DEADLOCK FALSE

PROPERTY ImplementsEscrow
