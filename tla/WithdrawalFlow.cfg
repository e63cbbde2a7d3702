SPECIFICATION WithdrawalSpec
SYMMETRY Symmetry
CONSTANTS
  Accounts = {a1}
  NoAccount = NoAccount
  NOrders = 0
  NSessions = 1
  NDeposits = 0
  NWithdrawals = 2
  NIncidents = 2
  WorkOrders = {}
  NoWork = NoWork
  FillRefs = {}
  Signatures = {g1, g2}
  NoSignature = NoSignature
  Transfers = {2}
  Notionals = {}
  VenueCosts = {}
  MinFee = 1
  MaxOrder = 1
  MaxDaily = 1
  MaxPosition = 1
  Wallets = {p1}
  NoWallet = NoWallet
  NSubmits = 2
  FinalizeBatch = 2
  MaxTickFailures = 1
  MaxBindings = 1
INVARIANTS
  WithdrawalTypeOK
  SingleChannel
  DispatchedNeverRefunded
  DriftHalts
  ReviewHalts
CHECK_DEADLOCK FALSE
