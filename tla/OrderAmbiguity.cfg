SPECIFICATION FlowSpec
CONSTANTS
  Accounts = {a1}
  NoAccount = NoAccount
  NOrders = 1
  NSessions = 1
  NDeposits = 1
  NWithdrawals = 0
  NIncidents = 0
  WorkOrders = {w1}
  NoWork = NoWork
  FillRefs = {f1}
  Signatures = {g1}
  NoSignature = NoSignature
  Transfers = {6}
  Notionals = {2}
  VenueCosts = {0}
  MinFee = 1
  MaxOrder = 2
  MaxDaily = 4
  MaxPosition = 4
  MaxWorkerCrashes = 1
  MaxLostHalts = 0
  MaxResumes = 0
INVARIANT NeverReleasedWhileLive
CHECK_DEADLOCK FALSE
