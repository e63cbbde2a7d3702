SPECIFICATION FlowSpec
SYMMETRY Symmetry
CONSTANTS
  Accounts = {a1}
  NoAccount = NoAccount
  NOrders = 2
  NSessions = 2
  NDeposits = 1
  NWithdrawals = 0
  NIncidents = 0
  WorkOrders = {w1, w2}
  NoWork = NoWork
  FillRefs = {f1}
  Signatures = {g1}
  NoSignature = NoSignature
  Transfers = {6}
  Notionals = {2}
  VenueCosts = {0}
  MinFee = 1
  MaxOrder = 2
  MaxDaily = 4
  MaxPosition = 4
  MaxWorkerCrashes = 1
  MaxLostHalts = 1
  MaxResumes = 0
INVARIANTS
  FlowTypeOK
  OneLiveOrder
  LiveOrderHasJob
  SubmittedMoneyIsLive
  SubmissionNeverConflicts
  RequestOwnsReservation
  MissedDeadlineHalts
CHECK_DEADLOCK FALSE
