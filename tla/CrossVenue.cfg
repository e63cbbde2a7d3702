SPECIFICATION CrossVenueSpec
CONSTANTS
  Notional = 2
  MaxUnhedged = 1
  MaxTries = 2
  NIngests = 2
INVARIANTS
  CrossVenueTypeOK
  ClosedMeansFlat
  RejectedNeverTrades
  InterventionHalts
  IdleStopSpares
PROPERTY ReportsOnlyAdd
CHECK_DEADLOCK FALSE
