CONSTANTS
  sweeper = sweeper
  pump = pump
  op1 = op1
  Sweeper <- sweeper
  Pump <- pump
  Operators <- MCOneOperator
  Routes = {"start", "close", "publish", "settle"}
  MaxRounds = 2
  BetIds <- MCOneBet
  MaxAttempts = 2
  WalletFaults = {"fail"}
  WalletKeyed = TRUE
  StoreRaises = FALSE
  NoDriver = NoDriver
  NoRow = NoRow
SPECIFICATION Spec
INVARIANTS
  NeverAbandoned
