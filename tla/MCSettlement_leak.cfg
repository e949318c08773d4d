CONSTANTS
  sweeper = sweeper
  pump = pump
  op1 = op1
  Sweeper <- sweeper
  Pump <- pump
  Operators <- MCOneOperator
  Routes = {"start"}
  MaxRounds = 1
  BetIds <- MCOneBet
  MaxAttempts = 2
  WalletFaults = {}
  WalletKeyed = TRUE
  StoreRaises = TRUE
  NoDriver = NoDriver
  NoRow = NoRow
SPECIFICATION Spec
INVARIANTS
  UnpaidStaysTracked
