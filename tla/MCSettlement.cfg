CONSTANTS
  sweeper = sweeper
  pump = pump
  op1 = op1
  Sweeper <- sweeper
  Pump <- pump
  Operators <- MCOneOperator
  Routes = {"start", "close", "settle"}
  MaxRounds = 2
  BetIds <- MCOneBet
  MaxAttempts = 2
  WalletFaults = {"fail"}
  WalletKeyed = FALSE
  StoreRaises = FALSE
  NoDriver = NoDriver
  NoRow = NoRow
SPECIFICATION Spec
INVARIANTS
  TypeOK
  PaidAtMostOnce
  UnpaidStaysTracked
  RetrySound
