CONSTANTS
  sweeper = sweeper
  pump = pump
  op1 = op1
  Sweeper <- sweeper
  Pump <- pump
  Operators <- MCOneOperator
  Routes = {"start", "publish", "cancel"}
  MaxRounds = 1
  BetIds <- MCTwoBets
  MaxAttempts = 2
  WalletFaults = {"fail", "lost"}
  WalletKeyed = TRUE
  StoreRaises = TRUE
  NoDriver = NoDriver
  NoRow = NoRow
SPECIFICATION Spec
INVARIANTS
  NeverRefundedAndPaid
  PaidOnlyIfRecorded
PROPERTIES
  ImplementsContract
