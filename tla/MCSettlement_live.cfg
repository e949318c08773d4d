CONSTANTS
  sweeper = sweeper
  pump = pump
  op1 = op1
  Sweeper <- sweeper
  Pump <- pump
  Operators <- MCOneOperator
  Routes = {"start"}
  MaxRounds = 1
  BetIds <- MCTwoBets
  MaxAttempts = 2
  WalletFaults = {"fail"}
  WalletKeyed = TRUE
  StoreRaises = FALSE
  NoDriver = NoDriver
  NoRow = NoRow
SPECIFICATION FairSpec
PROPERTIES
  OutcomeFrozen
  EveryRoundEnds
