CONSTANTS
  x1 = x1
  x2 = x2
  x3 = x3
  y1 = y1
  y2 = y2
  k1 = k1
  k2 = k2
  Instances <- MCThree
  BetKeys <- MCBetKeys
  StakeOf <- MCStake
  WinOf <- MCWin
  StFund = 4
  MaxLapses = 1
  NoInstance = NoInstance
  NoRoom = NoRoom
  Visits <- MCTwo
  Fields <- MCFields
  Builds <- MCBuilds
  Nothing = Nothing
  RowCap = 2
  MaxMishaps = 1
  Attempts <- MCThree
  LoginLimit = 2
  LockLife = 1
  TokenLife = 1
  LoginEnd = 3
  Edits <- MCEdits
  Holders <- MCHolders
  AdjustKeys <- MCAdjustKeys
  RowIds <- MCRowIds
  SeedBalance = 3
  Amounts <- MCAmounts
  KeyCalls <- MCTwo
  KeyIds <- MCKeyIds
  MaxTime = 3
  ShortTtl = 1
  LongTtl = 2
  Tombstone = 1
  MinTombstone = 1
  PinLimit = 1
  PinWindow = 2
  AuthWindow = 1
  RateLimit = 1
  RateWindow = 2
  DemoKinds <- MCDemoKinds
  DemoCalls <- MCThree
  DemoLimit = 1
  DemoEnd = 5
  TokenCalls <- MCThree
  MaxRaises = 1
SPECIFICATION StagingSpec
SYMMETRY MCSymmetry
INVARIANTS
  StagingTypeOK
  RoomMoneySafe
  StagingSafe
CHECK_DEADLOCK FALSE
