CONSTANTS
  alice = alice
  bob = bob
  pa = pa
  pb = pb
  r1 = r1
  r2 = r2
  r3 = r3
  k1 = k1
  k2 = k2
  Requests <- MCRequests3
  Keys <- MCKeys2
  Players <- MCPlayers
  Payloads <- MCPayloads
  PlayerOf <- MCSamePlayer
  AmountOf <- MCAmountOf
  Fund = 3
  MaxBets = 1
  MaxRounds = 2
  DebitFaults = {"fail"}
  CreditFaults = {"fail"}
  NoPayload = NoPayload
  NoBet = NoBet
SPECIFICATION Spec
SYMMETRY MCSymmetry
INVARIANTS
  TypeOK
  OneOwnerPerKey
  OneBetPerKey
  NoStrandedStake
  NoOrphanClaim
  UnbackedOnlyAfterRefund
  AnswerIsOwnBet
  BetLimitHolds
PROPERTIES
  CompletedNeverDropped
CHECK_DEADLOCK FALSE
