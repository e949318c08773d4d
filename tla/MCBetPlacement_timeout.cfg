CONSTANTS
  alice = alice
  bob = bob
  pa = pa
  pb = pb
  r1 = r1
  r2 = r2
  r3 = r3
  k1 = k1
  k2 = k2
  Requests <- MCRequests2
  Keys <- MCKeys1
  Players <- MCPlayers
  Payloads <- MCPayloads
  PlayerOf <- MCPlayerOf
  AmountOf <- MCAmountOf
  Fund = 2
  MaxBets = 1
  MaxRounds = 2
  DebitFaults = {"lost"}
  CreditFaults = {}
  NoPayload = NoPayload
  NoBet = NoBet
SPECIFICATION Spec
SYMMETRY MCSymmetry
INVARIANTS
  NoStrandedStake
CHECK_DEADLOCK FALSE
