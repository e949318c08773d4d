CONSTANTS
  p1 = p1
  p2 = p2
  c1 = c1
  c2 = c2
  c3 = c3
  b1 = b1
  Players <- MCPlayers
  Conns <- MCConns
  Bots <- MCBots
  NSeats = 2
  MaxCalls = 3
  Nobody = Nobody
  Seats <- MCConns
  Denoms = {2, 5}
  Configs <- MCConfigs
  MaxBets = 3
  MaxRounds = 2
  FirstIds = {0, 8}
  Refreshes <- MCPlayers
  FirstView = 0
  LastView = 4
  PageCalls <- MCPlayers
  PageRounds = 2
SPECIFICATION TableSpec
SYMMETRY MCTableSymmetry
INVARIANTS
  HubTypeOK
  OneOwnerPerSeat
  NoGhostMember
  SeatLostOnlyToLateRelease
  BotRegistryExact
  MoneyConserved
  SharesFair
  PageSound
CHECK_DEADLOCK FALSE
