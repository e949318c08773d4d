CONSTANTS
  x1 = x1
  x2 = x2
  x3 = x3
  a1 = a1
  a2 = a2
  s1 = s1
  s2 = s2
  ch1 = ch1
  v1 = v1
  v2 = v2
  WalletCalls <- MCCalls
  WalletNames <- MCNames
  WalletRequests <- MCRequests
  MaxExpiries = 1
  NoCall = NoCall
  TableCalls <- MCCalls
  TablePlayers <- MCPlayers
  TableIds <- MCTables
  MaxPlayers = 1
  Operator = Operator
  RedisCalls <- MCRedisCalls
  RedisKeys <- MCRedisKeys
  MaxFaults = 1
  AdminThreads <- MCAdminThreads
  Sweepers <- MCSweepers
  Changes <- MCChanges
  Labels <- MCLabels
  MaxJobs = 3
  ChangeTarget <- MCChangeTarget
  NoTables = NoTables
  PlayCalls <- MCCalls
  PlayKinds <- MCPlayKinds
  PlayRequests <- MCPlayRequests
  Seed = 2
  PlayFaults = 1
  Ranks <- MCRanks
  SeatsDealt <- MCSeatsDealt
  Deals <- MCDeals
  Orders <- MCOrders
  PayWorkers <- MCWorkers
  RoundBets <- MCRoundBets
  Computed <- MCComputed
  MaxTrouble = 3
  LastLife = 2
  BetsPerLife = 2
  Pays <- MCPays
  MaxLoss = 1
  EventCap = 3
  EventLimit = 1
  LastRound = 2
  LastVisit = 2
  TableBots <- MCTableBots
  Chips <- MCChips
  BotSeats <- MCBotSeats
  LastDealt = 2
  MaxTicks = 4
  NoBot = NoBot
SPECIFICATION SvSpec
SYMMETRY MCSymmetry
INVARIANTS
  ServicesTypeOK
  ProviderMoneySafe
  TablesKeepSeats
  StoresKeepPromises
  WalletsSafe
  RankingSound
  RoundEventsSafe
  BotBetsSafe
PROPERTIES
  StatusFinal
CHECK_DEADLOCK FALSE
