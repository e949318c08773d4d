---------------------------- MODULE StagingRoom ----------------------------
(***************************************************************************)
(* The staging adapter (staging/wsgi.py, state.py, redis_wallet.py): every *)
(* request is a function instance of its own that loads the room from      *)
(* Redis, sweeps it, runs the game's handler on the copy and stores the    *)
(* copy.  A step is one Redis command, or a run of commands nothing else   *)
(* here can tell apart; an instance may stop between two.  The markers of   *)
(* the wallet and the claims of the bets are Redis keys that live 24 hours. *)
(* A bet whose window ends after its debit is BetPlacement's.               *)
(*                                                                         *)
(* The room's lock is held while a handler runs.  The copy it runs on was  *)
(* loaded before, and is stored after, for a GET as well.                  *)
(***************************************************************************)
EXTENDS Integers, FiniteSets

CONSTANTS
  Instances,   \* bound: requests served
  BetKeys,     \* Idempotency-Keys of bets, one bet each
  StakeOf(_),  \* the bet's stake
  WinOf(_),    \* what it wins
  StFund,      \* the player's balance
  MaxLapses,   \* bound: locks that outlive LOCK_TTL_MS, and claims their 24 hours
  NoInstance,
  NoRoom       \* the services hold no copy of the room

ASSUME StagingAssumption ==
  /\ NoInstance \notin Instances /\ MaxLapses \in Nat /\ StFund \in Nat /\ IsFiniteSet(BetKeys)
  /\ NoRoom \notin [bets : SUBSET BetKeys, settled : BOOLEAN]
  /\ \A k \in BetKeys : StakeOf(k) \in Nat \ {0} /\ WinOf(k) \in Nat

VARIABLES
  stRoom,     \* ROOM_KEY: the bets in the room's round, and whether it is settled
  stLock,     \* LOCK_KEY of the room and of "*": the instance whose token it holds
  stKind,     \* an instance's request: "new" until it came, a GET, an admin PUT, or a bet's key
  stAt,       \* where the instance is
  stCopy,     \* svc.rooms[room], if it is there
  stRead,     \* the balance a debit read under WATCH
  stRows,     \* a settling sweep's rows: the wins due, and the one whose marker it has just set
  stClaim,    \* RedisIdempotencyStore, by bet key: free, claimed, done
  stMarks,    \* wallet markers: SET NX'd keys, <<"debit" or "credit", key>>
  stBalance,
  stPaid,     \* movements made, <<"debit" or "credit", key>> -> count
  stLeft,     \* how often a movement's marker was set and the movement not made
  stForgot,   \* how often its marker lapsed
  stLapses    \* bound: locks and claims lapsed

stVars == <<stRoom, stLock, stKind, stAt, stCopy, stRead, stRows, stClaim, stMarks, stBalance, stPaid, stLeft,
            stForgot, stLapses>>

Locks == {"room", "*"}
LockOf(kind) == IF kind = "put" THEN "*" ELSE "room"
WalletMoves == {"debit", "credit"} \X BetKeys
NoneDue == [due |-> {}, now |-> {}]

StInit ==
  /\ stRoom = [bets |-> {}, settled |-> FALSE]
  /\ stLock = [l \in Locks |-> NoInstance]
  /\ stKind = [i \in Instances |-> "new"] /\ stAt = [i \in Instances |-> "load"]
  /\ stCopy = [i \in Instances |-> NoRoom] /\ stRead = [i \in Instances |-> 0]
  /\ stRows = [i \in Instances |-> NoneDue]
  /\ stClaim = [k \in BetKeys |-> "free"] /\ stMarks = {}
  /\ stBalance = StFund /\ stPaid = [m \in WalletMoves |-> 0] /\ stLapses = 0
  /\ stLeft = [m \in WalletMoves |-> 0] /\ stForgot = [m \in WalletMoves |-> 0]

InstanceMoves(i, from, to) == stAt[i] = from /\ stAt' = [stAt EXCEPT ![i] = to]
MoneySame == UNCHANGED <<stBalance, stPaid, stLeft, stForgot>>
WalletSame == UNCHANGED <<stRead, stRows, stClaim, stMarks>> /\ MoneySame

\* The movements an instance has set the marker of and not made.
Applying(i) ==
  (IF stAt[i] \in {"watch", "exec"} THEN {<<"debit", stKind[i]>>} ELSE {}) \cup ({"credit"} \X stRows[i].now)

\* It will not make them: their markers stay.
Leaves(i) == stLeft' = [m \in WalletMoves |-> IF m \in Applying(i) THEN stLeft[m] + 1 ELSE stLeft[m]]

\* A request that is over reads its copy no more: the next one loads the room again.
Forgets(i) ==
  /\ stCopy' = [stCopy EXCEPT ![i] = NoRoom] /\ stRead' = [stRead EXCEPT ![i] = 0]
  /\ stRows' = [stRows EXCEPT ![i] = NoneDue] /\ Leaves(i)
  /\ UNCHANGED <<stClaim, stMarks, stBalance, stPaid, stForgot>>

Loaded(i) == IF stKind'[i] = "put" THEN stCopy[i] ELSE stRoom

\* _run_handler: the room its path names is loaded, no lock held; an admin PUT names none.
LoadAll(i) ==
  /\ InstanceMoves(i, "load", "sweep")
  /\ \E kind \in {"get", "put"} \cup BetKeys : stKind' = [stKind EXCEPT ![i] = kind]
  /\ stCopy' = [stCopy EXCEPT ![i] = Loaded(i)]
  /\ UNCHANGED <<stRoom, stLock, stLapses>> /\ WalletSame

Takes(i, lock) == stLock[lock] = NoInstance /\ stLock' = [stLock EXCEPT ![lock] = i]

\* release: GET, and DEL when the token is one's own.
Releases(i, lock) ==
  stLock' = IF stLock[lock] = i THEN [stLock EXCEPT ![lock] = NoInstance] ELSE stLock

\* lazy_sweep: under the room's lock it reloads the room; svc.sweep may find the round due.
SweepBegins(i) ==
  /\ InstanceMoves(i, "sweep", "sweeping") /\ Takes(i, "room")
  /\ stCopy' = [stCopy EXCEPT ![i] = stRoom]
  /\ UNCHANGED <<stRoom, stKind, stLapses>> /\ WalletSame

\* The lock is not had in 3 s.
SweepSkipped(i) ==
  /\ InstanceMoves(i, "sweep", "reload") /\ stLock["room"] # NoInstance
  /\ UNCHANGED <<stRoom, stLock, stKind, stCopy, stLapses>> /\ WalletSame

\* Mutant: the wallet takes no notice of a key's marker.
ClaimedAlways(m) == TRUE

\* _once: SET NX, a key's first caller applies.
Claimed(m) == m \notin stMarks

Won(i) == {k \in stCopy[i].bets : WinOf(k) > 0}

\* The due round settles: the copy is settled, and its wins are to be credited.
SweepSettles(i) ==
  /\ InstanceMoves(i, "sweeping", "crediting") /\ ~stCopy[i].settled
  /\ stCopy' = [stCopy EXCEPT ![i].settled = TRUE]
  /\ stRows' = [stRows EXCEPT ![i].due = Won(i)]
  /\ UNCHANGED <<stRoom, stLock, stKind, stRead, stClaim, stMarks, stLapses>> /\ MoneySame

\* credit, row by row: the marker is set and the win is this caller's, or the marker was there
\* and the row is done.
CreditMarks(i) ==
  \E k \in stRows[i].due :
    LET mark == <<"credit", k>>
    IN  /\ InstanceMoves(i, "crediting", IF Claimed(mark) THEN "incr" ELSE "crediting")
        /\ stRows' = [stRows EXCEPT ![i] = [due |-> @.due \ {k}, now |-> IF Claimed(mark) THEN {k} ELSE {}]]
        /\ stMarks' = stMarks \cup {mark}
        /\ UNCHANGED <<stRoom, stLock, stKind, stCopy, stRead, stClaim, stLapses>> /\ MoneySame

\* INCRBY; the marker is written again, with the transaction.
CreditIncrs(i) ==
  /\ InstanceMoves(i, "incr", "crediting")
  /\ \E k \in stRows[i].now :
       /\ stBalance' = stBalance + WinOf(k)
       /\ stPaid' = [stPaid EXCEPT ![<<"credit", k>>] = @ + 1]
  /\ stRows' = [stRows EXCEPT ![i].now = {}]
  /\ UNCHANGED <<stRoom, stLock, stKind, stCopy, stRead, stClaim, stMarks, stLeft, stForgot, stLapses>>

\* save_room and release, after the rows or when the round was not due.
SweepSaves(i) ==
  /\ stAt[i] \in {"sweeping", "crediting"} /\ stRows[i].due = {}
  /\ stAt' = [stAt EXCEPT ![i] = "reload"]
  /\ stRoom' = stCopy[i] /\ Releases(i, "room")
  /\ UNCHANGED <<stKind, stCopy, stLapses>> /\ WalletSame

\* The named room is loaded again; then a POST or PUT takes its lock, an admin request that of "*".
Reloads(i) ==
  /\ InstanceMoves(i, "reload", IF stKind[i] = "get" THEN "save" ELSE "lock")
  /\ UNCHANGED <<stRoom, stLock, stKind, stLapses>> /\ WalletSame
  /\ stCopy' = [stCopy EXCEPT ![i] = Loaded(i)]

HandlerEnters(i) ==
  /\ InstanceMoves(i, "lock", IF stKind[i] = "put" THEN "leave" ELSE "bet")
  /\ Takes(i, LockOf(stKind[i]))
  /\ UNCHANGED <<stRoom, stKind, stCopy, stLapses>> /\ WalletSame

\* 503 "room busy": nothing is saved.
RoomBusy(i) ==
  /\ InstanceMoves(i, "lock", "done") /\ stLock[LockOf(stKind[i])] # NoInstance
  /\ Forgets(i) /\ UNCHANGED <<stRoom, stLock, stKind, stLapses>>

-----------------------------------------------------------------------------
(* place_bet on the copy, over the Redis idempotency store and wallet.     *)

BetRefused(i) ==
  /\ InstanceMoves(i, "bet", "leave")
  /\ stClaim[stKind[i]] # "free" \/ stCopy[i].settled
  /\ UNCHANGED <<stRoom, stLock, stKind, stCopy, stLapses>> /\ WalletSame

BetClaims(i) ==
  /\ InstanceMoves(i, "bet", "debit") /\ ~stCopy[i].settled /\ stClaim[stKind[i]] = "free"
  /\ stClaim' = [stClaim EXCEPT ![stKind[i]] = "claimed"]
  /\ UNCHANGED <<stRoom, stLock, stKind, stCopy, stRead, stRows, stMarks, stLapses>> /\ MoneySame

\* _once: the marker is set, or was there and stands for a transaction: the loser gets
\* whatever it holds, "CLAIMED" included, for its reference.
DebitMarks(i) ==
  LET mark == <<"debit", stKind[i]>>
  IN  /\ InstanceMoves(i, "debit", IF Claimed(mark) THEN "watch" ELSE "create")
      /\ stMarks' = stMarks \cup {mark}
      /\ UNCHANGED <<stRoom, stLock, stKind, stCopy, stRead, stRows, stClaim, stLapses>> /\ MoneySame

\* WATCH and GET.  A short balance releases the bet's claim; the marker stays.
DebitReads(i) ==
  LET short == stBalance < StakeOf(stKind[i])
  IN  /\ stAt[i] = "watch" /\ InstanceMoves(i, "watch", IF short THEN "leave" ELSE "exec")
      /\ stRead' = [stRead EXCEPT ![i] = stBalance]
      /\ stClaim' = IF short THEN [stClaim EXCEPT ![stKind[i]] = "free"] ELSE stClaim
      /\ IF short THEN Leaves(i) ELSE UNCHANGED stLeft
      /\ UNCHANGED <<stRoom, stLock, stKind, stCopy, stRows, stMarks, stBalance, stPaid, stForgot, stLapses>>

\* No write since WATCH; one that left the same balance is taken for none.
ExecRuns(i) == stBalance = stRead[i]

\* MULTI, DECRBY, EXEC.
DebitExecs(i) ==
  /\ InstanceMoves(i, "exec", "create") /\ ExecRuns(i)
  /\ stBalance' = stBalance - StakeOf(stKind[i])
  /\ stPaid' = [stPaid EXCEPT ![<<"debit", stKind[i]>>] = @ + 1]
  /\ UNCHANGED <<stRoom, stLock, stKind, stCopy, stRead, stRows, stClaim, stMarks, stLeft, stForgot, stLapses>>

DebitRetries(i) ==
  /\ InstanceMoves(i, "exec", "watch") /\ ~ExecRuns(i)
  /\ UNCHANGED <<stRoom, stLock, stKind, stCopy, stLapses>> /\ WalletSame

\* The bet joins the copy's round; the key is completed.
BetCreated(i) ==
  /\ InstanceMoves(i, "create", "leave")
  /\ stCopy' = [stCopy EXCEPT ![i].bets = @ \cup {stKind[i]}]
  /\ stClaim' = [stClaim EXCEPT ![stKind[i]] = "done"]
  /\ UNCHANGED <<stRoom, stLock, stKind, stRead, stRows, stMarks, stLapses>> /\ MoneySame

-----------------------------------------------------------------------------
\* The finally clause.
HandlerLeaves(i) ==
  /\ InstanceMoves(i, "leave", "save") /\ Releases(i, LockOf(stKind[i]))
  /\ UNCHANGED <<stRoom, stKind, stCopy, stLapses>> /\ WalletSame

\* _save_all, after the lock: every room the services hold, the one lazy_sweep loaded included.
SaveAll(i) ==
  /\ InstanceMoves(i, "save", "done")
  /\ stRoom' = IF stCopy[i] = NoRoom THEN stRoom ELSE stCopy[i]
  /\ Forgets(i) /\ UNCHANGED <<stLock, stKind, stLapses>>

InstanceStops(i) ==
  /\ stAt[i] \notin {"load", "done", "stopped"} /\ stAt' = [stAt EXCEPT ![i] = "stopped"]
  /\ Forgets(i) /\ UNCHANGED <<stRoom, stLock, stKind, stLapses>>

\* LOCK_TTL_MS after it was taken.
LockLapses(l) ==
  /\ stLapses < MaxLapses /\ stLock[l] # NoInstance
  /\ stLock' = [stLock EXCEPT ![l] = NoInstance] /\ stLapses' = stLapses + 1
  /\ UNCHANGED <<stRoom, stKind, stAt, stCopy>> /\ WalletSame

\* 24 hours after it was set; the request that set it has not lasted so long.
MarkLapses(m) ==
  /\ m \in stMarks /\ \A i \in Instances : m \notin Applying(i)
  /\ stMarks' = stMarks \ {m} /\ stForgot' = [stForgot EXCEPT ![m] = @ + 1]
  /\ UNCHANGED <<stRoom, stLock, stKind, stAt, stCopy, stRead, stRows, stClaim, stBalance, stPaid, stLeft, stLapses>>

PlacingBet(i) == stAt[i] \in {"debit", "watch", "exec", "create"}

ClaimLapses(k) ==
  /\ stLapses < MaxLapses /\ stClaim[k] # "free" /\ \A i \in Instances : ~(PlacingBet(i) /\ stKind[i] = k)
  /\ stClaim' = [stClaim EXCEPT ![k] = "free"] /\ stLapses' = stLapses + 1
  /\ UNCHANGED <<stRoom, stLock, stKind, stAt, stCopy, stRead, stRows, stMarks>> /\ MoneySame

StNext ==
  \/ \E i \in Instances :
       \/ LoadAll(i) \/ SweepBegins(i) \/ SweepSkipped(i) \/ SweepSettles(i) \/ CreditMarks(i) \/ CreditIncrs(i)
       \/ SweepSaves(i) \/ Reloads(i) \/ HandlerEnters(i) \/ RoomBusy(i) \/ BetRefused(i) \/ BetClaims(i)
       \/ DebitMarks(i) \/ DebitReads(i) \/ DebitExecs(i) \/ DebitRetries(i) \/ BetCreated(i)
       \/ HandlerLeaves(i) \/ SaveAll(i) \/ InstanceStops(i)
  \/ \E l \in Locks : LockLapses(l)
  \/ \E m \in WalletMoves : MarkLapses(m)
  \/ \E k \in BetKeys : ClaimLapses(k)

StSpec == StInit /\ [][StNext]_stVars

-----------------------------------------------------------------------------
StTypeOK ==
  /\ stRoom \in [bets : SUBSET BetKeys, settled : BOOLEAN]
  /\ stCopy \in [Instances -> [bets : SUBSET BetKeys, settled : BOOLEAN] \cup {NoRoom}]
  /\ stLock \in [Locks -> Instances \cup {NoInstance}]
  /\ stKind \in [Instances -> {"new", "get", "put"} \cup BetKeys]
  /\ stAt \in [Instances -> {"load", "sweep", "sweeping", "crediting", "incr", "reload", "lock", "bet",
                             "debit", "watch", "exec", "create", "leave", "save", "done", "stopped"}]
  /\ stRead \in [Instances -> Nat] /\ stMarks \subseteq WalletMoves
  /\ stRows \in [Instances -> [due : SUBSET BetKeys, now : SUBSET BetKeys]]
  /\ stClaim \in [BetKeys -> {"free", "claimed", "done"}]
  /\ stBalance \in Int /\ stLapses \in 0..MaxLapses
  /\ stPaid \in [WalletMoves -> Nat] /\ stLeft \in [WalletMoves -> Nat] /\ stForgot \in [WalletMoves -> Nat]

Underway(m) == IF \E i \in Instances : m \in Applying(i) THEN 1 ELSE 0
Standing(m) == IF m \in stMarks THEN 1 ELSE 0

BetsHeld == stRoom.bets \cup UNION {stCopy[i].bets : i \in {j \in Instances : stCopy[j] # NoRoom}}

\* "exactly one caller applies" (RedisWallet._once): however the room's copies overwrite each
\* other, so that a settled round is due again, each life of a marker is one movement: made,
\* being made, or left undone.  (A copy that is settled again a day later is paid again.)
AppliedByOneCaller ==
  \A m \in WalletMoves : stPaid[m] + stLeft[m] + Underway(m) = stForgot[m] + Standing(m)

\* Debits of one player by several instances do not overdraw the balance: a debit that was
\* overtaken reads it again.
NeverOverdrawn == stBalance >= 0

\* "losers read the winner" (RedisWallet._once): a bet in the stored room or in a copy of it had
\* its stake taken, unless the debit that set its marker came up short or stopped.
BetsStaked == \A k \in BetsHeld : stPaid[<<"debit", k>>] > 0 \/ stLeft[<<"debit", k>>] > 0

\* The player's money, over every interleaving of Redis commands.
RoomMoneySafe == AppliedByOneCaller /\ NeverOverdrawn /\ BetsStaked

\* Once and for all, which the code does not keep: a marker lives 24 hours, the room for ever.
PaidOnceEver == \A m \in WalletMoves : stPaid[m] <= 1

\* "Distributed per-room locks serialize load-mutate-save across function instances"
\* (state.py): a bet whose key is completed is in the stored room, unless the instance that
\* made it has yet to store its copy, or stopped before it could.
CompletedBetStays ==
  \A k \in BetKeys : stClaim[k] = "done" =>
    \/ k \in stRoom.bets
    \/ \E i \in Instances : stKind[i] = k /\ stAt[i] \in {"leave", "save", "stopped"}
=============================================================================
