------------------------------ MODULE BotBets ------------------------------
(***************************************************************************)
(* What the demo bots of one table bet (games/teen_patti_pro/               *)
(* bot_manager.py, the second half of _tick).  One reaper thread looks at   *)
(* every seated bot in turn, from a copy of the registry and with the round *)
(* it read; rounds, the operator's denominations and the players who        *)
(* displace a bot move on meanwhile.  Delays are abstracted to "due".       *)
(***************************************************************************)
EXTENDS Integers, Sequences, FiniteSets

CONSTANTS
  TableBots,      \* the bots seated at the start
  Chips,          \* the chips a table may accept
  BotSeats,       \* the positions
  LastDealt,      \* bound: rounds
  MaxTicks,       \* bound: ticks of the reaper
  NoBot

ASSUME BotBetsAssumption == NoBot \notin TableBots /\ LastDealt \in Nat \ {0}

VARIABLES
  bbRound, bbOpen,  \* room.round's number, whether its window is open
  bbDenoms,         \* config.denoms
  bbSeated,         \* _bots[room]
  bbArmed, bbDue,   \* bet_round_id; whether bet_at_ms is past
  bbDone,           \* bet_done
  bbLeft,           \* bots of the tick's copy still to be looked at
  bbCall,           \* the bet being placed: [bot, round, position, chip]
  bbBets,           \* bets accepted: [bot, round, key, position, chip], key the round's in the key
  bbTried,          \* the rounds each bot called place_bet for, with repetitions
  bbTicks
bbVars == <<bbRound, bbOpen, bbDenoms, bbSeated, bbArmed, bbDue, bbDone, bbLeft, bbCall, bbBets, bbTried, bbTicks>>

NoCallYet == [bot |-> NoBot, round |-> 0, position |-> "none", chip |-> 0]

BbInit ==
  /\ bbRound = 1 /\ bbOpen = TRUE /\ bbDenoms = Chips
  /\ bbSeated = TableBots
  /\ bbArmed = [b \in TableBots |-> 0] /\ bbDue = {} /\ bbDone = [b \in TableBots |-> 0]
  /\ bbLeft = {} /\ bbCall = NoCallYet /\ bbBets = {} /\ bbTried = [b \in TableBots |-> <<>>] /\ bbTicks = 0

RoomSame == UNCHANGED <<bbRound, bbOpen, bbDenoms, bbSeated>>
BotsSame == UNCHANGED <<bbArmed, bbDue, bbDone, bbLeft, bbCall, bbBets, bbTried, bbTicks>>

\* The room: the window closes, and the round is over and another dealt.
WindowCloses == bbOpen /\ bbOpen' = FALSE /\ BotsSame /\ UNCHANGED <<bbRound, bbDenoms, bbSeated>>
NextDealt ==
  /\ ~bbOpen /\ bbRound < LastDealt
  /\ bbRound' = bbRound + 1 /\ bbOpen' = TRUE
  /\ BotsSame /\ UNCHANGED <<bbDenoms, bbSeated>>

\* An operator changes the chips; a player takes a bot's seat.
ChipsChange ==
  /\ bbDenoms' \in SUBSET Chips \ {bbDenoms}
  /\ BotsSame /\ UNCHANGED <<bbRound, bbOpen, bbSeated>>
BotDisplaced ==
  /\ \E b \in bbSeated : bbSeated' = bbSeated \ {b}
  /\ BotsSame /\ UNCHANGED <<bbRound, bbOpen, bbDenoms>>

DelayOver ==
  /\ \E b \in TableBots \ bbDue : bbArmed[b] # 0 /\ bbDue' = bbDue \cup {b}
  /\ RoomSame /\ UNCHANGED <<bbArmed, bbDone, bbLeft, bbCall, bbBets, bbTried, bbTicks>>

\* seated = {r: list(b) ...}
TickCopies ==
  /\ bbLeft = {} /\ bbCall = NoCallYet /\ bbTicks < MaxTicks
  /\ bbLeft' = bbSeated /\ bbTicks' = bbTicks + 1
  /\ RoomSame /\ UNCHANGED <<bbArmed, bbDue, bbDone, bbCall, bbBets, bbTried>>

\* _maybe_bet up to place_bet.
Looked(b) == bbLeft' = bbLeft \ {b} /\ RoomSame /\ UNCHANGED <<bbDone, bbBets, bbTried, bbTicks>>

FindsClosed(b) ==
  /\ ~bbOpen /\ Looked(b)
  /\ bbArmed' = IF bbArmed[b] # bbRound THEN [bbArmed EXCEPT ![b] = 0] ELSE bbArmed
  /\ UNCHANGED <<bbDue, bbCall>>

\* Mutant: only the round it is armed for keeps a bot from betting.
PlayedArmed(b) == FALSE

\* "a separate done-marker": armed alone does not tell a bot that it has played.
Played(b) == bbDone[b] = bbRound

FindsPlayed(b) == bbOpen /\ Played(b) /\ Looked(b) /\ UNCHANGED <<bbArmed, bbDue, bbCall>>

\* Mutant: a bot is armed for the round to come.
ArmsForNext(b) ==
  /\ bbOpen /\ ~Played(b) /\ bbArmed[b] # bbRound + 1
  /\ bbArmed' = [bbArmed EXCEPT ![b] = bbRound + 1] /\ bbDue' = bbDue \ {b}
  /\ bbLeft' = bbLeft \ {b} /\ bbDone' = [bbDone EXCEPT ![b] = 0]
  /\ RoomSame /\ UNCHANGED <<bbCall, bbBets, bbTried, bbTicks>>

ArmsBot(b) ==
  /\ bbOpen /\ ~Played(b) /\ bbArmed[b] # bbRound
  /\ bbArmed' = [bbArmed EXCEPT ![b] = bbRound] /\ bbDue' = bbDue \ {b}
  /\ bbLeft' = bbLeft \ {b} /\ bbDone' = [bbDone EXCEPT ![b] = 0]
  /\ RoomSame /\ UNCHANGED <<bbCall, bbBets, bbTried, bbTicks>>

NotDueYet(b) ==
  /\ bbOpen /\ ~Played(b) /\ bbArmed[b] = bbRound /\ b \notin bbDue
  /\ Looked(b) /\ UNCHANGED <<bbArmed, bbDue, bbCall>>

\* _choose_position: the quietest seat, or any; what is in it is data.  _choose_chip: one of the
\* denominations, 0 when there is none.
Chosen(b) ==
  {[bot |-> b, round |-> bbRound, position |-> s, chip |-> c] :
     s \in BotSeats, c \in IF bbDenoms = {} THEN {0} ELSE bbDenoms}

Decides(b) ==
  /\ bbOpen /\ ~Played(b) /\ bbArmed[b] = bbRound /\ b \in bbDue
  /\ bbCall' \in Chosen(b)
  /\ Looked(b) /\ UNCHANGED <<bbArmed, bbDue>>

\* place_bet under the key of the round the bot read, which may be over by now.  However it
\* ends, that round is over for the bot.
PlacesBet ==
  LET b == bbCall.bot
      taken == bbOpen /\ bbCall.chip \in bbDenoms
               /\ ~ \E bet \in bbBets : bet.bot = b /\ bet.key = bbCall.round
  IN
  /\ bbCall # NoCallYet /\ bbCall' = NoCallYet
  /\ bbBets' = IF taken THEN bbBets \cup {[bot |-> b, round |-> bbRound, key |-> bbCall.round,
                                           position |-> bbCall.position, chip |-> bbCall.chip]}
               ELSE bbBets
  /\ bbTried' = [bbTried EXCEPT ![b] = Append(@, bbCall.round)]
  /\ bbDone' = [bbDone EXCEPT ![b] = bbCall.round]
  /\ RoomSame /\ UNCHANGED <<bbArmed, bbDue, bbLeft, bbTicks>>

BbNext ==
  \/ WindowCloses \/ NextDealt \/ ChipsChange \/ BotDisplaced \/ DelayOver \/ TickCopies \/ PlacesBet
  \/ bbCall = NoCallYet /\ \E b \in bbLeft :
       FindsClosed(b) \/ FindsPlayed(b) \/ ArmsBot(b) \/ NotDueYet(b) \/ Decides(b)

(***************************************************************************)
(* Properties.                                                              *)
(***************************************************************************)
BbTypeOK ==
  /\ bbRound \in 1..LastDealt /\ bbSeated \subseteq TableBots /\ bbLeft \subseteq TableBots
  /\ \A b \in TableBots : bbArmed[b] <= bbRound /\ bbDone[b] <= bbRound
  /\ \A bet \in bbBets : bet.chip \in Chips /\ bet.key <= bet.round

\* "marking it done stops a retry every second": a bot tries once for each round it saw, taken
\* or refused, however the rounds moved under it.
OneTryPerRound ==
  \A b \in TableBots : \A i, j \in DOMAIN bbTried[b] : i # j => bbTried[b][i] # bbTried[b][j]

BetsIn(b, round) == {bet \in bbBets : bet.bot = b /\ bet.round = round}
\* "one bet per round, per bot", which the code does not keep: the bet of a round that was over
\* before it was placed lands in the next one, which the bot plays as well.
OneBetPerRound == \A b \in TableBots, r \in 1..LastDealt : Cardinality(BetsIn(b, r)) <= 1

\* It is kept for the bets that landed in the round the bot had read.
OneOwnBetPerRound ==
  \A b \in TableBots, r \in 1..LastDealt : Cardinality({bet \in BetsIn(b, r) : bet.key = r}) <= 1

\* What the bots keep to.
BotBetsSafe == OneTryPerRound /\ OneOwnBetPerRound
=============================================================================
