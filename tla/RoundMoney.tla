----------------------------- MODULE RoundMoney -----------------------------
(***************************************************************************)
(* The money of one table, round after round: Room.place_bet,              *)
(* calculate_result, _cap_overage, settle, cancel and the carry-over that  *)
(* start_round hands on, with the amounts.  Room.lock makes each method    *)
(* one step.  Which seats win is left open: any of the staked ones, one or *)
(* several (a dead heat).  CardRanking is about which.                     *)
(***************************************************************************)
EXTENDS RoundLifecycle, Integers, FiniteSets, FiniteSetsExt

CONSTANTS
  Seats,      \* config.seats
  Denoms,     \* config.denoms
  Configs,    \* records [rake_bps, max_win_cap] in force
  MaxBets,    \* bound: bets a round takes
  MaxRounds,  \* bound: rounds dealt
  FirstIds    \* values _bet_seq may start from

ASSUME MoneyAssumption ==
  /\ Denoms \subseteq Nat \ {0} /\ FirstIds \subseteq Nat
  /\ Configs \subseteq [rake_bps : 0..10000, max_win_cap : Nat]
  /\ MaxBets \in Nat /\ MaxRounds \in Nat

VARIABLES
  config,    \* room.config, one for the whole run
  status, roundNo,
  betSeq,    \* _bet_seq, one counter for all rounds of the room
  bets,      \* Round.bets
  winners,   \* Round.winner_positions
  carryIn, carryOut,
  payout,    \* Round.settlements: payout by bet
  carryOver, \* room.carry_over
  taken,     \* stakes debited so far
  paid,      \* payouts and refunds credited so far
  house,     \* rake kept so far
  forfeited  \* carry-in of cancelled rounds, which nothing in the code holds any more

vars == <<config, status, roundNo, betSeq, bets, winners, carryIn, carryOut, payout,
          carryOver, taken, paid, house, forfeited>>
till == <<taken, paid, house, forfeited>>

Bets == [id : Nat, position : Seats, amount : Denoms]

-----------------------------------------------------------------------------
(* The arithmetic of Room.settle.                                          *)

Stakes(B) == SumFunction([b \in B |-> b.amount])

Rake(pot) == (pot * config.rake_bps) \div 10000

WinBets(B) == {b \in B : b.position \in winners}

\* bet_id is a string ("<round>-b9" sorts after "<round>-b10"): ids of one or two
\* digits compared digit by digit.
StringKey(n) == IF n < 10 THEN n * 20 ELSE n * 2 + 1
LastInOrder(W) == CHOOSE b \in W : \A c \in W : StringKey(c.id) <= StringKey(b.id)

\* Mutant: a share per unit staked, rounded before it is multiplied.
ShareByUnit(b, D, S) == (D \div S) * b.amount

Share(b, D, S) == (D * b.amount) \div S

\* Pro rata by stake; the last bet in order absorbs the rounding remainder.
Split(W, D) ==
  LET S == Stakes(W)
      last == LastInOrder(W)
      others == SumFunction([c \in W \ {last} |-> Share(c, D, S)])
  IN  [b \in W |-> IF b = last THEN D - others ELSE Share(b, D, S)]

\* b.cap_limit; 0 configures no cap.
Capped(b, share) ==
  IF config.max_win_cap > 0 /\ share > config.max_win_cap * b.amount
  THEN config.max_win_cap * b.amount ELSE share

Clawback(split) ==
  SumFunction([b \in DOMAIN split |-> split[b] - Capped(b, split[b])])

-----------------------------------------------------------------------------
Init ==
  /\ config \in Configs /\ betSeq \in FirstIds
  /\ status = UPCOMING /\ roundNo = 0
  /\ bets = {} /\ winners = {} /\ payout = <<>>
  /\ carryIn = 0 /\ carryOut = 0 /\ carryOver = 0
  /\ taken = 0 /\ paid = 0 /\ house = 0 /\ forfeited = 0

\* Mutant: the carry-over stays in the room when a round takes it.
StartRoundKeepsCarry ==
  /\ status \in {UPCOMING, CLOSED} /\ roundNo < MaxRounds
  /\ status' = BETTING_OPEN /\ roundNo' = roundNo + 1
  /\ bets' = {} /\ winners' = {} /\ payout' = <<>>
  /\ carryIn' = carryOver /\ carryOut' = 0
  /\ UNCHANGED <<config, betSeq, carryOver, till>>

StartRound ==
  /\ status \in {UPCOMING, CLOSED} /\ roundNo < MaxRounds
  /\ status' = BETTING_OPEN /\ roundNo' = roundNo + 1
  /\ bets' = {} /\ winners' = {} /\ payout' = <<>>
  /\ carryIn' = carryOver /\ carryOut' = 0
  /\ carryOver' = 0
  /\ UNCHANGED <<config, betSeq, till>>

PlaceBet(position, amount) ==
  /\ status = BETTING_OPEN /\ Cardinality(bets) < MaxBets
  /\ betSeq' = betSeq + 1
  /\ bets' = bets \cup {[id |-> betSeq + 1, position |-> position, amount |-> amount]}
  /\ taken' = taken + amount
  /\ UNCHANGED <<config, status, roundNo, winners, carryIn, carryOut, payout, carryOver,
                 paid, house, forfeited>>

CloseBetting ==
  /\ status = BETTING_OPEN
  /\ status' = BETTING_CLOSED
  /\ UNCHANGED <<config, roundNo, betSeq, bets, winners, carryIn, carryOut, payout,
                 carryOver, till>>

\* Only seats that were staked are candidates; nobody staked, nobody wins.
CalculateResult ==
  /\ status = BETTING_CLOSED
  /\ \E won \in SUBSET {b.position : b \in bets} :
       /\ won = {} <=> bets = {}
       /\ winners' = won
  /\ status' = RESULT
  /\ UNCHANGED <<config, roundNo, betSeq, bets, carryIn, carryOut, payout, carryOver, till>>

\* Room.settle, and the credits service.settle makes of its rows.
Settle ==
  /\ status = RESULT
  /\ LET pot == Stakes(bets) + carryIn
         distributable == pot - Rake(pot)
         W == WinBets(bets)
         pays == W # {} /\ distributable > 0
         split == Split(W, distributable)
     IN  /\ payout' = IF pays
                      THEN [b \in bets |-> IF b \in W THEN Capped(b, split[b]) ELSE 0]
                      ELSE [b \in bets \ W |-> 0]
         /\ carryOut' = IF pays THEN Clawback(split) ELSE distributable
         /\ house' = house + Rake(pot)
  /\ carryOver' = carryOut'
  /\ paid' = paid + SumFunction(payout')
  /\ status' = CLOSED
  /\ UNCHANGED <<config, roundNo, betSeq, bets, winners, carryIn, taken, forfeited>>

\* cancel_round: the accepted bets are voided and their stakes credited.  What the
\* round had taken over from the last one stays with it.
Cancel ==
  /\ status \in {BETTING_OPEN, BETTING_CLOSED}
  /\ paid' = paid + Stakes(bets)
  /\ forfeited' = forfeited + carryIn
  /\ bets' = {} /\ status' = CLOSED
  /\ UNCHANGED <<config, roundNo, betSeq, winners, carryIn, carryOut, payout, carryOver,
                 taken, house>>

Next ==
  \/ StartRound \/ CloseBetting \/ CalculateResult \/ Settle \/ Cancel
  \/ \E position \in Seats, amount \in Denoms : PlaceBet(position, amount)

Spec == Init /\ [][Next]_vars

-----------------------------------------------------------------------------
TypeOK ==
  /\ config \in Configs /\ status \in RoundStatus
  /\ roundNo \in 0..MaxRounds /\ betSeq \in Nat
  /\ bets \subseteq Bets /\ winners \subseteq Seats
  /\ {carryIn, carryOut, carryOver, taken, paid, house, forfeited} \subseteq Nat
  /\ DOMAIN payout \subseteq bets /\ \A b \in DOMAIN payout : payout[b] \in Nat

Decided == status = CLOSED /\ payout # <<>>

\* What is neither with the players nor with the house: the carry-over, and the pot
\* of the round in play.
OnTable ==
  carryOver + (IF status \in {UPCOMING, CLOSED} THEN 0 ELSE Stakes(bets) + carryIn)

\* Every coin ever staked is in exactly one place: paid out or back, kept as rake,
\* carried, in the pot of the round in play, or forfeited by a cancelled round, over
\* any number of rounds, dead heats, caps and rakes (INTEGRATION.md has
\* sum(debits) == distributed + carry_out, which forgets the last); and none of these
\* places ever holds a negative sum (TypeOK), which a clawback or a cap could make.
MoneyConserved == TypeOK /\ taken = paid + house + OnTable + forfeited

\* Without rake no winning bet is paid less than it staked (the dead-heat rule of
\* Room.settle; the cap is at least 1x).
NoWinnerLoses ==
  Decided /\ config.rake_bps = 0 => \A b \in WinBets(bets) : payout[b] >= b.amount

\* Pro rata: no payout is above its exact share by as much as the number of winning
\* bets, nor below it by one coin, save for the cap.  A pot that is all rake pays none.
DustBounded ==
  Decided =>
    LET D == Stakes(bets) + carryIn - Rake(Stakes(bets) + carryIn)
        W == WinBets(bets)
        S == Stakes(W)
    IN  D > 0 => \A b \in W :
                     /\ payout[b] * S < D * b.amount + S * Cardinality(W)
                     /\ \/ payout[b] * S > D * b.amount - S
                        \/ payout[b] = config.max_win_cap * b.amount

\* What the winning bets are promised of each other.
SharesFair == NoWinnerLoses /\ DustBounded
=============================================================================
