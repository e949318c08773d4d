------------------------------- MODULE RoomLives -------------------------------
(***************************************************************************)
(* A room that is deleted by an administrator (api.py) or forgotten by a   *)
(* restart comes back as a new Room object (service.py _room), whose rounds *)
(* and bets are numbered from 1 again (engine.py): the ids of an earlier    *)
(* life are used a second time, while the settlement rows (of the process)  *)
(* and the wallet's keys settle:<bet_id> (of the wallet, for ever) remain.  *)
(*                                                                         *)
(* One room; a life of it is played for one round, so that a bet's id is    *)
(* its number, and whose bet it is follows from its life and its number.    *)
(* Several rounds of one life are Settlement's subject.                     *)
(***************************************************************************)
EXTENDS Integers, Sequences, FiniteSets

CONSTANTS
  LastLife,    \* bound: lives of the room
  BetsPerLife, \* bound: bets of a round
  Pays,        \* what the round may owe a bet
  MaxLoss      \* bound: credits that fail

ASSUME LivesAssumption == LastLife \in Nat /\ BetsPerLife \in Nat /\ Pays \subseteq Nat /\ MaxLoss \in Nat

VARIABLES rlLife, rlRoom, rlListed, rlLoop, rlStage, rlRow, rlStore, rlKeys, rlLoss, rlRowed, rlServed
rlVars == <<rlLife, rlRoom, rlListed, rlLoop, rlStage, rlRow, rlStore, rlKeys, rlLoss, rlRowed, rlServed>>
rlTable == <<rlLife, rlRoom, rlListed>>
rlMoney == <<rlLoop, rlStage, rlRow, rlStore, rlKeys, rlLoss, rlRowed, rlServed>>

BetSeqs == 1..BetsPerLife
NoBet == [life |-> 0, seq |-> 0, pays |-> 0]
Unrecorded == [bet |-> NoBet, credited |-> FALSE]
Absent == [status |-> "absent", bets |-> <<>>]

RlInit ==
  /\ rlLife = 0 /\ rlRoom = Absent             \* svc.rooms has no such room
  /\ rlListed = FALSE                          \* admin_rooms
  /\ rlLoop = <<>> /\ rlStage = "record" /\ rlRow = NoBet   \* the credit loops, one after another
  /\ rlStore = [s \in BetSeqs |-> Unrecorded]  \* svc.settlements
  /\ rlKeys = [s \in BetSeqs |-> <<>>]         \* what the wallet moved under settle:<bet_id>
  /\ rlLoss = 0
  /\ rlRowed = {} /\ rlServed = {}             \* history: bets whose row was asked for, and was dealt with

\* _room: any call that names a room makes it.
NewRoom == rlLife' = rlLife + 1 /\ rlRoom' = [Absent EXCEPT !.status = "idle"]

RoomCreated ==
  /\ ~rlListed /\ rlListed' = TRUE             \* 409 otherwise
  /\ IF rlRoom = Absent THEN rlLife < LastLife /\ NewRoom ELSE UNCHANGED <<rlLife, rlRoom>>
  /\ UNCHANGED rlMoney

RoomNamed == rlRoom = Absent /\ rlLife < LastLife /\ NewRoom /\ UNCHANGED <<rlListed, rlMoney>>

\* The live engine room is dropped, whatever its round is at; 404 when there is none.
RoomDeleted ==
  /\ rlListed \/ rlRoom # Absent
  /\ rlListed' = FALSE /\ rlRoom' = Absent
  /\ UNCHANGED <<rlLife, rlMoney>>

\* main(): a new service, with no rooms, no settlement rows and no credit under way.
ProcessRestarts ==
  /\ rlLife > 0
  /\ rlRoom' = Absent /\ rlListed' = FALSE
  /\ rlLoop' = <<>> /\ rlStage' = "record" /\ rlRow' = NoBet
  /\ rlStore' = [s \in BetSeqs |-> Unrecorded]
  /\ UNCHANGED <<rlLife, rlKeys, rlLoss, rlRowed, rlServed>>

LifeDeals ==
  /\ rlRoom.status = "idle" /\ rlRoom' = [rlRoom EXCEPT !.status = "betting"]
  /\ UNCHANGED <<rlLife, rlListed, rlMoney>>

\* place_bet: numbered in the room, from 1.
TakesBet ==
  /\ rlRoom.status = "betting" /\ Len(rlRoom.bets) < BetsPerLife
  /\ rlRoom' = [rlRoom EXCEPT !.bets =
       Append(@, [life |-> rlLife, seq |-> Len(@) + 1, pays |-> 0])]
  /\ UNCHANGED <<rlLife, rlListed, rlMoney>>

\* close_betting, calculate_result and settle: the rows are worked out, the round is CLOSED, and
\* the loop waits for the lock of the loops.  Simplified: threads get that lock in the order they
\* came for it; one that waits does not do so for longer than the next life's betting.
WorksOutRows ==
  /\ rlRoom.status = "betting" /\ rlRoom.bets # <<>>
  /\ \E won \in [DOMAIN rlRoom.bets -> Pays] :
       LET rows == [i \in DOMAIN rlRoom.bets |-> [rlRoom.bets[i] EXCEPT !.pays = won[i]]] IN
         /\ rlRoom' = [status |-> "closed", bets |-> rows]
         /\ rlLoop' = rlLoop \o rows
  /\ UNCHANGED <<rlLife, rlListed, rlStage, rlRow, rlStore, rlKeys, rlLoss, rlRowed, rlServed>>

\* The sweep visits the rooms there are, and goes through a parked round's rows again.
RetriesRows ==
  /\ rlRoom.status = "parked"
  /\ rlRoom' = [rlRoom EXCEPT !.status = "closed"] /\ rlLoop' = rlLoop \o rlRoom.bets
  /\ UNCHANGED <<rlLife, rlListed, rlStage, rlRow, rlStore, rlKeys, rlLoss, rlRowed, rlServed>>

(***************************************************************************)
(* The loop over the rows.                                                  *)
(***************************************************************************)
RowNow == Head(rlLoop)
NextRow == rlLoop' = Tail(rlLoop) /\ rlStage' = "record" /\ rlServed' = rlServed \cup {RowNow}

\* record: the first row stored under a bet's id stands.
RecordsFirst ==
  /\ rlLoop # <<>> /\ rlStage = "record" /\ rlStore[RowNow.seq] = Unrecorded
  /\ rlStore' = [rlStore EXCEPT ![RowNow.seq] = [bet |-> RowNow, credited |-> FALSE]]
  /\ rlRow' = RowNow /\ rlStage' = "credit" /\ rlRowed' = rlRowed \cup {<<RowNow.life, RowNow.seq>>}
  /\ UNCHANGED <<rlTable, rlLoop, rlKeys, rlLoss, rlServed>>

FindsRow ==
  /\ rlLoop # <<>> /\ rlStage = "record" /\ rlStore[RowNow.seq] # Unrecorded
  /\ IF rlStore[RowNow.seq].credited THEN NextRow /\ UNCHANGED rlRow
     ELSE rlRow' = rlStore[RowNow.seq].bet /\ rlStage' = "credit" /\ UNCHANGED <<rlLoop, rlServed>>
  /\ rlRowed' = rlRowed \cup {<<RowNow.life, RowNow.seq>>}
  /\ UNCHANGED <<rlTable, rlStore, rlKeys, rlLoss>>

\* The wallet moves money once under settle:<bet_id>, and replays the answer after that.
KeyUnused == rlKeys[RowNow.seq] = <<>>

MovesPay ==
  IF rlRow.pays > 0 /\ KeyUnused THEN [rlKeys EXCEPT ![RowNow.seq] = Append(@, rlRow)] ELSE rlKeys

PaysRow ==
  /\ rlLoop # <<>> /\ rlStage = "credit"
  /\ rlKeys' = MovesPay /\ rlStage' = "mark"
  /\ UNCHANGED <<rlTable, rlLoop, rlRow, rlStore, rlLoss, rlRowed, rlServed>>

\* What follows the rows of the call that RowNow is of: rows wait in the order of their lives.
NextCalls ==
  {SubSeq(rlLoop, n + 1, Len(rlLoop)) :
     n \in {m \in DOMAIN rlLoop : /\ \A i \in 1..m : rlLoop[i].life = RowNow.life
                                 /\ m < Len(rlLoop) => rlLoop[m + 1].life # RowNow.life}}

\* The credit fails, or its answer is lost: the call's other rows are left, and the round is
\* parked in its Room object, which no one visits when the room has been deleted.
PayFails ==
  /\ rlLoop # <<>> /\ rlStage = "credit" /\ rlRow.pays > 0
  /\ rlLoss < MaxLoss /\ rlLoss' = rlLoss + 1
  /\ rlKeys' \in {rlKeys, MovesPay}
  /\ rlLoop' \in NextCalls /\ rlStage' = "record"
  /\ rlRoom' = IF rlRoom # Absent /\ rlLife = RowNow.life THEN [rlRoom EXCEPT !.status = "parked"] ELSE rlRoom
  /\ UNCHANGED <<rlLife, rlListed, rlRow, rlStore, rlRowed, rlServed>>

MarksRow ==
  /\ rlLoop # <<>> /\ rlStage = "mark"
  /\ rlStore' = [rlStore EXCEPT ![RowNow.seq].credited = TRUE]
  /\ NextRow
  /\ UNCHANGED <<rlTable, rlRow, rlKeys, rlLoss, rlRowed>>

RlNext ==
  \/ RoomCreated \/ RoomNamed \/ RoomDeleted \/ ProcessRestarts \/ LifeDeals
  \/ TakesBet \/ WorksOutRows \/ RetriesRows \/ RecordsFirst \/ FindsRow \/ PaysRow \/ PayFails \/ MarksRow

RlSpec == RlInit /\ [][RlNext]_rlVars

(***************************************************************************)
(* Properties.                                                              *)
(***************************************************************************)
RlTypeOK ==
  /\ rlLife \in 0..LastLife /\ rlListed \in BOOLEAN
  /\ rlRoom.status \in {"absent", "idle", "betting", "closed", "parked"}
  /\ rlStage \in {"record", "credit", "mark"}
  /\ (rlStage # "record" => rlLoop # <<>>)
  /\ rlLoss \in 0..MaxLoss

\* "a double payout is impossible even across a restart" (README.md): the money of a bet id moves
\* at most once, so that nobody is paid twice for one bet.
PaidOncePerId == \A s \in BetSeqs : Len(rlKeys[s]) <= 1

GotItsPay(b) == b.pays = 0 \/ b \in {rlKeys[b.seq][i] : i \in DOMAIN rlKeys[b.seq]}
IdUsedBefore(b) == \E l \in 1..(b.life - 1) : <<l, b.seq>> \in rlRowed

\* A bet whose row was dealt with has been paid what its round owed it (service.py settle), unless
\* an earlier life of the room settled a bet of the same id.
UnpaidOnlyToReusedId == \A b \in rlServed : GotItsPay(b) \/ IdUsedBefore(b)

\* Not so, the promise without that premise, and common/lifecycle.py's "A round is
\* never silently abandoned with an unsettled pot":
EveryLifePaid == \A b \in rlServed : GotItsPay(b)
NoStakeStranded ==
  [][\A i \in DOMAIN rlRoom.bets : rlRoom.status = "betting" => rlRoom'.status # "absent"]_rlVars

RoomLivesSafe == PaidOncePerId /\ UnpaidOnlyToReusedId
=============================================================================
