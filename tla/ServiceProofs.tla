---------------------------- MODULE ServiceProofs ----------------------------
(***************************************************************************)
(* The stores and services around the game, one after the other: the       *)
(* invariant that is kept, that it holds at first, that every step keeps   *)
(* it, and what follows from it.  At the end the same is said of           *)
(* MCServices, where a behaviour is one of any of the services: whatever    *)
(* the numbers of calls, keys, tables, lives, bots, changes and rounds are, *)
(* each of them keeps its promise.                                         *)
(***************************************************************************)
EXTENDS MCServices, FoldLemmas, SequenceTheorems, TLAPS

-----------------------------------------------------------------------------
(* The lives of a room (service.py, engine.py, common/settlement.py).      *)

Bet == [life : Nat \ {0}, seq : BetSeqs, pays : Nat]

RowTypes ==
  /\ rlLife \in Nat
  /\ rlRoom \in [status : {"absent", "idle", "betting", "closed", "parked"}, bets : Seq(Bet)]
  /\ rlLoop \in Seq(Bet) /\ rlStage \in {"record", "credit", "mark"}
  /\ (rlStage # "record" => rlLoop # <<>>)
  /\ rlRow \in Bet \cup {NoBet}
  /\ rlStore \in [BetSeqs -> [bet : Bet \cup {NoBet}, credited : BOOLEAN]]
  /\ rlKeys \in [BetSeqs -> Seq(Bet)]
  /\ rlServed \subseteq Bet

\* A bet whose pay has been worked out, and that some row, key or room still has.
Decided(b) ==
  \/ \E i \in DOMAIN rlLoop : b = rlLoop[i]
  \/ \E s \in BetSeqs : b = rlStore[s].bet
  \/ \E s \in BetSeqs : \E i \in DOMAIN rlKeys[s] : b = rlKeys[s][i]
  \/ /\ rlRoom.status \in {"closed", "parked"}
     /\ \E i \in DOMAIN rlRoom.bets : b = rlRoom.bets[i]

\* Life and number say which bet it is, and so what it is owed.
BetsNamed == \A b, c \in Bet :
  Decided(b) /\ Decided(c) /\ b.life = c.life /\ b.seq = c.seq => b = c

\* A life that has yet to work out its rows has none anywhere.
LivesPast == \A b \in Bet :
  Decided(b) => b.life <= rlLife /\ (rlRoom.status \in {"idle", "betting"} => b.life < rlLife)

RoomBets ==
  /\ IF rlRoom.status = "absent" THEN rlRoom = Absent ELSE rlLife # 0
  /\ \A i \in DOMAIN rlRoom.bets : rlRoom.bets[i].life = rlLife /\ rlRoom.bets[i].seq = i

\* Rows wait in the order of their lives, behind every row that was stored or paid.
LoopOrder ==
  /\ \A i, j \in DOMAIN rlLoop : i <= j => rlLoop[i].life <= rlLoop[j].life
  /\ \A i \in DOMAIN rlLoop, s \in BetSeqs :
       /\ rlStore[s].bet.life <= rlLoop[i].life
       /\ \A k \in DOMAIN rlKeys[s] : rlKeys[s][k].life <= rlLoop[i].life

KeysSound == \A s \in BetSeqs :
  /\ Len(rlKeys[s]) <= 1
  /\ \A i \in DOMAIN rlKeys[s] : rlKeys[s][i].seq = s /\ <<rlKeys[s][i].life, s>> \in rlRowed

StoreSound == \A s \in BetSeqs :
  /\ rlStore[s].bet = NoBet => rlStore[s] = Unrecorded
  /\ rlStore[s].bet # NoBet => rlStore[s].bet.seq = s /\ <<rlStore[s].bet.life, s>> \in rlRowed
  /\ rlStore[s].credited => rlStore[s].bet.pays = 0 \/ rlKeys[s] # <<>>

\* The loop at work has the stored row of its bet's id, and marks what moved.
RowSound == rlStage # "record" =>
  /\ rlRow \in Bet /\ rlRow = rlStore[RowNow.seq].bet
  /\ rlStage = "mark" => rlRow.pays = 0 \/ rlKeys[RowNow.seq] # <<>>

LivesInv ==
  /\ RowTypes /\ BetsNamed /\ LivesPast /\ RoomBets /\ LoopOrder
  /\ KeysSound /\ StoreSound /\ RowSound /\ UnpaidOnlyToReusedId

-----------------------------------------------------------------------------
(* The lives of a room: lemmas.                                            *)

\* Fewer decided bets are named as well.
LEMMA NamesStay ==
  ASSUME BetsNamed, \A b \in Bet : Decided(b)' => Decided(b)
  PROVE  BetsNamed'
  BY DEF BetsNamed, Bet, BetSeqs

\* Money that moved stays, and so does what a served bet was told.
LEMMA ServedStays ==
  ASSUME UnpaidOnlyToReusedId, rlServed' = rlServed, rlRowed \subseteq rlRowed',
         \A s \in BetSeqs : rlKeys'[s] = rlKeys[s] \/ rlKeys[s] = <<>>, RowTypes, RowTypes'
  PROVE  UnpaidOnlyToReusedId'
<1> SUFFICES ASSUME NEW b \in rlServed'
             PROVE  (GotItsPay(b) \/ IdUsedBefore(b))'
  BY DEF UnpaidOnlyToReusedId
<1>1. b \in Bet /\ b.seq \in BetSeqs /\ (GotItsPay(b) \/ IdUsedBefore(b))
  BY DEF UnpaidOnlyToReusedId, RowTypes, Bet
<1>2. CASE GotItsPay(b)
  <2>1. CASE b.pays = 0
    BY <2>1 DEF GotItsPay
  <2>2. CASE b.pays # 0
    <3>1. PICK i \in DOMAIN rlKeys[b.seq] : b = rlKeys[b.seq][i]
      BY <1>2, <2>2 DEF GotItsPay
    <3>2. rlKeys'[b.seq] = rlKeys[b.seq]
      BY <1>1, <3>1
    <3> QED
      BY <3>1, <3>2 DEF GotItsPay
  <2> QED
    BY <2>1, <2>2
<1>3. CASE IdUsedBefore(b)
  BY <1>3 DEF IdUsedBefore
<1> QED
  BY <1>1, <1>2, <1>3

\* Of the parts of the invariant, those about money ask nothing of the room.
LEMMA MoneyStays ==
  ASSUME LivesInv, UNCHANGED rlMoney
  PROVE  LoopOrder' /\ KeysSound' /\ StoreSound' /\ RowSound' /\ UnpaidOnlyToReusedId'
<1> USE DEF rlMoney, LivesInv
<1>1. LoopOrder' /\ KeysSound' /\ StoreSound'
  BY DEF LoopOrder, KeysSound, StoreSound
<1>2. RowSound'
  BY DEF RowSound, RowNow
<1>3. UnpaidOnlyToReusedId'
  BY DEF UnpaidOnlyToReusedId, GotItsPay, IdUsedBefore
<1> QED
  BY <1>1, <1>2, <1>3

\* A room that is made, named, deleted or dealt, or takes a bet, decides nothing.
LEMMA TableStep ==
  ASSUME LivesInv, UNCHANGED rlMoney, rlRoom' \in [status : {"absent", "idle", "betting"}, bets : Seq(Bet)],
         \/ rlLife' = rlLife /\ (rlRoom'.status = "absent" \/ rlRoom.status \in {"idle", "betting"})
         \/ rlLife' = rlLife + 1,
         RoomBets'
  PROVE  LivesInv'
<1>1. RowTypes'
  BY DEF LivesInv, RowTypes, rlMoney
<1>2. \A b \in Bet : Decided(b)' => Decided(b)
  BY DEF Decided, rlMoney
<1>3. BetsNamed'
  BY <1>2, NamesStay DEF LivesInv
<1>4. LivesPast'
  <2> SUFFICES ASSUME NEW b \in Bet, Decided(b)'
               PROVE  b.life <= rlLife' /\ (rlRoom'.status \in {"idle", "betting"} => b.life < rlLife')
    BY DEF LivesPast
  <2>1. b.life <= rlLife /\ (rlRoom.status \in {"idle", "betting"} => b.life < rlLife)
    BY <1>2 DEF LivesInv, LivesPast
  <2>2. b.life \in Nat /\ rlLife \in Nat
    BY DEF Bet, LivesInv, RowTypes
  <2> QED
    BY <2>1, <2>2
<1> QED
  BY <1>1, <1>3, <1>4, MoneyStays DEF LivesInv

\* The row at the head of the loop, as the provers need it.
LEMMA HeadRow ==
  ASSUME LivesInv, rlLoop # <<>>
  PROVE  /\ 1 \in DOMAIN rlLoop /\ RowNow = rlLoop[1] /\ RowNow \in Bet /\ RowNow.seq \in BetSeqs
         /\ Decided(RowNow) /\ \A i \in DOMAIN rlLoop : RowNow.life <= rlLoop[i].life
<1>1. Len(rlLoop) \in Nat /\ Len(rlLoop) # 0 /\ DOMAIN rlLoop = 1..Len(rlLoop) /\ RowNow = rlLoop[1]
  BY DEF LivesInv, RowTypes, RowNow
<1>2. 1 \in DOMAIN rlLoop
  BY <1>1
<1>3. RowNow \in Bet
  BY <1>1, <1>2 DEF LivesInv, RowTypes
<1>4. \A i \in DOMAIN rlLoop : RowNow.life <= rlLoop[i].life
  BY <1>1, <1>2 DEF LivesInv, LoopOrder
<1> QED
  BY <1>1, <1>2, <1>3, <1>4 DEF Decided, Bet

\* A row whose money moved, or that owes none, or whose id paid somebody else, has been served.
LEMMA HeadServed ==
  ASSUME LivesInv, rlLoop # <<>>,
         rlStore[RowNow.seq].bet # NoBet,
         rlStore[RowNow.seq].bet.pays = 0 \/ rlKeys[RowNow.seq] # <<>>
  PROVE  GotItsPay(RowNow) \/ IdUsedBefore(RowNow)
<1> DEFINE s == RowNow.seq
           r == rlStore[RowNow.seq].bet
<1>1. s \in BetSeqs /\ RowNow \in Bet /\ Decided(RowNow) /\ 1 \in DOMAIN rlLoop /\ RowNow = rlLoop[1]
  BY HeadRow
<1>2. r \in Bet /\ r.seq = s /\ <<r.life, s>> \in rlRowed /\ Decided(r) /\ r.life <= RowNow.life
  BY <1>1 DEF LivesInv, RowTypes, StoreSound, Decided, LoopOrder
<1>3. CASE r.life < RowNow.life
  <2>1. r.life \in 1..(RowNow.life - 1)
    BY <1>1, <1>2, <1>3 DEF Bet
  <2> QED
    BY <1>2, <2>1 DEF IdUsedBefore
<1>4. CASE r.life = RowNow.life
  <2>1. r = RowNow
    BY <1>1, <1>2, <1>4 DEF LivesInv, BetsNamed
  <2>2. CASE RowNow.pays = 0
    BY <2>2 DEF GotItsPay
  <2>3. CASE rlKeys[s] # <<>>
    <3>1. 1 \in DOMAIN rlKeys[s] /\ rlKeys[s][1] \in Bet
      BY <1>1, <2>3 DEF LivesInv, RowTypes
    <3> DEFINE k == rlKeys[s][1]
    <3>2. k.seq = s /\ <<k.life, s>> \in rlRowed /\ Decided(k) /\ k.life <= RowNow.life
      BY <1>1, <3>1 DEF LivesInv, KeysSound, Decided, LoopOrder
    <3>3. CASE k.life = RowNow.life
      <4>1. k = RowNow
        BY <1>1, <3>1, <3>2, <3>3 DEF LivesInv, BetsNamed
      <4> QED
        BY <3>1, <4>1 DEF GotItsPay
    <3>4. CASE k.life # RowNow.life
      <4>1. k.life \in 1..(RowNow.life - 1)
        BY <1>1, <3>1, <3>2, <3>4 DEF Bet
      <4> QED
        BY <3>2, <4>1 DEF IdUsedBefore
    <3> QED
      BY <3>3, <3>4
  <2> QED
    BY <2>1, <2>2, <2>3
<1>5. r.life \in Nat /\ RowNow.life \in Nat
  BY <1>1, <1>2 DEF Bet
<1> QED
  BY <1>2, <1>3, <1>4, <1>5

-----------------------------------------------------------------------------
(* The lives of a room: the steps of the table.                            *)

LEMMA TableActions ==
  ASSUME LivesInv, RoomCreated \/ RoomNamed \/ RoomDeleted \/ LifeDeals \/ TakesBet
  PROVE  LivesInv'
<1> USE DEF LivesInv
<1>0. UNCHANGED rlMoney
  BY DEF RoomCreated, RoomNamed, RoomDeleted, LifeDeals, TakesBet
<1>1. CASE NewRoom
  <2>1. rlRoom' = [status |-> "idle", bets |-> <<>>] /\ rlLife' = rlLife + 1
    BY <1>1 DEF NewRoom, Absent
  <2>2. RoomBets'
    BY <2>1 DEF RoomBets, RowTypes
  <2> QED
    BY <1>0, <2>1, <2>2, TableStep
<1>2. CASE UNCHANGED <<rlRoom, rlLife>>
  <2>1. RowTypes' /\ LivesPast' /\ RoomBets'
    BY <1>0, <1>2 DEF RowTypes, LivesPast, RoomBets, Decided, rlMoney
  <2>2. \A b \in Bet : Decided(b)' => Decided(b)
    BY <1>0, <1>2 DEF Decided, rlMoney
  <2> QED
    BY <1>0, <2>1, <2>2, NamesStay, MoneyStays
<1>3. CASE RoomDeleted
  <2>1. rlRoom' = [status |-> "absent", bets |-> <<>>] /\ rlLife' = rlLife
    BY <1>3 DEF RoomDeleted, Absent
  <2>2. RoomBets'
    BY <2>1 DEF RoomBets, Absent
  <2> QED
    BY <1>0, <2>1, <2>2, TableStep
<1>4. CASE LifeDeals
  <2>1. rlRoom' = [status |-> "betting", bets |-> rlRoom.bets] /\ rlLife' = rlLife /\ rlRoom.status = "idle"
    BY <1>4 DEF LifeDeals, RowTypes
  <2>2. RoomBets'
    BY <2>1 DEF RoomBets
  <2> QED
    BY <1>0, <2>1, <2>2, TableStep DEF RowTypes
<1>5. CASE TakesBet
  <2> DEFINE n == Len(rlRoom.bets)
             new == [life |-> rlLife, seq |-> n + 1, pays |-> 0]
  <2>1. /\ rlRoom' = [status |-> "betting", bets |-> Append(rlRoom.bets, new)]
        /\ rlLife' = rlLife /\ rlRoom.status = "betting" /\ n < BetsPerLife
    BY <1>5 DEF TakesBet, RowTypes
  <2>2. rlRoom.bets \in Seq(Bet) /\ n \in Nat /\ rlLife \in Nat \ {0}
    BY <2>1 DEF RowTypes, RoomBets
  <2>3. new \in Bet
    BY <2>1, <2>2, LivesAssumption DEF Bet, BetSeqs
  <2>4. RoomBets'
    <3>1. \A i \in DOMAIN rlRoom'.bets : rlRoom'.bets[i].life = rlLife /\ rlRoom'.bets[i].seq = i
      <4>1. SUFFICES ASSUME NEW i \in 1..(n + 1)
                     PROVE  rlRoom'.bets[i].life = rlLife /\ rlRoom'.bets[i].seq = i
        BY <2>1, <2>2, <2>3
      <4>2. CASE i = n + 1
        BY <2>1, <2>2, <2>3, <4>2
      <4>3. CASE i \in 1..n
        <5>1. rlRoom'.bets[i] = rlRoom.bets[i] /\ i \in DOMAIN rlRoom.bets
          BY <2>1, <2>2, <2>3, <4>3
        <5> QED
          BY <5>1 DEF RoomBets
      <4> QED
        BY <2>2, <4>2, <4>3
    <3> QED
      BY <2>1, <2>2, <3>1 DEF RoomBets
  <2>5. rlRoom'.bets \in Seq(Bet)
    BY <2>1, <2>2, <2>3
  <2> QED
    BY <1>0, <2>1, <2>4, <2>5, TableStep
<1> QED
  BY <1>0, <1>1, <1>2, <1>3, <1>4, <1>5 DEF RoomCreated, RoomNamed

LEMMA RestartAction ==
  ASSUME LivesInv, ProcessRestarts
  PROVE  LivesInv'
<1> USE DEF LivesInv
<1>1. /\ rlRoom' = Absent /\ rlLoop' = <<>> /\ rlStage' = "record" /\ rlRow' = NoBet
      /\ rlStore' = [s \in BetSeqs |-> Unrecorded]
      /\ UNCHANGED <<rlLife, rlKeys, rlRowed, rlServed>>
  BY DEF ProcessRestarts
<1>2. RowTypes'
  BY <1>1 DEF RowTypes, Absent, Unrecorded
<1>3. \A b \in Bet : Decided(b)' => Decided(b)
  <2> SUFFICES ASSUME NEW b \in Bet, Decided(b)'
               PROVE  Decided(b)
    OBVIOUS
  <2>1. b # NoBet
    BY DEF Bet, NoBet
  <2>2. \A s \in BetSeqs : rlStore'[s].bet = NoBet
    BY <1>1 DEF Unrecorded
  <2> QED
    BY <1>1, <2>1, <2>2 DEF Decided, Absent
<1>4. LivesPast'
  BY <1>1, <1>3 DEF LivesPast, Absent
<1>5. RoomBets' /\ LoopOrder' /\ RowSound'
  BY <1>1 DEF RoomBets, LoopOrder, RowSound, Absent
<1>6. KeysSound' /\ StoreSound'
  BY <1>1 DEF KeysSound, StoreSound, Unrecorded, NoBet
<1>7. UnpaidOnlyToReusedId'
  BY <1>1 DEF UnpaidOnlyToReusedId, GotItsPay, IdUsedBefore
<1> QED
  BY <1>2, <1>3, <1>4, <1>5, <1>6, <1>7, NamesStay

-----------------------------------------------------------------------------
(* The lives of a room: rows joining the loop.                             *)

\* Rows of the life there is, each named by its number, join a loop that has none of them decided,
\* or is decided already.
LEMMA RowsJoin ==
  ASSUME LivesInv, NEW rows \in Seq(Bet), rlRoom.status # "absent",
         \A i \in DOMAIN rows : rows[i].life = rlLife /\ rows[i].seq = i,
         \/ rlRoom.status \in {"idle", "betting"}
         \/ rlRoom.status = "parked" /\ rlRoom.bets = rows,
         rlRoom' = [status |-> "closed", bets |-> rows], rlLoop' = rlLoop \o rows,
         UNCHANGED <<rlLife, rlListed, rlStage, rlRow, rlStore, rlKeys, rlLoss, rlRowed, rlServed>>
  PROVE  LivesInv'
<1> USE DEF LivesInv
<1> DEFINE n == Len(rlLoop)
           m == Len(rows)
<1>1. /\ rlLoop \in Seq(Bet) /\ n \in Nat /\ m \in Nat /\ rlLife \in Nat
      /\ DOMAIN rlLoop = 1..n /\ DOMAIN rows = 1..m
  BY DEF RowTypes
<1>2. /\ rlLoop' \in Seq(Bet) /\ DOMAIN rlLoop' = 1..(n + m)
      /\ \A i \in 1..n : rlLoop'[i] = rlLoop[i]
      /\ \A i \in (n + 1)..(n + m) : i - n \in 1..m /\ rlLoop'[i] = rows[i - n]
  BY <1>1
<1>3. RowTypes'
  <2>1. rlStage # "record" => rlLoop' # <<>>
    BY <1>1, <1>2 DEF RowTypes
  <2> QED
    BY <1>2, <2>1 DEF RowTypes
<1>4. ASSUME NEW b \in Bet, Decided(b)'
      PROVE  Decided(b) \/ \E i \in DOMAIN rows : b = rows[i]
  <2>1. ASSUME NEW i \in DOMAIN rlLoop', b = rlLoop'[i]
        PROVE  Decided(b) \/ \E j \in DOMAIN rows : b = rows[j]
    BY <1>1, <1>2, <2>1 DEF Decided
  <2> QED
    BY <1>4, <2>1 DEF Decided
<1>5. ASSUME NEW b \in Bet, NEW c \in Bet, Decided(b), \E i \in DOMAIN rows : c = rows[i],
             b.life = c.life, b.seq = c.seq
      PROVE  b = c
  <2>1. PICK i \in DOMAIN rows : c = rows[i]
    BY <1>5
  <2>2. CASE rlRoom.status \in {"idle", "betting"}
    <3>1. b.life < rlLife /\ c.life = rlLife /\ b.life \in Nat
      BY <2>1, <2>2, <1>5 DEF LivesPast, Bet
    <3> QED
      BY <1>1, <1>5, <3>1
  <2>3. CASE rlRoom.status = "parked" /\ rlRoom.bets = rows
    <3>1. Decided(c)
      BY <2>1, <2>3 DEF Decided
    <3> QED
      BY <1>5, <3>1 DEF BetsNamed
  <2> QED
    BY <2>2, <2>3
<1>6. BetsNamed'
  <2>1. ASSUME NEW b \in Bet, NEW c \in Bet, \E i \in DOMAIN rows : b = rows[i],
               \E i \in DOMAIN rows : c = rows[i], b.seq = c.seq
        PROVE  b = c
    BY <2>1
  <2>2. ASSUME NEW b \in Bet, NEW c \in Bet, Decided(b)', Decided(c)', b.life = c.life, b.seq = c.seq
        PROVE  b = c
    BY <1>4, <1>5, <2>1, <2>2 DEF BetsNamed
  <2> QED
    BY <2>2 DEF BetsNamed, Bet, BetSeqs
<1>7. LivesPast'
  <2> SUFFICES ASSUME NEW b \in Bet, Decided(b)'
               PROVE  b.life <= rlLife
    BY DEF LivesPast, Bet, BetSeqs
  <2>1. CASE Decided(b)
    BY <2>1 DEF LivesPast
  <2>2. CASE \E i \in DOMAIN rows : b = rows[i]
    BY <1>1, <2>2
  <2> QED
    BY <1>4, <2>1, <2>2
<1>8. RoomBets'
  <2>1. rlLife # 0
    BY DEF RoomBets
  <2> QED
    BY <2>1 DEF RoomBets
<1>9. ASSUME NEW i \in DOMAIN rlLoop
      PROVE  rlLoop[i].life <= rlLife /\ rlLoop[i].life \in Nat
  <2>1. rlLoop[i] \in Bet /\ Decided(rlLoop[i])
    BY <1>1 DEF Decided
  <2> QED
    BY <2>1 DEF LivesPast, Bet
<1>10. LoopOrder'
  <2>1. ASSUME NEW i \in DOMAIN rlLoop', NEW j \in DOMAIN rlLoop', i <= j
        PROVE  rlLoop'[i].life <= rlLoop'[j].life
    <3>1. CASE j \in 1..n
      <4>1. i \in 1..n
        BY <1>1, <1>2, <2>1, <3>1
      <4> QED
        BY <1>1, <1>2, <2>1, <3>1, <4>1 DEF LoopOrder
    <3>2. CASE j \in (n + 1)..(n + m)
      <4>1. rlLoop'[j].life = rlLife
        BY <1>1, <1>2, <3>2
      <4>2. CASE i \in 1..n
        BY <1>1, <1>2, <1>9, <4>1, <4>2
      <4>3. CASE i \in (n + 1)..(n + m)
        BY <1>1, <1>2, <4>1, <4>3
      <4> QED
        BY <1>1, <1>2, <4>2, <4>3
    <3> QED
      BY <1>1, <1>2, <3>1, <3>2
  <2>2. ASSUME NEW i \in DOMAIN rlLoop', NEW s \in BetSeqs
        PROVE  /\ rlStore[s].bet.life <= rlLoop'[i].life
               /\ \A k \in DOMAIN rlKeys[s] : rlKeys[s][k].life <= rlLoop'[i].life
    <3>1. CASE i \in 1..n
      BY <1>1, <1>2, <3>1 DEF LoopOrder
    <3>2. CASE i \in (n + 1)..(n + m)
      <4>1. rlLoop'[i].life = rlLife
        BY <1>1, <1>2, <3>2
      <4>2. rlStore[s].bet.life <= rlLife
        <5>1. CASE rlStore[s].bet = NoBet
          BY <1>1, <5>1 DEF NoBet
        <5>2. CASE rlStore[s].bet \in Bet
          BY <5>2 DEF LivesPast, Decided
        <5> QED
          BY <5>1, <5>2 DEF RowTypes
      <4>3. ASSUME NEW k \in DOMAIN rlKeys[s]
            PROVE  rlKeys[s][k].life <= rlLife
        <5>1. rlKeys[s][k] \in Bet /\ Decided(rlKeys[s][k])
          BY DEF RowTypes, Decided
        <5> QED
          BY <5>1 DEF LivesPast
      <4> QED
        BY <4>1, <4>2, <4>3
    <3> QED
      BY <1>1, <1>2, <3>1, <3>2
  <2> QED
    BY <2>1, <2>2 DEF LoopOrder
<1>11. KeysSound' /\ StoreSound'
  BY DEF KeysSound, StoreSound
<1>12. RowSound'
  <2>1. rlStage # "record" => RowNow' = RowNow
    BY <1>1, <1>2 DEF RowNow, RowTypes
  <2> QED
    BY <2>1 DEF RowSound
<1>13. UnpaidOnlyToReusedId'
  BY ZenonT(60) DEF UnpaidOnlyToReusedId, GotItsPay, IdUsedBefore
<1> QED
  BY <1>3, <1>6, <1>7, <1>8, <1>10, <1>11, <1>12, <1>13

LEMMA JoinActions ==
  ASSUME LivesInv, WorksOutRows \/ RetriesRows
  PROVE  LivesInv'
<1> USE DEF LivesInv
<1>1. CASE WorksOutRows
  <2>1. PICK won \in [DOMAIN rlRoom.bets -> Pays] :
          LET rows == [i \in DOMAIN rlRoom.bets |-> [rlRoom.bets[i] EXCEPT !.pays = won[i]]] IN
            rlRoom' = [status |-> "closed", bets |-> rows] /\ rlLoop' = rlLoop \o rows
    BY <1>1 DEF WorksOutRows
  <2> DEFINE rows == [i \in DOMAIN rlRoom.bets |-> [rlRoom.bets[i] EXCEPT !.pays = won[i]]]
  <2>2. rlRoom.bets \in Seq(Bet) /\ DOMAIN rlRoom.bets = 1..Len(rlRoom.bets) /\ Len(rlRoom.bets) \in Nat
    BY DEF RowTypes
  <2>3. ASSUME NEW i \in DOMAIN rlRoom.bets
        PROVE  rows[i] \in Bet /\ rows[i].life = rlLife /\ rows[i].seq = i
    <3>1. won[i] \in Nat
      BY LivesAssumption
    <3>2. rlRoom.bets[i] \in Bet
      BY <2>2, ElementOfSeq
    <3> QED
      BY <3>1, <3>2 DEF Bet, RoomBets
  <2>4. rows \in Seq(Bet)
    <3>1. \A i \in 1..Len(rlRoom.bets) : rows[i] \in Bet
      BY <2>2, <2>3
    <3>2. rows = [i \in 1..Len(rlRoom.bets) |-> rows[i]]
      BY <2>2
    <3> HIDE DEF rows
    <3> QED
      BY <2>2, <3>1, <3>2
  <2>5. rlRoom.status = "betting"
    BY SMTT(60), <1>1 DEF WorksOutRows
  <2>6. UNCHANGED <<rlLife, rlListed, rlStage, rlRow, rlStore, rlKeys, rlLoss, rlRowed, rlServed>>
    BY <1>1 DEF WorksOutRows
  <2>7. rlRoom' = [status |-> "closed", bets |-> rows] /\ rlLoop' = rlLoop \o rows
    BY <2>1
  <2>8. \A i \in DOMAIN rows : rows[i].life = rlLife /\ rows[i].seq = i
    BY <2>3
  <2> HIDE DEF rows
  <2> QED
    BY <2>4, <2>5, <2>6, <2>7, <2>8, RowsJoin
<1>2. CASE RetriesRows
  <2>1. /\ rlRoom.status = "parked" /\ rlRoom' = [status |-> "closed", bets |-> rlRoom.bets]
        /\ rlLoop' = rlLoop \o rlRoom.bets /\ rlRoom.bets \in Seq(Bet)
        /\ UNCHANGED <<rlLife, rlListed, rlStage, rlRow, rlStore, rlKeys, rlLoss, rlRowed, rlServed>>
    BY <1>2 DEF RetriesRows, RowTypes
  <2>2. \A i \in DOMAIN rlRoom.bets : rlRoom.bets[i].life = rlLife /\ rlRoom.bets[i].seq = i
    BY DEF RoomBets
  <2> QED
    BY <2>1, <2>2, RowsJoin
<1> QED
  BY <1>1, <1>2

-----------------------------------------------------------------------------
(* The lives of a room: the steps of the loop.                             *)

\* What is left of a sequence once its first n are gone.
LEMMA SuffixOf ==
  ASSUME NEW S, NEW q \in Seq(S), NEW n \in 0..Len(q)
  PROVE  /\ SubSeq(q, n + 1, Len(q)) \in Seq(S)
         /\ DOMAIN SubSeq(q, n + 1, Len(q)) = 1..(Len(q) - n)
         /\ \A i \in 1..(Len(q) - n) :
              i + n \in DOMAIN q /\ SubSeq(q, n + 1, Len(q))[i] = q[i + n]
<1>1. Len(q) \in Nat /\ DOMAIN q = 1..Len(q)
  OBVIOUS
<1>2. \A i \in (n + 1)..Len(q) : q[i] \in S
  BY <1>1
<1> QED
  BY <1>1, <1>2, SubSeqProperties

\* What a credit may change: nothing, or the empty key of the row at hand.
KeyPaid ==
  /\ rlRow \in Bet /\ Decided(rlRow) /\ rlRow.life <= RowNow.life /\ rlRow.seq = RowNow.seq
  /\ <<rlRow.life, rlRow.seq>> \in rlRowed
  /\ rlKeys[rlRow.seq] = <<>> /\ rlKeys' = [rlKeys EXCEPT ![rlRow.seq] = <<rlRow>>]

LEMMA PayMoves ==
  ASSUME LivesInv, rlLoop # <<>>, rlStage = "credit", rlKeys' = MovesPay
  PROVE  (rlKeys' = rlKeys \/ KeyPaid) /\ (rlRow.pays = 0 \/ rlKeys'[RowNow.seq] # <<>>)
<1> USE DEF LivesInv
<1>1. RowNow.seq \in BetSeqs /\ 1 \in DOMAIN rlLoop /\ RowNow = rlLoop[1]
  BY HeadRow
<1>2. rlRow \in Bet /\ rlRow = rlStore[RowNow.seq].bet /\ rlRow.pays \in Nat
  BY DEF RowSound, Bet
<1>3. rlRow # NoBet
  BY <1>2, LivesAssumption DEF Bet, BetSeqs, NoBet
<1>4. rlRow.seq = RowNow.seq /\ <<rlRow.life, rlRow.seq>> \in rlRowed /\ Decided(rlRow)
  BY <1>1, <1>2, <1>3 DEF StoreSound, Decided
<1>5. rlRow.life <= RowNow.life
  BY <1>1, <1>2 DEF LoopOrder
<1>6. rlKeys \in [BetSeqs -> Seq(Bet)]
  BY DEF RowTypes
<1>7. CASE rlRow.pays > 0 /\ KeyUnused
  <2>1. rlKeys[RowNow.seq] = <<>> /\ rlKeys' = [rlKeys EXCEPT ![RowNow.seq] = Append(@, rlRow)]
    BY <1>7 DEF KeyUnused, MovesPay
  <2>2. Append(rlKeys[RowNow.seq], rlRow) = <<rlRow>>
    BY <2>1, <1>2
  <2>3. rlKeys' = [rlKeys EXCEPT ![RowNow.seq] = <<rlRow>>]
    BY <2>1, <2>2
  <2>4. KeyPaid
    BY <1>2, <1>4, <1>5, <2>1, <2>3 DEF KeyPaid
  <2>5. rlKeys'[RowNow.seq] = <<rlRow>> /\ <<rlRow>> # <<>>
    BY <1>1, <1>6, <2>3
  <2> QED
    BY <2>4, <2>5
<1>8. CASE ~(rlRow.pays > 0 /\ KeyUnused)
  BY <1>2, <1>8 DEF KeyUnused, MovesPay
<1> QED
  BY <1>7, <1>8

\* The loop goes forward, a row is stored or one is paid: all that is then decided was before.
LEMMA LoopForward ==
  ASSUME LivesInv, rlLoop # <<>>, NEW n \in 0..Len(rlLoop),
         rlLoop' = SubSeq(rlLoop, n + 1, Len(rlLoop)), rlLife' = rlLife,
         \/ rlRoom' = rlRoom
         \/ /\ rlRoom.status \in {"closed", "parked"} /\ rlRoom'.status \in {"closed", "parked"}
            /\ rlRoom'.bets = rlRoom.bets,
         \A s \in BetSeqs : rlStore'[s].bet = rlStore[s].bet \/ rlStore'[s].bet = RowNow,
         rlKeys' = rlKeys \/ KeyPaid,
         rlRowed \subseteq rlRowed', RowTypes'
  PROVE  BetsNamed' /\ LivesPast' /\ RoomBets' /\ LoopOrder' /\ KeysSound'
<1> USE DEF LivesInv
<1> DEFINE m == Len(rlLoop) - n
<1>1. rlLoop \in Seq(Bet) /\ Len(rlLoop) \in Nat /\ DOMAIN rlLoop = 1..Len(rlLoop)
  BY DEF RowTypes
<1>2. DOMAIN rlLoop' = 1..m /\ \A i \in 1..m : i + n \in DOMAIN rlLoop /\ rlLoop'[i] = rlLoop[i + n]
  BY <1>1, SuffixOf
<1>3. RowNow \in Bet /\ Decided(RowNow) /\ \A i \in DOMAIN rlLoop : RowNow.life <= rlLoop[i].life
  BY HeadRow
<1>4. rlKeys \in [BetSeqs -> Seq(Bet)]
  BY DEF RowTypes
<1>5. ASSUME KeyPaid
      PROVE  /\ rlRow.seq \in BetSeqs /\ rlKeys'[rlRow.seq] = <<rlRow>>
             /\ DOMAIN rlKeys'[rlRow.seq] = {1} /\ rlKeys'[rlRow.seq][1] = rlRow
             /\ \A s \in BetSeqs : s # rlRow.seq => rlKeys'[s] = rlKeys[s]
  <2>1. rlRow.seq \in BetSeqs
    BY <1>5 DEF KeyPaid, Bet
  <2> QED
    BY <1>4, <1>5, <2>1 DEF KeyPaid
<1>6. ASSUME NEW s \in BetSeqs, NEW k \in DOMAIN rlKeys'[s]
      PROVE  \/ rlKeys'[s] = rlKeys[s]
             \/ rlKeys'[s][k] = rlRow /\ KeyPaid
  <2>1. CASE KeyPaid /\ s = rlRow.seq
    <3>1. k = 1
      BY <1>5, <1>6, <2>1
    <3> QED
      BY <1>5, <2>1, <3>1
  <2>2. CASE KeyPaid /\ s # rlRow.seq
    BY <1>5, <2>2
  <2>3. CASE rlKeys' = rlKeys
    BY <2>3
  <2> QED
    BY <2>1, <2>2, <2>3
<1>7. \A b \in Bet : Decided(b)' => Decided(b)
  <2> SUFFICES ASSUME NEW b \in Bet, Decided(b)'
               PROVE  Decided(b)
    OBVIOUS
  <2>1. CASE \E i \in DOMAIN rlLoop' : b = rlLoop'[i]
    BY <1>2, <2>1 DEF Decided
  <2>2. CASE \E s \in BetSeqs : b = rlStore'[s].bet
    BY <1>3, <2>2 DEF Decided
  <2>3. CASE \E s \in BetSeqs : \E i \in DOMAIN rlKeys'[s] : b = rlKeys'[s][i]
    <3>1. PICK s \in BetSeqs : \E i \in DOMAIN rlKeys'[s] : b = rlKeys'[s][i]
      BY <2>3
    <3>2. PICK i \in DOMAIN rlKeys'[s] : b = rlKeys'[s][i]
      BY <3>1
    <3>3. CASE rlKeys'[s] = rlKeys[s]
      BY <3>2, <3>3 DEF Decided
    <3>4. CASE b = rlRow /\ KeyPaid
      BY <3>4 DEF KeyPaid
    <3> QED
      BY <1>6, <3>2, <3>3, <3>4
  <2>4. CASE rlRoom'.status \in {"closed", "parked"} /\ \E i \in DOMAIN rlRoom'.bets : b = rlRoom'.bets[i]
    BY <2>4 DEF Decided
  <2> QED
    BY <2>1, <2>2, <2>3, <2>4 DEF Decided
<1>8. BetsNamed'
  BY <1>7, NamesStay
<1>9. LivesPast'
  BY <1>7 DEF LivesPast, Bet, BetSeqs
<1>10. RoomBets'
  BY DEF RoomBets
<1>11. LoopOrder'
  <2>1. \A i, j \in DOMAIN rlLoop' : i <= j => rlLoop'[i].life <= rlLoop'[j].life
    <3> SUFFICES ASSUME NEW i \in 1..m, NEW j \in 1..m, i <= j
                 PROVE  rlLoop'[i].life <= rlLoop'[j].life
      BY <1>2
    <3>1. i + n <= j + n /\ i + n \in DOMAIN rlLoop /\ j + n \in DOMAIN rlLoop
      BY <1>1, <1>2
    <3> QED
      BY <1>2, <3>1 DEF LoopOrder
  <2>2. ASSUME NEW i \in DOMAIN rlLoop', NEW s \in BetSeqs
        PROVE  rlStore'[s].bet.life <= rlLoop'[i].life
    <3>1. i + n \in DOMAIN rlLoop /\ rlLoop'[i] = rlLoop[i + n]
      BY <1>2
    <3> QED
      BY <1>3, <3>1 DEF LoopOrder
  <2>3. ASSUME NEW i \in DOMAIN rlLoop', NEW s \in BetSeqs, NEW k \in DOMAIN rlKeys'[s]
        PROVE  rlKeys'[s][k].life <= rlLoop'[i].life
    <3>1. i + n \in DOMAIN rlLoop /\ rlLoop'[i] = rlLoop[i + n]
      BY <1>2
    <3>2. CASE rlKeys'[s] = rlKeys[s]
      BY <3>1, <3>2 DEF LoopOrder
    <3>3. CASE rlKeys'[s][k] = rlRow /\ KeyPaid
      <4>1. rlRow.life <= RowNow.life /\ RowNow.life <= rlLoop[i + n].life
        BY <1>3, <3>1, <3>3 DEF KeyPaid
      <4>2. rlLoop[i + n] \in Bet
        BY <1>1, <3>1, ElementOfSeq
      <4>3. rlRow.life \in Nat /\ RowNow.life \in Nat /\ rlLoop[i + n].life \in Nat
        BY <1>3, <3>3, <4>2 DEF KeyPaid, Bet
      <4> QED
        BY SMTT(60), <3>1, <3>3, <4>1, <4>3
    <3> QED
      BY <1>6, <3>2, <3>3
  <2> QED
    BY <2>1, <2>2, <2>3 DEF LoopOrder
<1>12. KeysSound'
  <2> SUFFICES ASSUME NEW s \in BetSeqs
               PROVE  /\ Len(rlKeys'[s]) <= 1
                      /\ \A i \in DOMAIN rlKeys'[s] :
                           rlKeys'[s][i].seq = s /\ <<rlKeys'[s][i].life, s>> \in rlRowed'
    BY DEF KeysSound
  <2>1. CASE rlKeys'[s] = rlKeys[s]
    BY <2>1 DEF KeysSound
  <2>2. CASE KeyPaid /\ s = rlRow.seq
    <3>1. DOMAIN rlKeys'[s] = {1} /\ rlKeys'[s][1] = rlRow
      BY <1>5, <2>2
    <3>2. Len(rlKeys'[s]) = 1
      BY <1>5, <2>2
    <3>3. rlRow.seq = s /\ <<rlRow.life, s>> \in rlRowed'
      BY <2>2 DEF KeyPaid
    <3> QED
      BY <3>1, <3>2, <3>3
  <2> QED
    BY <1>5, <2>1, <2>2
<1> QED
  BY <1>8, <1>9, <1>10, <1>11, <1>12

\* As LoopForward, for a loop that stays where it is and one that takes its next row.
LEMMA LoopWhole ==
  ASSUME LivesInv, rlLoop # <<>>
  PROVE  /\ SubSeq(rlLoop, 0 + 1, Len(rlLoop)) = rlLoop /\ 0 \in 0..Len(rlLoop)
         /\ SubSeq(rlLoop, 1 + 1, Len(rlLoop)) = Tail(rlLoop) /\ 1 \in 0..Len(rlLoop)
         /\ Tail(rlLoop) \in Seq(Bet)
<1>1. rlLoop \in Seq(Bet) /\ Len(rlLoop) \in Nat
  BY DEF LivesInv, RowTypes
<1>2. Len(rlLoop) # 0
  BY <1>1
<1>3. SubSeq(rlLoop, 1, Len(rlLoop)) = rlLoop
  BY <1>1, SubSeqFull
<1>4. SubSeq(rlLoop, 2, Len(rlLoop)) = Tail(rlLoop) /\ Tail(rlLoop) \in Seq(Bet)
  BY <1>1, TailIsSubSeq, HeadTailProperties
<1> QED
  BY <1>1, <1>2, <1>3, <1>4

LEMMA RecordAction ==
  ASSUME LivesInv, RecordsFirst
  PROVE  LivesInv'
<1> USE DEF LivesInv
<1>1. /\ rlLoop # <<>> /\ rlStage = "record" /\ rlStore[RowNow.seq] = Unrecorded
      /\ rlStore' = [rlStore EXCEPT ![RowNow.seq] = [bet |-> RowNow, credited |-> FALSE]]
      /\ rlRow' = RowNow /\ rlStage' = "credit"
      /\ rlRowed' = rlRowed \cup {<<RowNow.life, RowNow.seq>>}
      /\ UNCHANGED <<rlLife, rlRoom, rlListed, rlLoop, rlKeys, rlLoss, rlServed>>
  BY DEF RecordsFirst, rlTable
<1>2. RowNow \in Bet /\ RowNow.seq \in BetSeqs
  BY <1>1, HeadRow
<1>3. /\ rlStore'[RowNow.seq] = [bet |-> RowNow, credited |-> FALSE]
      /\ \A s \in BetSeqs : s # RowNow.seq => rlStore'[s] = rlStore[s]
  BY <1>1, <1>2 DEF RowTypes
<1>4. RowTypes'
  BY <1>1, <1>2 DEF RowTypes
<1>5. BetsNamed' /\ LivesPast' /\ RoomBets' /\ LoopOrder' /\ KeysSound'
  <2>1. \A s \in BetSeqs : rlStore'[s].bet = rlStore[s].bet \/ rlStore'[s].bet = RowNow
    BY <1>3
  <2>2. rlLoop' = SubSeq(rlLoop, 0 + 1, Len(rlLoop)) /\ 0 \in 0..Len(rlLoop)
    BY <1>1, LoopWhole
  <2> QED
    BY <1>1, <1>4, <2>1, <2>2, LoopForward
<1>6. StoreSound'
  <2> SUFFICES ASSUME NEW s \in BetSeqs
               PROVE  /\ rlStore'[s].bet = NoBet => rlStore'[s] = Unrecorded
                      /\ rlStore'[s].bet # NoBet =>
                           rlStore'[s].bet.seq = s /\ <<rlStore'[s].bet.life, s>> \in rlRowed'
                      /\ rlStore'[s].credited => rlStore'[s].bet.pays = 0 \/ rlKeys'[s] # <<>>
    BY DEF StoreSound
  <2>1. CASE s = RowNow.seq
    <3>1. RowNow # NoBet
      BY <1>2, LivesAssumption DEF Bet, BetSeqs, NoBet
    <3> QED
      BY <1>1, <1>3, <2>1, <3>1
  <2>2. CASE s # RowNow.seq
    BY <1>1, <1>3, <2>2 DEF StoreSound
  <2> QED
    BY <2>1, <2>2
<1>7. RowSound'
  <2>1. RowNow' = RowNow
    BY <1>1 DEF RowNow
  <2> QED
    BY <1>1, <1>2, <1>3, <2>1 DEF RowSound
<1>8. UnpaidOnlyToReusedId'
  BY <1>1, <1>4, ServedStays
<1> QED
  BY <1>4, <1>5, <1>6, <1>7, <1>8

\* The row at the head has been served, and the next one is at the head.
LEMMA RowServed ==
  ASSUME LivesInv, rlLoop # <<>>, NextRow,
         GotItsPay(RowNow) \/ IdUsedBefore(RowNow),
         UNCHANGED <<rlLife, rlRoom, rlKeys>>, rlRowed \subseteq rlRowed',
         rlRow' \in Bet \cup {NoBet},
         rlStore' \in [BetSeqs -> [bet : Bet \cup {NoBet}, credited : BOOLEAN]],
         \A s \in BetSeqs : rlStore'[s].bet = rlStore[s].bet
  PROVE  /\ RowTypes' /\ BetsNamed' /\ LivesPast' /\ RoomBets' /\ LoopOrder' /\ KeysSound'
         /\ RowSound' /\ UnpaidOnlyToReusedId'
<1> USE DEF LivesInv
<1>1. rlLoop' = Tail(rlLoop) /\ rlStage' = "record" /\ rlServed' = rlServed \cup {RowNow}
  BY DEF NextRow
<1>2. RowNow \in Bet
  BY HeadRow
<1>3. RowTypes'
  BY <1>1, <1>2, LoopWhole DEF RowTypes
<1>4. BetsNamed' /\ LivesPast' /\ RoomBets' /\ LoopOrder' /\ KeysSound'
  <2>1. rlLoop' = SubSeq(rlLoop, 1 + 1, Len(rlLoop)) /\ 1 \in 0..Len(rlLoop)
    BY <1>1, LoopWhole
  <2> QED
    BY <1>3, <2>1, LoopForward
<1>5. RowSound'
  BY <1>1 DEF RowSound
<1>6. UnpaidOnlyToReusedId'
  <2> SUFFICES ASSUME NEW b \in rlServed'
               PROVE  (GotItsPay(b) \/ IdUsedBefore(b))'
    BY DEF UnpaidOnlyToReusedId
  <2>1. GotItsPay(b) \/ IdUsedBefore(b)
    BY <1>1 DEF UnpaidOnlyToReusedId
  <2> QED
    BY <2>1 DEF GotItsPay, IdUsedBefore
<1> QED
  BY <1>3, <1>4, <1>5, <1>6

LEMMA FindAction ==
  ASSUME LivesInv, FindsRow
  PROVE  LivesInv'
<1> USE DEF LivesInv
<1>1. /\ rlLoop # <<>> /\ rlStage = "record" /\ rlStore[RowNow.seq] # Unrecorded
      /\ rlRowed' = rlRowed \cup {<<RowNow.life, RowNow.seq>>}
      /\ UNCHANGED <<rlLife, rlRoom, rlListed, rlStore, rlKeys, rlLoss>>
  BY DEF FindsRow, rlTable
<1>2. RowNow \in Bet /\ RowNow.seq \in BetSeqs
  BY <1>1, HeadRow
<1>3. rlStore[RowNow.seq].bet \in Bet /\ rlStore[RowNow.seq].bet # NoBet
  BY ZenonT(60), <1>1, <1>2 DEF StoreSound, RowTypes
<1>4. StoreSound'
  BY <1>1 DEF StoreSound
<1>5. CASE rlStore[RowNow.seq].credited
  <2>1. NextRow /\ UNCHANGED rlRow
    BY <1>5 DEF FindsRow
  <2>2. GotItsPay(RowNow) \/ IdUsedBefore(RowNow)
    BY <1>1, <1>2, <1>3, <1>5, HeadServed DEF StoreSound
  <2>3. rlRow' \in Bet \cup {NoBet} /\ rlStore' \in [BetSeqs -> [bet : Bet \cup {NoBet}, credited : BOOLEAN]]
    BY <1>1, <2>1 DEF RowTypes
  <2> QED
    BY <1>1, <1>4, <2>1, <2>2, <2>3, RowServed
<1>6. CASE ~rlStore[RowNow.seq].credited
  <2>1. /\ rlRow' = rlStore[RowNow.seq].bet /\ rlStage' = "credit"
        /\ UNCHANGED <<rlLoop, rlServed>>
    BY <1>6 DEF FindsRow
  <2>2. RowTypes'
    BY <1>1, <1>3, <2>1 DEF RowTypes
  <2>3. BetsNamed' /\ LivesPast' /\ RoomBets' /\ LoopOrder' /\ KeysSound'
    <3>1. rlLoop' = SubSeq(rlLoop, 0 + 1, Len(rlLoop)) /\ 0 \in 0..Len(rlLoop)
      BY <1>1, <2>1, LoopWhole
    <3> QED
      BY <1>1, <2>2, <3>1, LoopForward
  <2>4. RowSound'
    <3>1. RowNow' = RowNow
      BY <2>1 DEF RowNow
    <3> QED
      BY <1>1, <1>3, <2>1, <3>1 DEF RowSound
  <2>5. UnpaidOnlyToReusedId'
    BY <1>1, <2>1, <2>2, ServedStays
  <2> QED
    BY <1>4, <2>2, <2>3, <2>4, <2>5
<1> QED
  BY <1>5, <1>6

\* A credit leaves the rows stored, and whatever served bets were told.
LEMMA KeysGrow ==
  ASSUME LivesInv, rlKeys' = rlKeys \/ KeyPaid, rlStore' = rlStore, UNCHANGED <<rlRowed, rlServed>>,
         RowTypes'
  PROVE  StoreSound' /\ UnpaidOnlyToReusedId'
<1> USE DEF LivesInv
<1>1. \A s \in BetSeqs : rlKeys'[s] = rlKeys[s] \/ rlKeys[s] = <<>>
  BY DEF KeyPaid, RowTypes
<1>2. UnpaidOnlyToReusedId'
  BY <1>1, ServedStays
<1>3. StoreSound'
  <2> SUFFICES ASSUME NEW s \in BetSeqs, rlStore[s].credited, rlStore[s].bet.pays # 0
               PROVE  rlKeys'[s] # <<>>
    BY DEF StoreSound
  <2>1. rlKeys[s] # <<>>
    BY DEF StoreSound
  <2> QED
    BY <1>1, <2>1
<1> QED
  BY <1>2, <1>3

LEMMA PayTypes ==
  ASSUME LivesInv, rlKeys' = rlKeys \/ KeyPaid
  PROVE  rlKeys' \in [BetSeqs -> Seq(Bet)]
<1>1. CASE rlKeys' = rlKeys
  BY <1>1 DEF LivesInv, RowTypes
<1>2. CASE KeyPaid
  <2>1. <<rlRow>> \in Seq(Bet)
    BY <1>2 DEF KeyPaid
  <2> QED
    BY <1>2, <2>1 DEF KeyPaid, LivesInv, RowTypes
<1> QED
  BY <1>1, <1>2

LEMMA PayAction ==
  ASSUME LivesInv, PaysRow
  PROVE  LivesInv'
<1> USE DEF LivesInv
<1>1. /\ rlLoop # <<>> /\ rlStage = "credit" /\ rlKeys' = MovesPay /\ rlStage' = "mark"
      /\ UNCHANGED <<rlLife, rlRoom, rlListed, rlLoop, rlRow, rlStore, rlLoss, rlRowed, rlServed>>
  BY DEF PaysRow, rlTable
<1>2. (rlKeys' = rlKeys \/ KeyPaid) /\ (rlRow.pays = 0 \/ rlKeys'[RowNow.seq] # <<>>)
  BY <1>1, PayMoves
<1>3. RowTypes'
  BY <1>1, <1>2, PayTypes DEF RowTypes
<1>4. BetsNamed' /\ LivesPast' /\ RoomBets' /\ LoopOrder' /\ KeysSound'
  <2>1. rlLoop' = SubSeq(rlLoop, 0 + 1, Len(rlLoop)) /\ 0 \in 0..Len(rlLoop)
    BY <1>1, LoopWhole
  <2> QED
    BY <1>1, <1>2, <1>3, <2>1, LoopForward
<1>5. RowSound'
  <2>1. RowNow' = RowNow
    BY <1>1 DEF RowNow
  <2> QED
    BY <1>1, <1>2, <2>1 DEF RowSound
<1> QED
  BY <1>1, <1>2, <1>3, <1>4, <1>5, KeysGrow

LEMMA FailAction ==
  ASSUME LivesInv, PayFails
  PROVE  LivesInv'
<1> USE DEF LivesInv
<1>1. /\ rlLoop # <<>> /\ rlStage = "credit" /\ rlKeys' \in {rlKeys, MovesPay}
      /\ rlStage' = "record" /\ rlLoop' \in NextCalls
      /\ rlRoom' = IF rlRoom # Absent /\ rlLife = RowNow.life THEN [rlRoom EXCEPT !.status = "parked"] ELSE rlRoom
      /\ UNCHANGED <<rlLife, rlListed, rlRow, rlStore, rlRowed, rlServed>>
  BY DEF PayFails
<1>2. rlKeys' = rlKeys \/ KeyPaid
  BY <1>1, PayMoves
<1>3. PICK n \in DOMAIN rlLoop : rlLoop' = SubSeq(rlLoop, n + 1, Len(rlLoop))
  BY <1>1 DEF NextCalls
<1>4. n \in 0..Len(rlLoop) /\ rlLoop' \in Seq(Bet)
  BY <1>3, SuffixOf DEF RowTypes
<1>5. \/ rlRoom' = rlRoom
      \/ /\ rlRoom.status \in {"closed", "parked"} /\ rlRoom'.status \in {"closed", "parked"}
         /\ rlRoom'.bets = rlRoom.bets /\ rlRoom' = [rlRoom EXCEPT !.status = "parked"]
  <2>1. CASE rlRoom # Absent /\ rlLife = RowNow.life
    <3>1. RowNow \in Bet /\ Decided(RowNow) /\ rlLife \in Nat
      BY <1>1, HeadRow DEF RowTypes
    <3>2. rlRoom.status \notin {"idle", "betting"}
      BY <2>1, <3>1 DEF LivesPast
    <3>3. rlRoom.status # "absent"
      BY <2>1 DEF RoomBets
    <3> QED
      BY <1>1, <2>1, <3>2, <3>3 DEF RowTypes
  <2> QED
    BY <1>1, <2>1
<1>6. RowTypes'
  BY <1>1, <1>2, <1>4, <1>5, PayTypes DEF RowTypes
<1>7. BetsNamed' /\ LivesPast' /\ RoomBets' /\ LoopOrder' /\ KeysSound'
  BY <1>1, <1>2, <1>3, <1>4, <1>5, <1>6, LoopForward
<1>8. RowSound'
  BY <1>1 DEF RowSound
<1> QED
  BY <1>1, <1>2, <1>6, <1>7, <1>8, KeysGrow

LEMMA MarkAction ==
  ASSUME LivesInv, MarksRow
  PROVE  LivesInv'
<1> USE DEF LivesInv
<1>1. /\ rlLoop # <<>> /\ rlStage = "mark" /\ NextRow
      /\ rlStore' = [rlStore EXCEPT ![RowNow.seq].credited = TRUE]
      /\ UNCHANGED <<rlLife, rlRoom, rlListed, rlRow, rlKeys, rlLoss, rlRowed>>
  BY DEF MarksRow, rlTable
<1>2. RowNow.seq \in BetSeqs
  BY <1>1, HeadRow
<1>3. /\ rlRow = rlStore[RowNow.seq].bet /\ rlRow # NoBet
      /\ (rlRow.pays = 0 \/ rlKeys[RowNow.seq] # <<>>)
  BY <1>1, LivesAssumption DEF RowSound, Bet, BetSeqs, NoBet
<1>4. GotItsPay(RowNow) \/ IdUsedBefore(RowNow)
  BY <1>1, <1>3, HeadServed
<1>5. rlStore' \in [BetSeqs -> [bet : Bet \cup {NoBet}, credited : BOOLEAN]]
  BY ZenonT(60), <1>1 DEF RowTypes
<1>6. \A s \in BetSeqs : rlStore'[s].bet = rlStore[s].bet /\ (s # RowNow.seq => rlStore'[s] = rlStore[s])
  BY <1>1, <1>2 DEF RowTypes
<1>7. StoreSound'
  <2> SUFFICES ASSUME NEW s \in BetSeqs
               PROVE  /\ rlStore'[s].bet = NoBet => rlStore'[s] = Unrecorded
                      /\ rlStore'[s].bet # NoBet =>
                           rlStore'[s].bet.seq = s /\ <<rlStore'[s].bet.life, s>> \in rlRowed'
                      /\ rlStore'[s].credited => rlStore'[s].bet.pays = 0 \/ rlKeys'[s] # <<>>
    BY DEF StoreSound
  <2>1. CASE s = RowNow.seq
    BY <1>1, <1>3, <1>6, <2>1 DEF StoreSound
  <2>2. CASE s # RowNow.seq
    BY <1>1, <1>6, <2>2 DEF StoreSound
  <2> QED
    BY <2>1, <2>2
<1>8. rlRow' \in Bet \cup {NoBet}
  BY <1>1 DEF RowTypes
<1> QED
  BY <1>1, <1>4, <1>5, <1>6, <1>7, <1>8, RowServed

-----------------------------------------------------------------------------
(* The lives of a room: the theorem.                                       *)

LEMMA InvStarts == RlInit => LivesInv
<1> SUFFICES ASSUME RlInit
             PROVE  LivesInv
  OBVIOUS
<1>1. RowTypes
  BY DEF RlInit, RowTypes, Absent, Unrecorded
<1>2. \A b \in Bet : ~Decided(b)
  <2>1. \A b \in Bet : b # NoBet
    BY LivesAssumption DEF Bet, BetSeqs, NoBet
  <2> QED
    BY <2>1 DEF RlInit, Decided, Absent, Unrecorded
<1>3. BetsNamed /\ LivesPast
  BY <1>2 DEF BetsNamed, LivesPast
<1>4. RoomBets /\ LoopOrder /\ RowSound /\ UnpaidOnlyToReusedId
  BY DEF RlInit, RoomBets, LoopOrder, RowSound, UnpaidOnlyToReusedId, Absent
<1>5. KeysSound /\ StoreSound
  BY DEF RlInit, KeysSound, StoreSound, Unrecorded
<1> QED
  BY <1>1, <1>3, <1>4, <1>5 DEF LivesInv

LEMMA InvStays == LivesInv /\ [RlNext]_rlVars => LivesInv'
<1> SUFFICES ASSUME LivesInv, [RlNext]_rlVars
             PROVE  LivesInv'
  OBVIOUS
<1>1. CASE RlNext
  BY <1>1, TableActions, RestartAction, JoinActions, RecordAction, FindAction, PayAction, FailAction,
     MarkAction DEF RlNext
<1>2. CASE UNCHANGED rlVars
  <2>1. UNCHANGED rlMoney /\ UNCHANGED <<rlRoom, rlLife>>
    BY <1>2 DEF rlVars, rlMoney
  <2>2. RowTypes' /\ LivesPast' /\ RoomBets'
    BY <2>1 DEF LivesInv, RowTypes, LivesPast, RoomBets, Decided, rlMoney
  <2>3. \A b \in Bet : Decided(b)' => Decided(b)
    BY <2>1 DEF Decided, rlMoney
  <2> QED
    BY <2>1, <2>2, <2>3, NamesStay, MoneyStays DEF LivesInv
<1> QED
  BY <1>1, <1>2

\* Whatever lives a room has had, and whatever was lost on the way: the money of a bet id moves at
\* most once, and a bet that was dealt with goes unpaid only if its id was settled before
\* (service.py settle and _room, engine.py place_bet, common/settlement.py record).
THEOREM LivesSafety == RlSpec => []RoomLivesSafe
<1>1. LivesInv => RoomLivesSafe
  BY DEF LivesInv, RoomLivesSafe, KeysSound, PaidOncePerId
<1> QED
  BY <1>1, InvStarts, InvStays, PTL DEF RlSpec

-----------------------------------------------------------------------------
(* The provider wallet (provider/ledger.py, result_store.py).              *)

Past == {"guarding", "paying", "moved", "appended"}
Holds(c) == pwAt[c] \in Past

\* A call that is past its claim holds it, and its guard from when it has it.
ClaimsHeld ==
  \A c \in WalletCalls : Holds(c) =>
    /\ pwStore[pwReq[c].key] = InFlight
    /\ \A d \in WalletCalls : Holds(d) /\ pwReq[d].key = pwReq[c].key => d = c
    /\ pwReq[c].op = "rollback" /\ pwAt[c] # "guarding" => pwGuard[pwReq[c].ref] = c

\* A movement is of the request of its call, and of a rollback the guard remembers it.
MovesGuarded ==
  \A m \in pwMoves :
    /\ pwAt[m.by] # "idle" /\ m.req = pwReq[m.by]
    /\ m.req.op = "rollback" => m.req.ref \in pwForgot \/ pwGuard[m.req.ref] = m.by

\* What the store has under a key is a row, and an appended row is its call's.
StoredRows == \A k \in WalletNames : pwStore[k] \in {Unclaimed, InFlight} \cup DOMAIN pwLedger
OwnRows ==
  \A c \in WalletCalls : pwAt[c] = "appended" => pwRow[c] \in DOMAIN pwLedger /\ pwLedger[pwRow[c]] = pwReq[c]

\* Until its call appends there is no row under a key that was not forgotten, and once a call is
\* answered under it the store has the row of the answer.
NoRowYet ==
  \A c \in WalletCalls :
    pwAt[c] \in {"guarding", "paying", "moved"} /\ pwReq[c].key \notin pwForgot =>
      \A i \in DOMAIN pwLedger : pwLedger[i].key # pwReq[c].key
AnswerStored ==
  \A c \in WalletCalls :
    pwAt[c] = "answered" /\ pwReq[c].key \notin pwForgot =>
      /\ pwStore[pwReq[c].key] = pwRow[c] /\ pwRow[c] \in DOMAIN pwLedger
      /\ Fingerprint(pwLedger[pwRow[c]]) = Fingerprint(pwReq[c])
FreeUnused ==
  \A k \in WalletNames \ pwForgot : pwStore[k] = Unclaimed => \A i \in DOMAIN pwLedger : pwLedger[i].key # k

RowsKept == StoredRows /\ OwnRows /\ NoRowYet /\ AnswerStored /\ FreeUnused

Asked ==
  /\ PWTypeOK
  /\ \A c \in WalletCalls : pwAt[c] # "idle" => pwReq[c] \in WalletRequests

PWInv == Asked /\ ClaimsHeld /\ MovesGuarded /\ RowsKept

\* A set of positions of a sequence has a last one.
LEMMA LargestOf ==
  ASSUME NEW n \in Nat, NEW I \in SUBSET (1..n), I # {} PROVE \E i \in I : \A j \in I : j <= i
<1> DEFINE B == {n - i : i \in I}
<1>1. IsFiniteSet(0..n)
  BY FS_Interval
<1>2. B \subseteq 0..n /\ B \in SUBSET Nat /\ B # {}
  <2>1. \A i \in I : n - i \in 0..n /\ n - i \in Nat
    OBVIOUS
  <2>2. PICK i \in I : TRUE
    OBVIOUS
  <2> QED BY <2>1, <2>2
<1>3. IsFiniteSet(B)
  BY <1>1, <1>2, FS_Subset
<1>4. Min(B) \in B /\ \A b \in B : Min(B) <= b
  BY <1>2, <1>3, LeastMember
<1>5. PICK i \in I : Min(B) = n - i
  BY <1>4
<1>6. ASSUME NEW j \in I PROVE j <= i
  <2>1. n - i <= n - j
    BY <1>4, <1>5
  <2> QED BY <2>1
<1> QED BY <1>6

LEMMA WalletInit == PWInit => PWInv
BY DEF PWInit, PWInv, Asked, PWTypeOK, ClaimsHeld, MovesGuarded, RowsKept, StoredRows, OwnRows, NoRowYet, AnswerStored, FreeUnused, Holds, Past, NoRequest, Unclaimed, InFlight

LEMMA WalletStep == PWInv /\ [PWNext]_pwVars => PWInv'
<1> SUFFICES ASSUME PWInv, [PWNext]_pwVars PROVE PWInv'
  OBVIOUS
<1> USE DEF PWInv
<1>r. \A req \in WalletRequests :
        req.op \in {"debit", "credit", "rollback"} /\ req.key \in WalletNames /\ req.ref \in WalletNames
  BY WalletAssumption
<1>n. NoCall \notin WalletCalls
  BY WalletAssumption
<1>1. ASSUME NEW c \in WalletCalls, PWSend(c) PROVE PWInv'
  <2>1. Asked'
    BY <1>1, <1>r DEF PWSend, PWGoes, Asked, PWTypeOK
  <2>2. ClaimsHeld'
    BY <1>1, <1>r DEF PWSend, PWGoes, Asked, PWTypeOK, ClaimsHeld, Holds, Past
  <2>3. MovesGuarded'
    BY <1>1, <1>r DEF PWSend, PWGoes, Asked, PWTypeOK, MovesGuarded
  <2>4. RowsKept'
    BY <1>1, <1>r DEF PWSend, PWGoes, Asked, PWTypeOK, RowsKept, StoredRows, OwnRows, NoRowYet, AnswerStored, FreeUnused, Fingerprint
  <2> QED BY <2>1, <2>2, <2>3, <2>4
<1>2. ASSUME NEW c \in WalletCalls, PWFind(c) \/ PWStops(c) PROVE PWInv'
  <2>0. /\ pwAt[c] # "idle" /\ UNCHANGED <<pwReq, pwRow, pwStore, pwGuard, pwLedger, pwMoves, pwForgot>>
        /\ \E to \in {"found", "refused", "stopped"} : pwAt' = [pwAt EXCEPT ![c] = to]
    BY <1>2 DEF PWFind, PWStops, PWGoes
  <2>1. Asked'
    BY <2>0 DEF Asked, PWTypeOK
  <2>2. ClaimsHeld'
    BY <2>0 DEF Asked, PWTypeOK, ClaimsHeld, Holds, Past
  <2>3. MovesGuarded'
    BY <2>0 DEF Asked, PWTypeOK, MovesGuarded
  <2>4. RowsKept'
    BY <2>0 DEF Asked, PWTypeOK, RowsKept, StoredRows, OwnRows, NoRowYet, AnswerStored, FreeUnused, Fingerprint
  <2> QED BY <2>1, <2>2, <2>3, <2>4
<1>11. ASSUME NEW c \in WalletCalls, PWReplay(c) PROVE PWInv'
  <2> DEFINE k == pwReq[c].key
             same == pwStore[k] > 0 /\ Fingerprint(pwLedger[pwStore[k]]) = Fingerprint(pwReq[c])
  <2>0. /\ pwAt[c] \in {"new", "found"} /\ UNCHANGED <<pwReq, pwStore, pwGuard, pwLedger, pwMoves, pwForgot>>
        /\ pwAt' = [pwAt EXCEPT ![c] = IF same THEN "answered" ELSE "refused"]
        /\ pwRow' = [pwRow EXCEPT ![c] = IF same THEN pwStore[k] ELSE 0]
    BY <1>11 DEF PWReplay, PWStarts
  <2>k. k \in WalletNames /\ pwStore[k] \in {Unclaimed, InFlight} \cup DOMAIN pwLedger
    BY <1>r, <2>0 DEF Asked, RowsKept, StoredRows
  <2>s. same => pwStore[k] \in DOMAIN pwLedger /\ pwStore[k] \in Nat
    BY <2>k DEF Unclaimed, InFlight, Asked, PWTypeOK
  <2>1. Asked'
    <3>1. pwRow' \in [WalletCalls -> Nat]
      BY <2>0, <2>s DEF Asked, PWTypeOK
    <3> QED BY <2>0, <3>1 DEF Asked, PWTypeOK
  <2>2. ClaimsHeld'
    BY <2>0 DEF Asked, PWTypeOK, ClaimsHeld, Holds, Past
  <2>3. MovesGuarded'
    BY <2>0 DEF Asked, PWTypeOK, MovesGuarded
  <2>4. RowsKept'
    <3>1. AnswerStored'
      <4> SUFFICES ASSUME NEW d \in WalletCalls, pwAt'[d] = "answered", pwReq[d].key \notin pwForgot
                   PROVE  /\ pwStore[pwReq[d].key] = pwRow'[d] /\ pwRow'[d] \in DOMAIN pwLedger
                          /\ Fingerprint(pwLedger[pwRow'[d]]) = Fingerprint(pwReq[d])
        <5>1. UNCHANGED <<pwReq, pwForgot, pwStore, pwLedger>>
          BY <2>0
        <5> QED BY ZenonT(60), <5>1 DEF AnswerStored, Fingerprint
      <4>1. CASE d = c
        <5>1. same /\ pwRow'[d] = pwStore[k]
          BY <2>0, <4>1 DEF Asked, PWTypeOK
        <5> QED BY <4>1, <5>1, <2>s
      <4>2. CASE d # c
        <5>1. pwAt[d] = "answered" /\ pwRow'[d] = pwRow[d]
          BY <2>0, <4>2 DEF Asked, PWTypeOK
        <5> QED BY <5>1 DEF RowsKept, AnswerStored
      <4> QED BY SMTT(60), <4>1, <4>2
    <3>2. StoredRows' /\ OwnRows' /\ NoRowYet' /\ FreeUnused'
      BY <2>0 DEF Asked, PWTypeOK, RowsKept, StoredRows, OwnRows, NoRowYet, FreeUnused
    <3> QED BY <3>1, <3>2 DEF RowsKept
  <2> QED BY <2>1, <2>2, <2>3, <2>4
<1>3. ASSUME NEW c \in WalletCalls, PWClaim(c) PROVE PWInv'
  <2>0. pwReq[c] \in WalletRequests /\ ~Holds(c)
    BY <1>3 DEF PWClaim, PWStarts, Asked, Holds, Past
  <2>1. Asked'
    BY <1>3, <1>r, <2>0 DEF PWClaim, PWStarts, Asked, PWTypeOK, InFlight
  <2>2. ClaimsHeld'
    BY <1>3, <1>r, <2>0 DEF PWClaim, PWStarts, Asked, PWTypeOK, ClaimsHeld, Holds, Past, InFlight, Unclaimed
  <2>3. MovesGuarded'
    BY <1>3 DEF PWClaim, PWStarts, Asked, PWTypeOK, MovesGuarded
  <2>4. RowsKept'
    BY <1>3, <1>r, <2>0 DEF PWClaim, PWStarts, Asked, PWTypeOK, RowsKept, StoredRows, OwnRows, NoRowYet, AnswerStored, FreeUnused, Fingerprint, InFlight, Unclaimed
  <2> QED BY <2>1, <2>2, <2>3, <2>4
<1>4. ASSUME NEW c \in WalletCalls, PWGuard(c) PROVE PWInv'
  <2>0. pwReq[c] \in WalletRequests /\ pwReq[c].ref \in WalletNames
    BY <1>4, <1>r DEF PWGuard, PWGoes, Asked, Holds, Past
  <2>1. Asked'
    BY <1>4, <2>0 DEF PWGuard, PWGoes, Asked, PWTypeOK
  <2>2. ClaimsHeld'
    BY <1>4, <1>r, <1>n, <2>0 DEF PWGuard, PWGoes, Asked, PWTypeOK, ClaimsHeld, Holds, Past
  <2>3. MovesGuarded'
    BY <1>4, <1>n, <2>0 DEF PWGuard, PWGoes, Asked, PWTypeOK, MovesGuarded
  <2>4. RowsKept'
    BY <1>4, <1>r DEF PWGuard, PWGoes, Asked, PWTypeOK, RowsKept, StoredRows, OwnRows, NoRowYet, AnswerStored, FreeUnused, Fingerprint
  <2> QED BY <2>1, <2>2, <2>3, <2>4
<1>5. ASSUME NEW c \in WalletCalls, PWGuardHeld(c) PROVE PWInv'
  <2> DEFINE k == pwReq[c].key
             rows == RowsOf(k)
             mine == rows # {} /\ pwLedger[Newest(rows)].op = "rollback" /\ pwLedger[Newest(rows)].ref = pwReq[c].ref
  <2>0. /\ pwAt[c] = "guarding" /\ UNCHANGED <<pwReq, pwStore, pwGuard, pwLedger, pwMoves, pwForgot>>
        /\ pwAt' = [pwAt EXCEPT ![c] = IF mine THEN "answered" ELSE "refused"]
        /\ pwRow' = [pwRow EXCEPT ![c] = IF mine THEN Newest(rows) ELSE 0]
    BY <1>5 DEF PWGuardHeld, PWGoes
  <2>l. pwLedger \in Seq(WalletRequests) /\ DOMAIN pwLedger \subseteq Nat
    BY DEF Asked, PWTypeOK
  \* The newest of the rows is one of them, filed under the key as a rollback.
  <2>m. mine => Newest(rows) \in DOMAIN pwLedger /\ pwLedger[Newest(rows)].key = k
    <3> SUFFICES ASSUME mine PROVE Newest(rows) \in DOMAIN pwLedger /\ pwLedger[Newest(rows)].key = k
      OBVIOUS
    <3>1. rows \subseteq DOMAIN pwLedger /\ rows # {} /\ rows \subseteq 1..Len(pwLedger)
      BY <2>l DEF RowsOf
    <3>2. PICK i \in rows : \A j \in rows : j <= i
      <4> HIDE DEF rows
      <4>1. Len(pwLedger) \in Nat
        BY <2>l
      <4> QED BY <3>1, <4>1, LargestOf
    <3>3. Newest(rows) \in rows
      BY <3>2 DEF Newest
    <3> QED BY <3>1, <3>3 DEF RowsOf, RowReference
  <2>f. mine => k \in pwForgot
    BY <2>0, <2>m DEF RowsKept, StoredRows, OwnRows, NoRowYet, AnswerStored, FreeUnused
  <2>1. Asked'
    <3>1. pwRow' \in [WalletCalls -> Nat]
      BY <2>0, <2>m, <2>l DEF Asked, PWTypeOK
    <3> QED BY <2>0, <3>1 DEF Asked, PWTypeOK
  <2>2. ClaimsHeld'
    BY <2>0 DEF Asked, PWTypeOK, ClaimsHeld, Holds, Past
  <2>3. MovesGuarded'
    BY SMTT(60), <2>0 DEF Asked, PWTypeOK, MovesGuarded
  <2>4. RowsKept'
    BY <2>0, <2>f DEF Asked, PWTypeOK, RowsKept, StoredRows, OwnRows, NoRowYet, AnswerStored, FreeUnused, Fingerprint
  <2> QED BY <2>1, <2>2, <2>3, <2>4
<1>6. ASSUME NEW c \in WalletCalls, PWAdapter(c) PROVE PWInv'
  <2>0. pwReq[c] \in WalletRequests /\ Holds(c)
    BY <1>6 DEF PWAdapter, PWGoes, Asked, Holds, Past
  <2>1. Asked'
    BY <1>6, <2>0 DEF PWAdapter, PWGoes, Asked, PWTypeOK
  <2>2. ClaimsHeld'
    BY <1>6 DEF PWAdapter, PWGoes, Asked, PWTypeOK, ClaimsHeld, Holds, Past
  <2>3. MovesGuarded'
    BY <1>6, <2>0 DEF PWAdapter, PWGoes, Asked, PWTypeOK, MovesGuarded, ClaimsHeld, Holds
  <2>4. RowsKept'
    BY <1>6, <1>r DEF PWAdapter, PWGoes, Asked, PWTypeOK, RowsKept, StoredRows, OwnRows, NoRowYet, AnswerStored, FreeUnused, Fingerprint
  <2> QED BY <2>1, <2>2, <2>3, <2>4
<1>7. ASSUME NEW c \in WalletCalls, PWAppend(c) PROVE PWInv'
  <2>0. /\ pwReq[c] \in WalletRequests /\ Holds(c) /\ pwAt[c] = "moved" /\ pwAt' = [pwAt EXCEPT ![c] = "appended"]
        /\ pwLedger' = Append(pwLedger, pwReq[c]) /\ pwRow' = [pwRow EXCEPT ![c] = Len(pwLedger) + 1]
        /\ UNCHANGED <<pwReq, pwStore, pwGuard, pwMoves, pwForgot>>
    BY <1>7 DEF PWAppend, PWGoes, Asked, Holds, Past
  <2>l. pwLedger \in Seq(WalletRequests) /\ Len(pwLedger) \in Nat /\ DOMAIN pwLedger = 1..Len(pwLedger)
    BY DEF Asked, PWTypeOK
  <2>a. /\ DOMAIN pwLedger' = 1..(Len(pwLedger) + 1) /\ pwLedger'[Len(pwLedger) + 1] = pwReq[c]
        /\ \A i \in DOMAIN pwLedger : i \in DOMAIN pwLedger' /\ pwLedger'[i] = pwLedger[i]
    BY <2>0, <2>l
  <2>1. Asked'
    <3>1. pwLedger' \in Seq(WalletRequests) /\ pwRow' \in [WalletCalls -> Nat]
      BY <2>0, <2>l DEF Asked, PWTypeOK
    <3> QED BY <2>0, <3>1 DEF Asked, PWTypeOK
  <2>2. ClaimsHeld'
    BY <2>0 DEF Asked, PWTypeOK, ClaimsHeld, Holds, Past
  <2>3. MovesGuarded'
    BY <2>0 DEF Asked, PWTypeOK, MovesGuarded
  <2>4. RowsKept'
    <3>1. \A i \in DOMAIN pwLedger' : i \in DOMAIN pwLedger \/ i = Len(pwLedger) + 1
      BY <2>a, <2>l
    <3>2. StoredRows'
      BY <2>0, <2>a DEF RowsKept, StoredRows
    <3>3. OwnRows'
      <4> SUFFICES ASSUME NEW d \in WalletCalls, pwAt'[d] = "appended"
                   PROVE  pwRow'[d] \in DOMAIN pwLedger' /\ pwLedger'[pwRow'[d]] = pwReq[d]
        BY <2>0 DEF OwnRows
      <4>1. CASE d = c
        <5>1. pwRow'[d] = Len(pwLedger) + 1
          BY <2>0, <4>1 DEF Asked, PWTypeOK
        <5> QED BY <4>1, <5>1, <2>a, <2>l
      <4>2. CASE d # c
        <5>1. pwAt[d] = "appended" /\ pwRow'[d] = pwRow[d]
          BY <2>0, <4>2 DEF Asked, PWTypeOK
        <5> QED BY <5>1, <2>a DEF RowsKept, OwnRows
      <4> QED BY <4>1, <4>2
    <3>4. \A d \in WalletCalls : Holds(d) /\ pwReq[d].key = pwReq[c].key => d = c
      BY <2>0 DEF ClaimsHeld
    <3>5. pwStore[pwReq[c].key] = InFlight
      BY <2>0 DEF ClaimsHeld
    <3>6. NoRowYet'
      BY <2>0, <2>a, <3>1, <3>4 DEF RowsKept, NoRowYet, Holds, Past, Asked, PWTypeOK
    <3>7. FreeUnused'
      BY <2>0, <2>a, <3>1, <3>5 DEF RowsKept, FreeUnused, Unclaimed, InFlight
    <3>8. AnswerStored'
      BY <2>0, <2>a DEF RowsKept, AnswerStored, Asked, PWTypeOK, Fingerprint
    <3> QED BY <3>2, <3>3, <3>6, <3>7, <3>8 DEF RowsKept
  <2> QED BY <2>1, <2>2, <2>3, <2>4
<1>8. ASSUME NEW c \in WalletCalls, PWFinish(c) PROVE PWInv'
  <2>0. /\ pwReq[c] \in WalletRequests /\ Holds(c) /\ pwAt[c] = "appended" /\ pwAt' = [pwAt EXCEPT ![c] = "answered"]
        /\ pwStore' = [pwStore EXCEPT ![pwReq[c].key] = pwRow[c]] /\ pwReq[c].key \in WalletNames
        /\ UNCHANGED <<pwReq, pwRow, pwGuard, pwLedger, pwMoves, pwForgot>>
    BY <1>8, <1>r DEF PWFinish, PWGoes, Asked, Holds, Past
  <2>h. /\ pwStore[pwReq[c].key] = InFlight
        /\ \A d \in WalletCalls : Holds(d) /\ pwReq[d].key = pwReq[c].key => d = c
    BY <2>0 DEF ClaimsHeld
  <2>w. pwRow[c] \in DOMAIN pwLedger /\ pwLedger[pwRow[c]] = pwReq[c] /\ pwRow[c] \in Nat \ {0}
    BY <2>0 DEF RowsKept, StoredRows, OwnRows, NoRowYet, AnswerStored, FreeUnused, Asked, PWTypeOK
  <2>1. Asked'
    BY <2>0, <2>w DEF Asked, PWTypeOK
  <2>2. ClaimsHeld'
    BY <2>0, <2>h DEF Asked, PWTypeOK, ClaimsHeld, Holds, Past
  <2>3. MovesGuarded'
    BY <2>0 DEF Asked, PWTypeOK, MovesGuarded
  <2>4. RowsKept'
    <3>1. \A d \in WalletCalls : pwAt[d] = "answered" /\ pwReq[d].key \notin pwForgot =>
             pwReq[d].key # pwReq[c].key
      BY <2>h DEF RowsKept, StoredRows, OwnRows, NoRowYet, AnswerStored, FreeUnused, InFlight, Asked, PWTypeOK
    <3> QED BY <2>0, <2>w, <3>1 DEF RowsKept, StoredRows, OwnRows, NoRowYet, AnswerStored, FreeUnused, Fingerprint, Asked, PWTypeOK, Unclaimed
  <2> QED BY <2>1, <2>2, <2>3, <2>4
<1>9. ASSUME NEW n \in WalletNames, PWExpires(n) PROVE PWInv'
  <2>1. Asked'
    BY <1>9 DEF PWExpires, Asked, PWTypeOK, Unclaimed
  <2>2. ClaimsHeld'
    BY <1>9 DEF PWExpires, Asked, PWTypeOK, ClaimsHeld, Holds, Past
  <2>3. MovesGuarded'
    BY <1>9 DEF PWExpires, Asked, PWTypeOK, MovesGuarded
  <2>4. RowsKept'
    BY <1>9, <1>r DEF PWExpires, Asked, PWTypeOK, RowsKept, StoredRows, OwnRows, NoRowYet, AnswerStored, FreeUnused, Fingerprint, InFlight, Unclaimed
  <2> QED BY <2>1, <2>2, <2>3, <2>4
<1>10. CASE UNCHANGED pwVars
  BY <1>10 DEF pwVars, Asked, PWTypeOK, ClaimsHeld, MovesGuarded, RowsKept, StoredRows, OwnRows, NoRowYet, AnswerStored, FreeUnused, Holds, Past
<1> QED
  BY <1>1, <1>2, <1>3, <1>4, <1>5, <1>6, <1>7, <1>8, <1>9, <1>10, <1>11 DEF PWNext

LEMMA WalletKeeps == PWInv => RefundedOnce /\ OneAnswerPerKey
<1>1. PWInv => RefundedOnce
  BY SMTT(60) DEF PWInv, Asked, PWTypeOK, MovesGuarded, RefundedOnce
<1>2. PWInv => OneAnswerPerKey
  BY DEF PWInv, RowsKept, AnswerStored, OneAnswerPerKey
<1> QED BY <1>1, <1>2

-----------------------------------------------------------------------------
(* The tables of the provider API (provider/sessions.py, router.py).       *)

\* The stages of a request match what it asked for.
StagesMatch ==
  /\ DOMAIN ptReq = TableCalls /\ \A s \in ptSessions : ptAt[s] # "idle"
  /\ \A c \in TableCalls :
       /\ ptAt[c] = "idle" => ptReq[c].op = "none"
       /\ ptAt[c] # "idle" => ptReq[c].table \in TableIds /\ ptReq[c].player \in TablePlayers
       /\ ptAt[c] = "opening" => ptReq[c].op = "create"
       /\ ptAt[c] = "counted" => ptReq[c].op = "join"
       /\ ptAt[c] \in {"joined", "accepted"} => ptReq[c].op \in {"create", "join"}
       /\ ptAt[c] \in {"revoking", "ending", "unseating"} => ptReq[c].op = "delete"

Seats(c) == ptAt[c] \in {"joined", "accepted"} /\ ~ptAlready[c] /\ ~Unseats(ptReq[c].player, ptReq[c].table)

\* A request that took the seat itself finds it taken, and no other request took it.
SeatTaken ==
  \A c \in TableCalls : Seats(c) =>
    /\ ptReq[c].player \in ptMembers[ptReq[c].table]
    /\ \A d \in TableCalls : Seats(d) /\ ptReq[d].player = ptReq[c].player /\ ptReq[d].table = ptReq[c].table => d = c

Active(c) == ptAt[c] \notin CallOver

\* While requests come one after the other and no session is opened on a full table, a table has
\* room for the seat that is being taken, or the one that was taken is given up.
RoomLeft ==
  ~ptOverlap /\ ~ptForced =>
    /\ \A c, d \in TableCalls : Active(c) /\ Active(d) => c = d
    /\ \A t \in TableIds : SeatCount(t) <= MaxPlayers \/ \E c \in TableCalls : ptAt[c] = "joined" /\ ptReq[c].table = t
    /\ \A c \in TableCalls :
         /\ ptAt[c] = "opening" => SeatCount(ptReq[c].table) < MaxPlayers
         /\ ptAt[c] = "counted" => ptCount[c] = SeatCount(ptReq[c].table)
         /\ ptAt[c] = "joined" =>
              IF PtFull(c) THEN Cardinality(ptMembers[ptReq[c].table] \ {ptReq[c].player}) <= MaxPlayers
                           ELSE SeatCount(ptReq[c].table) <= MaxPlayers

MembersFinite == \A t \in TableIds : IsFiniteSet(ptMembers[t])

PtInv == PtTypeOK /\ StagesMatch /\ SeatTaken /\ MembersFinite /\ RoomLeft

LEMMA TablesInit == PtInit => PtInv
<1> SUFFICES ASSUME PtInit PROVE PtInv
  OBVIOUS
<1>1. PtTypeOK /\ StagesMatch /\ SeatTaken
  BY DEF PtInit, PtTypeOK, StagesMatch, SeatTaken, Seats, CallOver
<1>2. MembersFinite
  BY FS_EmptySet DEF PtInit, MembersFinite
<1>3. RoomLeft
  BY FS_EmptySet, TablesAssumption DEF PtInit, RoomLeft, Active, CallOver, SeatCount
<1> QED BY <1>1, <1>2, <1>3 DEF PtInv

\* The steps, by what they do to a request and to the table it names.
Begins(c) == PtCreates(c) \/ PtCounts(c) \/ PtLeaves(c) \/ PtDeletes(c)
Proceeds(c) == PtJoins(c) \/ PtRefuses(c) \/ PtAccepts(c) \/ PtFails(c) \/ PtRevokes(c) \/ PtEnds(c) \/ PtUnseats(c)

LEMMA TablesTypes ==
  ASSUME PtTypeOK, StagesMatch, MembersFinite, NEW c \in TableCalls, Begins(c) \/ Proceeds(c)
  PROVE  PtTypeOK' /\ StagesMatch' /\ MembersFinite'
<1>t. ptMembers \in [TableIds -> SUBSET TablePlayers] /\ ptSessions \subseteq TableCalls
  BY DEF PtTypeOK
<1>n. \A t \in TableIds : SeatCount(t) \in Nat
  BY FS_CardinalityType DEF SeatCount, MembersFinite
<1>1. ASSUME PtCreates(c) PROVE PtTypeOK' /\ StagesMatch' /\ UNCHANGED ptMembers
  BY <1>1, <1>t DEF PtCreates, Serves, PtStep, PtTypeOK, StagesMatch, CallOver
<1>2. ASSUME PtCounts(c) PROVE PtTypeOK' /\ StagesMatch' /\ UNCHANGED ptMembers
  BY <1>2, <1>n DEF PtCounts, Serves, PtStep, PtTypeOK, StagesMatch, CallOver
<1>3. ASSUME PtLeaves(c) PROVE PtTypeOK' /\ StagesMatch' /\ MembersFinite'
  <2>1. PICK p \in TablePlayers, t \in TableIds : ptMembers' = [ptMembers EXCEPT ![t] = @ \ {p}]
    BY <1>3 DEF PtLeaves
  <2>2. MembersFinite'
    BY <2>1, <1>t, FS_RemoveElement DEF MembersFinite
  <2>3. PtTypeOK' /\ StagesMatch'
    BY <1>3, <1>t DEF PtLeaves, Serves, PtStep, PtTypeOK, StagesMatch, CallOver
  <2> QED BY <2>2, <2>3
<1>4. ASSUME PtDeletes(c) PROVE PtTypeOK' /\ StagesMatch' /\ UNCHANGED ptMembers
  BY <1>4, <1>t DEF PtDeletes, Serves, PtStep, PtTypeOK, StagesMatch, CallOver
<1>5. ASSUME PtJoins(c) PROVE PtTypeOK' /\ StagesMatch' /\ MembersFinite'
  BY <1>5, <1>t, FS_AddElement DEF PtJoins, PtStep, PtTypeOK, StagesMatch, CallOver, MembersFinite
<1>6. ASSUME PtRefuses(c) PROVE PtTypeOK' /\ StagesMatch' /\ MembersFinite'
  <2>1. ptMembers' = [ptMembers EXCEPT ![ptReq[c].table] = @ \ {ptReq[c].player}]
    BY <1>6 DEF PtRefuses
  <2>2. \A t \in TableIds : ptMembers'[t] = ptMembers[t] \/ ptMembers'[t] = ptMembers[t] \ {ptReq[c].player}
    BY <2>1, <1>t
  <2>3. MembersFinite'
    BY <2>2, FS_RemoveElement DEF MembersFinite
  <2>4. ptMembers' \in [TableIds -> SUBSET TablePlayers]
    BY <2>1, <1>t
  <2>5. PtTypeOK'
    BY <1>6, <2>4 DEF PtRefuses, PtStep, PtTypeOK, CallOver
  <2>6. StagesMatch'
    BY <1>6 DEF PtRefuses, PtStep, PtTypeOK, StagesMatch, CallOver
  <2> QED BY <2>3, <2>5, <2>6
<1>7. ASSUME PtAccepts(c) PROVE PtTypeOK' /\ StagesMatch' /\ UNCHANGED ptMembers
  BY <1>7, <1>t DEF PtAccepts, PtStep, PtTypeOK, StagesMatch, CallOver
<1>8. ASSUME PtFails(c) PROVE PtTypeOK' /\ StagesMatch' /\ UNCHANGED ptMembers
  BY <1>8, <1>t DEF PtFails, PtStep, PtTypeOK, StagesMatch, CallOver
<1>9. ASSUME PtRevokes(c) PROVE PtTypeOK' /\ StagesMatch' /\ UNCHANGED ptMembers
  BY <1>9, <1>t DEF PtRevokes, PtStep, PtTypeOK, StagesMatch, CallOver
<1>10. ASSUME PtEnds(c) PROVE PtTypeOK' /\ StagesMatch' /\ UNCHANGED ptMembers
  BY <1>10, <1>t DEF PtEnds, PtStep, PtTypeOK, StagesMatch, CallOver
<1>11. ASSUME PtUnseats(c) PROVE PtTypeOK' /\ StagesMatch' /\ MembersFinite'
  <2>1. ptMembers' = [ptMembers EXCEPT ![ptReq[c].table] = @ \ {ptReq[c].player}]
    BY <1>11 DEF PtUnseats
  <2>2. \A t \in TableIds : ptMembers'[t] = ptMembers[t] \/ ptMembers'[t] = ptMembers[t] \ {ptReq[c].player}
    BY <2>1, <1>t
  <2>3. MembersFinite'
    BY <2>2, FS_RemoveElement DEF MembersFinite
  <2>4. ptMembers' \in [TableIds -> SUBSET TablePlayers]
    BY <2>1, <1>t
  <2>5. PtTypeOK'
    BY <1>11, <2>4 DEF PtUnseats, PtStep, PtTypeOK, CallOver
  <2>6. StagesMatch'
    BY <1>11 DEF PtUnseats, PtStep, PtTypeOK, StagesMatch, CallOver
  <2> QED BY <2>3, <2>5, <2>6
<1>12. ASSUME UNCHANGED ptMembers PROVE MembersFinite'
  BY <1>12 DEF MembersFinite
<1> QED
  BY <1>1, <1>2, <1>3, <1>4, <1>5, <1>6, <1>7, <1>8, <1>9, <1>10, <1>11, <1>12 DEF Begins, Proceeds

LEMMA SeatsStay ==
  ASSUME PtTypeOK, StagesMatch, SeatTaken, NEW c \in TableCalls, Begins(c) \/ Proceeds(c)
  PROVE  SeatTaken'
<1>t. /\ ptMembers \in [TableIds -> SUBSET TablePlayers] /\ ptAlready \in [TableCalls -> BOOLEAN]
      /\ DOMAIN ptAt = TableCalls
  BY DEF PtTypeOK
<1>1. ASSUME PtCreates(c) PROVE SeatTaken'
  BY <1>1, <1>t DEF PtCreates, Serves, PtStep, StagesMatch, SeatTaken, Seats, Unseats
<1>2. ASSUME PtCounts(c) PROVE SeatTaken'
  BY <1>2, <1>t DEF PtCounts, Serves, PtStep, StagesMatch, SeatTaken, Seats, Unseats
<1>3. ASSUME PtLeaves(c) PROVE SeatTaken'
  BY <1>3, <1>t DEF PtLeaves, Serves, PtStep, StagesMatch, SeatTaken, Seats, Unseats
<1>4. ASSUME PtDeletes(c) PROVE SeatTaken'
  BY <1>4, <1>t DEF PtDeletes, Serves, PtStep, StagesMatch, SeatTaken, Seats, Unseats
<1>5. ASSUME PtJoins(c) PROVE SeatTaken'
  <2> DEFINE t == ptReq[c].table
             p == ptReq[c].player
  <2>1. /\ ptAt' = [ptAt EXCEPT ![c] = "joined"] /\ ptAt[c] \in {"opening", "counted"} /\ UNCHANGED ptReq
        /\ ptAlready' = [ptAlready EXCEPT ![c] = p \in ptMembers[t]]
        /\ ptMembers' = [ptMembers EXCEPT ![t] = @ \cup {p}]
        /\ t \in TableIds
    BY <1>5 DEF PtJoins, PtStep, StagesMatch
  <2>2. \A q, u : Unseats(q, u)' <=> Unseats(q, u)
    BY <2>1 DEF Unseats
  <2>3. \A d \in TableCalls : d # c => (Seats(d)' <=> Seats(d))
    BY <2>1, <2>2, <1>t DEF Seats
  <2>4. Seats(c)' => p \notin ptMembers[t] /\ ~Unseats(p, t)
    BY <2>1, <2>2, <1>t DEF Seats
  <2>5. \A d \in TableCalls : Seats(d)' =>
          /\ ptReq[d].player \in ptMembers'[ptReq[d].table]
          /\ d # c /\ Seats(c)' => ~(ptReq[d].player = p /\ ptReq[d].table = t)
    BY <2>1, <2>3, <2>4, <1>t DEF SeatTaken, StagesMatch, Seats
  <2> QED BY <2>1, <2>3, <2>5 DEF SeatTaken
<1>6. ASSUME PtRefuses(c) PROVE SeatTaken'
  BY <1>6, <1>t DEF PtRefuses, PtFull, PtStep, StagesMatch, SeatTaken, Seats, Unseats
<1>7. ASSUME PtAccepts(c) PROVE SeatTaken'
  BY <1>7, <1>t DEF PtAccepts, PtStep, StagesMatch, SeatTaken, Seats, Unseats
<1>8. ASSUME PtFails(c) PROVE SeatTaken'
  BY <1>8, <1>t DEF PtFails, PtStep, StagesMatch, SeatTaken, Seats, Unseats
<1>9. ASSUME PtRevokes(c) \/ PtEnds(c) PROVE SeatTaken'
  BY <1>9, <1>t DEF PtRevokes, PtEnds, PtStep, StagesMatch, SeatTaken, Seats, Unseats
<1>11. ASSUME PtUnseats(c) PROVE SeatTaken'
  BY <1>11, <1>t DEF PtUnseats, PtStep, StagesMatch, SeatTaken, Seats, Unseats
<1> QED
  BY <1>1, <1>2, <1>3, <1>4, <1>5, <1>6, <1>7, <1>8, <1>9, <1>11 DEF Begins, Proceeds

LEMMA RoomStays ==
  ASSUME PtTypeOK, StagesMatch, MembersFinite, RoomLeft, NEW c \in TableCalls, Begins(c) \/ Proceeds(c)
  PROVE  RoomLeft'
<1> SUFFICES ASSUME ~ptOverlap', ~ptForced' PROVE RoomLeft'
  BY DEF RoomLeft
<1>o. ~ptOverlap /\ ~ptForced
  <2>1. ASSUME PtCreates(c) PROVE ~ptOverlap /\ ~ptForced
    BY <2>1 DEF PtCreates, Serves
  <2>2. ASSUME PtCounts(c) PROVE ~ptOverlap /\ ~ptForced
    <3>1. ptForced' = ptForced
      BY <2>2 DEF PtCounts
    <3>2. \E x : ptOverlap' = (ptOverlap \/ x)
      BY <2>2 DEF PtCounts, Serves
    <3> QED BY <3>1, <3>2
  <2>4. ASSUME PtLeaves(c) PROVE ~ptOverlap /\ ~ptForced
    <3>1. ptForced' = ptForced
      BY <2>4 DEF PtLeaves
    <3>2. \E x : ptOverlap' = (ptOverlap \/ x)
      BY <2>4 DEF PtLeaves, Serves
    <3> QED BY <3>1, <3>2
  <2>5. ASSUME PtDeletes(c) PROVE ~ptOverlap /\ ~ptForced
    <3>1. ptForced' = ptForced
      BY <2>5 DEF PtDeletes
    <3>2. \E x : ptOverlap' = (ptOverlap \/ x)
      BY SMTT(60), <2>5 DEF PtDeletes, Serves
    <3> QED BY <3>1, <3>2
  <2>3. ASSUME Proceeds(c) PROVE UNCHANGED <<ptOverlap, ptForced>>
    BY <2>3 DEF Proceeds, PtJoins, PtRefuses, PtAccepts, PtFails, PtRevokes, PtEnds, PtUnseats
  <2> QED BY <2>1, <2>2, <2>3, <2>4, <2>5 DEF Begins
<1>t. /\ ptMembers \in [TableIds -> SUBSET TablePlayers] /\ ptAlready \in [TableCalls -> BOOLEAN]
      /\ DOMAIN ptAt = TableCalls /\ DOMAIN ptReq = TableCalls /\ ptCount \in [TableCalls -> Nat]
  BY DEF PtTypeOK, StagesMatch
<1>m. MaxPlayers \in Nat /\ MaxPlayers > 0
  BY TablesAssumption
<1>n. \A t \in TableIds : SeatCount(t) \in Nat
  BY FS_CardinalityType DEF SeatCount, MembersFinite
<1>a. \A x, y \in TableCalls : Active(x) /\ Active(y) => x = y
  BY <1>o DEF RoomLeft
\* A request that begins finds no other active, and every table within its limit.
<1>b. ASSUME Begins(c)
      PROVE  /\ \A x \in TableCalls : ~Active(x)
             /\ \A x \in TableCalls : x # c => ptAt'[x] = ptAt[x] /\ ptReq'[x] = ptReq[x]
             /\ \A t \in TableIds : SeatCount(t) <= MaxPlayers
  <2>1. \A d \in TableCalls \ {c} : ~Active(d)
    BY <1>b DEF Begins, PtCreates, PtCounts, PtLeaves, PtDeletes, Serves, Active
  <2>2. ptAt[c] = "idle" /\ \E to : ptAt' = [ptAt EXCEPT ![c] = to]
    BY <1>b DEF Begins, PtCreates, PtCounts, PtLeaves, PtDeletes, Serves, PtStep
  <2>3. \E req : ptReq' = [ptReq EXCEPT ![c] = req]
    BY <1>b DEF Begins, PtCreates, PtCounts, PtLeaves, PtDeletes, Serves
  <2>4. \A x \in TableCalls : ~Active(x)
    BY <2>1, <2>2 DEF Active, CallOver
  <2>5. \A x \in TableCalls : ptAt[x] # "joined"
    BY <2>4 DEF Active, CallOver
  <2> QED BY <1>o, <1>t, <2>2, <2>3, <2>4, <2>5 DEF RoomLeft
<1>1. ASSUME PtCreates(c) PROVE RoomLeft'
  <2>1. PICK p \in TablePlayers, t \in TableIds :
          /\ ptAt' = [ptAt EXCEPT ![c] = "opening"]
          /\ ptReq' = [ptReq EXCEPT ![c] = [op |-> "create", player |-> p, table |-> t, by |-> Operator]]
          /\ ptForced' = (ptForced \/ SeatCount(t) >= MaxPlayers) /\ UNCHANGED ptMembers
    BY <1>1 DEF PtCreates, Serves, PtStep
  <2>2. SeatCount(t) < MaxPlayers
    <3>1. ~(SeatCount(t) >= MaxPlayers)
      BY <2>1
    <3> QED BY <3>1, <1>n, <1>m
  <2>3. \A u \in TableIds : SeatCount(u)' = SeatCount(u)
    BY <2>1 DEF SeatCount
  <2> QED BY <1>1, <1>b, <1>t, <2>1, <2>2, <2>3 DEF RoomLeft, Active, CallOver, Begins
<1>2. ASSUME PtCounts(c) PROVE RoomLeft'
  <2>1. PICK p \in TablePlayers, t \in TableIds, by \in {Operator} \cup ptSessions \cup ptTokens :
          /\ ptAt' = [ptAt EXCEPT ![c] = "counted"]
          /\ ptReq' = [ptReq EXCEPT ![c] = [op |-> "join", player |-> p, table |-> t, by |-> by]]
          /\ ptCount' = [ptCount EXCEPT ![c] = SeatCount(t)] /\ UNCHANGED ptMembers
    BY <1>2 DEF PtCounts, Serves, PtStep, Credentials
  <2>3. \A u \in TableIds : SeatCount(u)' = SeatCount(u)
    BY <2>1 DEF SeatCount
  <2> QED BY <1>2, <1>b, <1>t, <2>1, <2>3 DEF RoomLeft, Active, CallOver, Begins
<1>3. ASSUME PtLeaves(c) PROVE RoomLeft'
  <2>1. PICK p \in TablePlayers, t \in TableIds :
          /\ ptAt' = [ptAt EXCEPT ![c] = "done"] /\ ptMembers' = [ptMembers EXCEPT ![t] = @ \ {p}]
    BY <1>3 DEF PtLeaves, Serves, PtStep
  <2>3. \A u \in TableIds : SeatCount(u)' <= MaxPlayers
    <3>1. Cardinality(ptMembers[t] \ {p}) <= Cardinality(ptMembers[t]) /\ Cardinality(ptMembers[t] \ {p}) \in Nat
      BY FS_Subset, FS_CardinalityType DEF MembersFinite
    <3> QED BY <1>3, <1>b, <1>n, <1>m, <1>t, <2>1, <3>1 DEF SeatCount, Begins
  <2> QED BY <1>3, <1>b, <1>t, <2>1, <2>3 DEF RoomLeft, Active, CallOver, Begins
<1>4. ASSUME PtDeletes(c) PROVE RoomLeft'
  <2>1. ptAt' = [ptAt EXCEPT ![c] = "revoking"] /\ UNCHANGED ptMembers
    BY <1>4 DEF PtDeletes, Serves, PtStep
  <2>3. \A u \in TableIds : SeatCount(u)' = SeatCount(u)
    BY <2>1 DEF SeatCount
  <2> QED BY <1>4, <1>b, <1>t, <2>1, <2>3 DEF RoomLeft, Active, CallOver, Begins
\* A request that proceeds is the only active one.
<1>p. ASSUME Proceeds(c)
      PROVE  /\ Active(c) /\ \A x \in TableCalls : x # c => ~Active(x) /\ ptAt'[x] = ptAt[x]
             /\ UNCHANGED <<ptReq, ptCount>> /\ ptReq[c].table \in TableIds
             /\ \A t \in TableIds : t # ptReq[c].table => SeatCount(t)' = SeatCount(t)
             /\ ptAt[c] # "joined" => \A t \in TableIds : SeatCount(t) <= MaxPlayers
             /\ ptAt[c] = "joined" => \A t \in TableIds : t # ptReq[c].table => SeatCount(t) <= MaxPlayers
  <2>1. Active(c) /\ (\E to : ptAt' = [ptAt EXCEPT ![c] = to]) /\ UNCHANGED <<ptReq, ptCount>>
    BY <1>p DEF Proceeds, PtJoins, PtRefuses, PtAccepts, PtFails, PtRevokes, PtEnds, PtUnseats, PtStep, Active, CallOver
  <2>2. \A x \in TableCalls : x # c => ~Active(x) /\ ptAt'[x] = ptAt[x]
    BY <2>1, <1>a, <1>t
  <2>3. ptReq[c].table \in TableIds
    BY SMTT(60), <2>1 DEF StagesMatch, Active, CallOver
  <2>4. \A t \in TableIds : t # ptReq[c].table => ptMembers'[t] = ptMembers[t]
    BY <1>p, <1>t DEF Proceeds, PtJoins, PtRefuses, PtAccepts, PtFails, PtRevokes, PtEnds, PtUnseats
  <2>5. \A x \in TableCalls : ptAt[x] = "joined" => x = c
    BY <2>1, <1>a DEF Active, CallOver
  <2> QED BY SMTT(60), <2>1, <2>2, <2>3, <2>4, <2>5, <1>o DEF RoomLeft, SeatCount
<1>q. ASSUME Proceeds(c), ptAt'[c] # "joined", SeatCount(ptReq[c].table)' <= MaxPlayers,
             ptAt'[c] \notin {"opening", "counted"}
      PROVE  RoomLeft'
  <2>1. \A t \in TableIds : SeatCount(t)' <= MaxPlayers
    BY <1>p, <1>q
  <2>2. \A x \in TableCalls : x # c => ~(Active(x)')
    BY <1>p, <1>q DEF Active
  <2>3. \A x \in TableCalls : ptAt'[x] \notin {"opening", "counted", "joined"}
    BY <1>q, <2>2 DEF Active, CallOver
  <2> QED BY <2>1, <2>2, <2>3 DEF RoomLeft
<1>5. ASSUME PtJoins(c) PROVE RoomLeft'
  <2> DEFINE t == ptReq[c].table
             p == ptReq[c].player
             old == ptMembers[t]
  <2>1. /\ ptAt' = [ptAt EXCEPT ![c] = "joined"] /\ ptAt[c] = (IF ptReq[c].op = "create" THEN "opening" ELSE "counted")
        /\ ptReq[c].op \in {"create", "join"}
        /\ ptAlready' = [ptAlready EXCEPT ![c] = p \in old] /\ ptMembers' = [ptMembers EXCEPT ![t] = @ \cup {p}]
    BY <1>5 DEF PtJoins, PtStep
  <2>p. /\ UNCHANGED <<ptReq, ptCount>> /\ t \in TableIds
        /\ \A x \in TableCalls : x # c => ~(Active(x)')
        /\ \A u \in TableIds : u # t => SeatCount(u)' = SeatCount(u)
        /\ \A u \in TableIds : SeatCount(u) <= MaxPlayers
    BY <1>p, <1>5, <2>1 DEF Proceeds, Active
  <2>2. ptMembers'[t] = old \cup {p} /\ IsFiniteSet(old) /\ ptAlready'[c] = (p \in old)
    BY <2>1, <2>p, <1>t DEF MembersFinite
  <2>3. /\ SeatCount(t) = Cardinality(old) /\ SeatCount(t)' = Cardinality(old \cup {p}) /\ Cardinality(old) \in Nat
    BY <2>2, <2>p, FS_CardinalityType DEF SeatCount
  <2>4. Cardinality(old \cup {p}) = (IF p \in old THEN Cardinality(old) ELSE Cardinality(old) + 1)
    BY <2>2, FS_AddElement
  <2>5. (old \cup {p}) \ {p} \subseteq old /\ IsFiniteSet((old \cup {p}) \ {p})
    BY <2>2, FS_Subset
  <2>6. Cardinality((old \cup {p}) \ {p}) <= Cardinality(old) /\ Cardinality((old \cup {p}) \ {p}) \in Nat
    BY <2>2, <2>5, FS_Subset, FS_CardinalityType
  <2>7. PtFull(c)' <=> ptReq[c].op = "join" /\ p \notin old /\ ptCount[c] >= MaxPlayers
    BY <2>2, <2>p DEF PtFull
  <2>8. ptReq[c].op = "create" => Cardinality(old) < MaxPlayers
    BY <2>1, <2>3, <1>o DEF RoomLeft
  <2>9. ptReq[c].op = "join" => ptCount[c] = Cardinality(old)
    BY <2>1, <2>3, <1>o DEF RoomLeft
  <2>10. Cardinality(old) <= MaxPlayers
    BY <2>p, <2>3
  <2>11. IF PtFull(c)' THEN Cardinality(ptMembers'[t] \ {p}) <= MaxPlayers ELSE SeatCount(t)' <= MaxPlayers
    <3> HIDE DEF old, p, t
    <3>1. CASE PtFull(c)'
      BY <3>1, <2>2, <2>6, <2>10, <2>3, <1>m
    <3>2. CASE ~(PtFull(c)')
      <4>1. CASE ptReq[c].op = "create"
        BY <3>2, <4>1, <2>8, <2>4, <2>3, <1>m
      <4>2. CASE ptReq[c].op = "join" /\ p \in old
        BY <3>2, <4>2, <2>4, <2>3, <2>10, <1>m
      <4>3. CASE ptReq[c].op = "join" /\ p \notin old
        BY <3>2, <4>3, <2>7, <2>9, <2>4, <2>3, <1>m
      <4> QED BY <4>1, <4>2, <4>3, <2>1
    <3> QED BY <3>1, <3>2
  <2>12. ptAt'[c] = "joined"
    BY <2>1, <1>t
  <2>13. \A x \in TableCalls : ptAt'[x] \in {"opening", "counted", "joined"} => x = c
    BY <2>p DEF Active, CallOver
  <2>14. \A x, y \in TableCalls : Active(x)' /\ Active(y)' => x = y
    BY <2>p
  <2>15. \A u \in TableIds : SeatCount(u)' <= MaxPlayers \/ \E x \in TableCalls : (ptAt[x] = "joined" /\ ptReq[x].table = u)'
    BY <2>p, <2>12
  <2>16. \A x \in TableCalls :
           /\ (ptAt[x] = "opening" => SeatCount(ptReq[x].table) < MaxPlayers)'
           /\ (ptAt[x] = "counted" => ptCount[x] = SeatCount(ptReq[x].table))'
           /\ (ptAt[x] = "joined" =>
                IF PtFull(x) THEN Cardinality(ptMembers[ptReq[x].table] \ {ptReq[x].player}) <= MaxPlayers
                             ELSE SeatCount(ptReq[x].table) <= MaxPlayers)'
    BY <2>11, <2>12, <2>13, <2>p
  <2> QED BY <2>14, <2>15, <2>16 DEF RoomLeft
<1>6. ASSUME PtRefuses(c) PROVE RoomLeft'
  <2> DEFINE t == ptReq[c].table
             p == ptReq[c].player
  <2>1. /\ ptAt' = [ptAt EXCEPT ![c] = "refused"] /\ ptAt[c] = "joined" /\ PtFull(c)
        /\ ptMembers' = [ptMembers EXCEPT ![t] = @ \ {p}]
    BY <1>6 DEF PtRefuses, PtStep
  <2>2. t \in TableIds /\ Cardinality(ptMembers[t] \ {p}) <= MaxPlayers
    BY <2>1, <1>o, <1>p, <1>6 DEF RoomLeft, Proceeds
  <2>3. SeatCount(t)' <= MaxPlayers
    BY <2>1, <2>2, <1>t, <1>p, <1>6 DEF SeatCount, Proceeds
  <2>4. ptAt'[c] = "refused"
    BY <2>1, <1>t
  <2> QED BY <2>3, <2>4, <1>q, <1>6 DEF Proceeds
<1>7. ASSUME PtAccepts(c) \/ PtFails(c) \/ PtRevokes(c) \/ PtEnds(c) PROVE RoomLeft'
  <2>1. ptAt'[c] \in {"accepted", "failed", "ending", "unseating"} /\ UNCHANGED ptMembers
    BY <1>7, <1>t DEF PtAccepts, PtFails, PtRevokes, PtEnds, PtStep
  <2>2. ptAt[c] = "joined" => ~PtFull(c)
    BY <1>7 DEF PtAccepts, PtFails, PtRevokes, PtEnds, PtStep, PtFull
  <2>3. SeatCount(ptReq[c].table) <= MaxPlayers
    BY <2>2, <1>o, <1>p, <1>7 DEF RoomLeft, Proceeds
  <2>4. SeatCount(ptReq[c].table)' <= MaxPlayers
    BY <2>1, <2>3, <1>p, <1>7 DEF SeatCount, Proceeds
  <2> QED BY <2>1, <2>4, <1>q, <1>7 DEF Proceeds
<1>8. ASSUME PtUnseats(c) PROVE RoomLeft'
  <2> DEFINE t == ptReq[c].table
             p == ptReq[c].player
  <2>1. /\ ptAt' = [ptAt EXCEPT ![c] = "done"] /\ ptAt[c] = "unseating"
        /\ ptMembers' = [ptMembers EXCEPT ![t] = @ \ {p}]
    BY <1>8 DEF PtUnseats, PtStep
  <2>2. t \in TableIds /\ SeatCount(t) <= MaxPlayers
    BY <2>1, <1>p, <1>8 DEF Proceeds
  <2>3. Cardinality(ptMembers[t] \ {p}) <= Cardinality(ptMembers[t]) /\ Cardinality(ptMembers[t] \ {p}) \in Nat
    BY <2>2, FS_Subset, FS_CardinalityType DEF MembersFinite
  <2>4. SeatCount(t)' <= MaxPlayers
    <3>1. SeatCount(t)' = Cardinality(ptMembers[t] \ {p}) /\ SeatCount(t) = Cardinality(ptMembers[t])
      BY <2>1, <2>2, <1>t, <1>p, <1>8 DEF SeatCount, Proceeds
    <3>2. SeatCount(t) \in Nat
      BY <2>2, <1>n
    <3> QED BY <3>1, <3>2, <2>2, <2>3, <1>m
  <2>5. ptAt'[c] = "done"
    BY <2>1, <1>t
  <2> QED BY <2>4, <2>5, <1>q, <1>8 DEF Proceeds
<1> QED
  BY <1>1, <1>2, <1>3, <1>4, <1>5, <1>6, <1>7, <1>8 DEF Begins, Proceeds

LEMMA TablesStep == PtInv /\ [PtNext]_ptVars => PtInv'
<1> SUFFICES ASSUME PtInv, [PtNext]_ptVars PROVE PtInv'
  OBVIOUS
<1>1. ASSUME NEW c \in TableCalls, Begins(c) \/ Proceeds(c) PROVE PtInv'
  BY <1>1, TablesTypes, SeatsStay, RoomStays DEF PtInv
<1>2. CASE UNCHANGED ptVars
  BY <1>2 DEF ptVars, PtInv, PtTypeOK, StagesMatch, SeatTaken, Seats, Unseats, MembersFinite, RoomLeft, Active, SeatCount,
              PtFull
<1> QED BY <1>1, <1>2 DEF PtNext, Begins, Proceeds

LEMMA TablesKeep == PtInv => TablesKeepSeats
<1>1. PtInv => JoinedSeatKept
  BY DEF PtInv, SeatTaken, Seats, JoinedSeatKept
<1>2. ASSUME PtInv, NEW t \in TableIds, SeatCount(t) > MaxPlayers, ~ptOverlap, ~ptForced
      PROVE  \E c \in TableCalls : ptAt[c] = "joined" /\ ptReq[c].table = t
  <2>1. SeatCount(t) \in Nat /\ MaxPlayers \in Nat
    BY <1>2, FS_CardinalityType, TablesAssumption DEF PtInv, MembersFinite, SeatCount
  <2>2. ~(SeatCount(t) <= MaxPlayers)
    BY <2>1, <1>2
  <2> QED BY <1>2, <2>2 DEF PtInv, RoomLeft
<1>3. PtInv => OverfullOnlyByRace
  BY <1>2 DEF OverfullOnlyByRace
<1> QED BY <1>1, <1>3 DEF TablesKeepSeats

-----------------------------------------------------------------------------
(* Bots that bet (common/bot_manager.py).                                  *)

BotTypes ==
  /\ bbRound \in Nat \ {0} /\ bbLeft \subseteq TableBots /\ bbSeated \subseteq TableBots
  /\ bbDone \in [TableBots -> Nat] /\ bbArmed \in [TableBots -> Nat] /\ bbTried \in [TableBots -> Seq(Nat)]
  /\ bbCall # NoCallYet => bbCall.bot \in TableBots /\ bbCall.round \in 1..bbRound

\* The rounds a bot tried go up; the one there is marked as played, and a bet on its way is of
\* a later round than any it tried.
TriesRise ==
  \A b \in TableBots :
    /\ \A i, j \in DOMAIN bbTried[b] : i # j => bbTried[b][i] # bbTried[b][j]
    /\ \A i \in DOMAIN bbTried[b] :
         /\ bbTried[b][i] <= bbRound
         /\ bbTried[b][i] = bbRound => bbDone[b] = bbRound
         /\ bbCall # NoCallYet /\ bbCall.bot = b => bbTried[b][i] < bbCall.round

\* place_bet takes a bot's key once.
KeysOnce == \A x, y \in bbBets : x.bot = y.bot /\ x.key = y.key => x = y

BbInv == BotTypes /\ TriesRise /\ KeysOnce

LEMMA BotsInit == BbInit => BbInv
<1> SUFFICES ASSUME BbInit PROVE BbInv
  OBVIOUS
<1>1. BotTypes
  BY DEF BbInit, BotTypes
<1>2. TriesRise /\ KeysOnce
  BY DEF BbInit, TriesRise, KeysOnce
<1> QED BY <1>1, <1>2 DEF BbInv

LEMMA BotsStep == BbInv /\ [BbNext]_bbVars => BbInv'
<1> SUFFICES ASSUME BbInv, [BbNext]_bbVars PROVE BbInv'
  OBVIOUS
<1>i. BotTypes /\ TriesRise /\ KeysOnce
  BY DEF BbInv
<1>n. NoBot \notin TableBots
  BY BotBetsAssumption
<1>1. ASSUME WindowCloses \/ ChipsChange \/ BotDisplaced \/ DelayOver \/ TickCopies PROVE BbInv'
  <2>1. /\ UNCHANGED <<bbRound, bbDone, bbArmed, bbTried, bbCall, bbBets>>
        /\ bbLeft' \subseteq TableBots /\ bbSeated' \subseteq TableBots
    BY <1>1, <1>i DEF WindowCloses, ChipsChange, BotDisplaced, DelayOver, TickCopies, BotsSame, RoomSame, BotTypes
  <2> QED BY <2>1, <1>i DEF BbInv, BotTypes, TriesRise, KeysOnce
<1>2. ASSUME NextDealt PROVE BbInv'
  <2>1. bbRound' = bbRound + 1 /\ UNCHANGED <<bbDone, bbArmed, bbTried, bbCall, bbBets, bbLeft, bbSeated>>
    BY <1>2 DEF NextDealt, BotsSame
  <2>2. BotTypes'
    BY <2>1, <1>i DEF BotTypes
  <2>3. \A b \in TableBots : \A i \in DOMAIN bbTried[b] : bbTried[b][i] \in Nat
    BY <1>i DEF BotTypes
  <2>4. TriesRise'
    BY <2>1, <2>3, <1>i DEF TriesRise, BotTypes
  <2> QED BY <2>1, <2>2, <2>4, <1>i DEF BbInv, KeysOnce
<1>3. ASSUME NEW b \in bbLeft, bbCall = NoCallYet, FindsClosed(b) \/ FindsPlayed(b) \/ NotDueYet(b) PROVE BbInv'
  <2>1. /\ UNCHANGED <<bbRound, bbDone, bbTried, bbCall, bbBets, bbSeated>>
        /\ bbLeft' \subseteq TableBots /\ bbArmed' \in [TableBots -> Nat]
    <3>1. bbLeft' = bbLeft \ {b} /\ UNCHANGED <<bbRound, bbDone, bbTried, bbCall, bbBets, bbSeated>>
      BY <1>3 DEF FindsClosed, FindsPlayed, NotDueYet, Looked, RoomSame
    <3>2. bbArmed' = bbArmed \/ bbArmed' = [bbArmed EXCEPT ![b] = 0]
      BY <1>3 DEF FindsClosed, FindsPlayed, NotDueYet
    <3>3. bbArmed' \in [TableBots -> Nat]
      BY SMTT(60), <3>2, <1>i DEF BotTypes
    <3>4. bbLeft' \subseteq TableBots
      BY <3>1, <1>i DEF BotTypes
    <3> QED BY <3>1, <3>3, <3>4
  <2> QED BY <2>1, <1>i DEF BbInv, BotTypes, TriesRise, KeysOnce
<1>4. ASSUME NEW b \in bbLeft, bbCall = NoCallYet, ArmsBot(b) PROVE BbInv'
  <2>1. /\ UNCHANGED <<bbRound, bbTried, bbCall, bbBets, bbSeated>> /\ bbDone[b] # bbRound /\ b \in TableBots
        /\ bbLeft' \subseteq TableBots /\ bbArmed' \in [TableBots -> Nat] /\ bbDone' = [bbDone EXCEPT ![b] = 0]
    BY <1>4, <1>i DEF ArmsBot, RoomSame, BotTypes, Played
  <2> QED BY <2>1, <1>i DEF BbInv, BotTypes, TriesRise, KeysOnce
<1>5. ASSUME NEW b \in bbLeft, bbCall = NoCallYet, Decides(b) PROVE BbInv'
  <2>1. /\ UNCHANGED <<bbRound, bbTried, bbDone, bbArmed, bbBets, bbSeated>> /\ bbDone[b] # bbRound /\ b \in TableBots
        /\ bbLeft' \subseteq TableBots /\ bbCall'.bot = b /\ bbCall'.round = bbRound
    BY <1>5, <1>i DEF Decides, Looked, RoomSame, BotTypes, Played, Chosen
  <2>2. BotTypes'
    BY <2>1, <1>i DEF BotTypes
  <2>3. \A i \in DOMAIN bbTried[b] : bbTried[b][i] < bbRound
    <3>1. ASSUME NEW i \in DOMAIN bbTried[b] PROVE bbTried[b][i] <= bbRound /\ bbTried[b][i] # bbRound /\ bbTried[b][i] \in Nat
      BY <2>1, <1>i DEF TriesRise, BotTypes
    <3> QED BY <3>1, <1>i DEF BotTypes
  <2>4. TriesRise'
    BY <2>1, <2>3, <1>i DEF TriesRise
  <2> QED BY <2>1, <2>2, <2>4, <1>i DEF BbInv, KeysOnce
<1>6. ASSUME PlacesBet PROVE BbInv'
  <2> DEFINE b == bbCall.bot
             r == bbCall.round
             bet == [bot |-> b, round |-> bbRound, key |-> r, position |-> bbCall.position, chip |-> bbCall.chip]
  <2>1. /\ bbCall # NoCallYet /\ bbCall' = NoCallYet /\ UNCHANGED <<bbRound, bbSeated, bbArmed, bbLeft>>
        /\ bbTried' = [bbTried EXCEPT ![b] = Append(@, r)] /\ bbDone' = [bbDone EXCEPT ![b] = r]
        /\ \/ bbBets' = bbBets
           \/ (bbBets' = bbBets \cup {bet}) /\ ~ \E x \in bbBets : x.bot = b /\ x.key = r
    BY <1>6 DEF PlacesBet, RoomSame
  <2>2. b \in TableBots /\ r \in 1..bbRound /\ r \in Nat
    BY <2>1, <1>i DEF BotTypes
  <2>3. BotTypes'
    BY <2>1, <2>2, <1>i DEF BotTypes
  <2>4. KeysOnce'
    BY <2>1, <1>i DEF KeysOnce
  <2>5. TriesRise'
    <3>1. ASSUME NEW d \in TableBots, d # b
          PROVE  bbTried'[d] = bbTried[d] /\ bbDone'[d] = bbDone[d]
      BY <3>1, <2>1, <1>i DEF BotTypes
    <3>2. bbTried'[b] = Append(bbTried[b], r) /\ bbDone'[b] = r /\ bbTried[b] \in Seq(Nat)
      BY <2>1, <2>2, <1>i DEF BotTypes
    <3> DEFINE tried == bbTried[b]
    <3>3. /\ DOMAIN bbTried'[b] = 1..(Len(tried) + 1) /\ Len(tried) \in Nat /\ DOMAIN tried = 1..Len(tried)
          /\ bbTried'[b][Len(tried) + 1] = r
          /\ \A i \in DOMAIN tried : bbTried'[b][i] = tried[i] /\ tried[i] \in Nat
      BY SMTT(60), <3>2
    <3>4. \A i \in DOMAIN tried : tried[i] < r
      BY <2>1, <2>2, <1>i DEF TriesRise
    <3>5. \A i \in DOMAIN bbTried'[b] : i \in DOMAIN tried \/ i = Len(tried) + 1
      BY <3>3
    <3>6. \A i, j \in DOMAIN bbTried'[b] : i # j => bbTried'[b][i] # bbTried'[b][j]
      BY SMTT(60), <3>3, <3>4, <3>5, <2>2, <1>i DEF TriesRise
    <3>7. \A i \in DOMAIN bbTried'[b] : bbTried'[b][i] <= bbRound /\ (bbTried'[b][i] = bbRound => r = bbRound)
      <4>1. ASSUME NEW i \in DOMAIN tried PROVE bbTried'[b][i] <= bbRound /\ bbTried'[b][i] # bbRound
        <5>1. tried[i] \in Nat /\ tried[i] < r /\ r <= bbRound /\ r \in Nat /\ bbRound \in Nat
          BY <3>3, <3>4, <2>2, <1>i DEF BotTypes
        <5> QED BY SMTT(60), <5>1, <3>3
      <4> QED BY <4>1, <3>3, <3>5, <2>2
    <3>8. ASSUME NEW d \in TableBots
          PROVE  /\ \A i, j \in DOMAIN bbTried'[d] : i # j => bbTried'[d][i] # bbTried'[d][j]
                 /\ \A i \in DOMAIN bbTried'[d] : bbTried'[d][i] <= bbRound /\ (bbTried'[d][i] = bbRound => bbDone'[d] = bbRound)
      <4>1. CASE d = b
        BY <4>1, <3>2, <3>6, <3>7
      <4>2. CASE d # b
        BY <4>2, <3>1, <1>i DEF TriesRise
      <4> QED BY <4>1, <4>2
    <3> QED BY <3>8, <2>1 DEF TriesRise
  <2> QED BY <2>3, <2>4, <2>5 DEF BbInv
<1>7. CASE UNCHANGED bbVars
  BY <1>7, <1>i DEF bbVars, BbInv, BotTypes, TriesRise, KeysOnce
<1> QED BY <1>1, <1>2, <1>3, <1>4, <1>5, <1>6, <1>7 DEF BbNext

LEMMA OneOfEqual ==
  ASSUME NEW S, \A x, y \in S : x = y PROVE Cardinality(S) <= 1
<1>1. CASE S = {}
  BY <1>1, FS_EmptySet
<1>2. CASE S # {}
  <2>1. PICK x : S = {x}
    BY <1>2
  <2> QED BY <2>1, FS_Singleton
<1> QED BY <1>1, <1>2

LEMMA BotsKeep == BbInv => BotBetsSafe
<1> SUFFICES ASSUME BbInv PROVE BotBetsSafe
  OBVIOUS
<1>1. OneTryPerRound
  BY DEF BbInv, TriesRise, OneTryPerRound
<1>2. OneOwnBetPerRound
  <2> SUFFICES ASSUME NEW b \in TableBots, NEW r \in 1..LastDealt
               PROVE  Cardinality({bet \in BetsIn(b, r) : bet.key = r}) <= 1
    BY DEF OneOwnBetPerRound
  <2> DEFINE S == {bet \in BetsIn(b, r) : bet.key = r}
  <2>1. \A x, y \in S : x = y
    BY DEF BbInv, KeysOnce, BetsIn
  <2> QED BY <2>1, OneOfEqual
<1> QED BY <1>1, <1>2 DEF BotBetsSafe

-----------------------------------------------------------------------------
(* Scheduled configuration changes and the admin store (config_scheduler.py, admin_store.py).*)

\* The two views of the tables, and that neither has undone what became of a change: what was
\* saved as final the open transaction has as well.
Final == {"APPLIED", "FAILED", "CANCELLED"}
CsTypes == csSaved \in Tables /\ csOpen \in Tables
FinalSeen == \A c \in Changes : csSaved.status[c] \in Final => csOpen.status[c] = csSaved.status[c]
CsInv == CsTypes /\ FinalSeen

\* A change with a final status in T has it in U.
Keeps(T, U) == \A c \in Changes : T.status[c] \in Final => U.status[c] = T.status[c]

\* What became of a change stays in the tables whatever a statement makes of them.
LEMMA StatementKeeps ==
  ASSUME NEW T \in Tables, NEW stmt, NEW on, TablesAfter(stmt, on, T) # NoTables
  PROVE  TablesAfter(stmt, on, T) \in Tables /\ Keeps(T, TablesAfter(stmt, on, T))
<1> SUFFICES ASSUME NEW U, U = TablesAfter(stmt, on, T), U # NoTables PROVE U \in Tables /\ Keeps(T, U)
  OBVIOUS
<1>t. /\ T.edge \in {"absent", "active", "retired"} /\ T.rules \in [Labels -> {"absent", "active", "retired"}]
      /\ T.status \in [Changes -> {"absent", "PENDING", "APPLIED", "FAILED", "CANCELLED"}]
      /\ T = [edge |-> T.edge, rules |-> T.rules, package |-> T.package, override |-> T.override,
              withdrawal |-> T.withdrawal, game |-> T.game, status |-> T.status]
  BY DEF Tables
<1>0. U = T => U \in Tables /\ Keeps(T, U)
  BY DEF Keeps
<1>1. CASE stmt \in MarkOps
  <2>1. U = T \/ (T.status[on] = "PENDING" /\ \E new \in Final : U = [T EXCEPT !.status[on] = new])
    <3>1. U = MarkIf(T, on, "PENDING", Marked(stmt))
      BY <1>1 DEF TablesAfter, Mark, MarkOps
    <3>2. Marked(stmt) \in Final
      BY DEF Marked, Final
    <3> QED BY <3>1, <3>2 DEF MarkIf
  <2>2. ASSUME NEW new \in Final, T.status[on] = "PENDING", U = [T EXCEPT !.status[on] = new]
        PROVE  U \in Tables /\ Keeps(T, U)
    <3>1. U \in Tables
      BY <2>2 DEF Tables, Final
    <3>2. U.status = [T.status EXCEPT ![on] = new]
      BY <2>2 DEF Tables
    <3> QED BY <3>1, <3>2, <2>2, <1>t DEF Keeps, Final
  <2> QED BY <2>1, <2>2, <1>0
<1>2. CASE stmt \in {"create_package", "update_package", "archive_package"}
  <2>1. U = T \/ \E x \in {"active", "archived", T.package} : U = [T EXCEPT !.package = x]
    BY <1>2 DEF TablesAfter, MarkOps, PackagesAfter, When
  <2> QED BY <2>1, <1>0 DEF Tables, Keeps
<1>3. CASE stmt \in {"retire edge", "insert edge"}
  <2>1. U = T \/ \E x \in {"active", "retired", T.edge} : U = [T EXCEPT !.edge = x]
    BY <1>3 DEF TablesAfter, MarkOps, EdgesAfter, When
  <2> QED BY <2>1, <1>0 DEF Tables, Keeps
<1>4. CASE stmt \in {"create_player_override", "revoke_player_override"}
  <2>1. \E x \in {"live", "revoked", T.override} : U = [T EXCEPT !.override = x]
    BY <1>4 DEF TablesAfter, MarkOps, OverridesAfter, When
  <2> QED BY <2>1 DEF Tables, Keeps
<1>5. CASE stmt \in {"create_withdrawal_request", "set_withdrawal_status"}
  <2>1. \E x \in {"PENDING", "decided"} : U = [T EXCEPT !.withdrawal = x]
    BY <1>5 DEF TablesAfter, MarkOps, WithdrawalsAfter, When
  <2> QED BY <2>1 DEF Tables, Keeps
<1>6. CASE stmt = "flip game"
  <2>1. \E x \in {"disabled", "live"} : U = [T EXCEPT !.game = x]
    BY <1>6 DEF TablesAfter, MarkOps, Flipped
  <2> QED BY <2>1 DEF Tables, Keeps
<1>7. CASE stmt \in {"retire rules", "upsert rules"}
  <2>1. \E x \in [Labels -> {"absent", "active", "retired"}] : U = [T EXCEPT !.rules = x]
    <3>1. Retired(T) \in [Labels -> {"absent", "active", "retired"}]
      BY <1>t DEF Retired
    <3>2. [T.rules EXCEPT ![on] = "active"] \in [Labels -> {"absent", "active", "retired"}]
      BY <1>t
    <3>3. CASE stmt = "retire rules"
      BY <3>3, <3>1 DEF TablesAfter, MarkOps
    <3>4. CASE stmt = "upsert rules"
      <4>1. U = [T EXCEPT !.rules[on] = "active"]
        BY <3>4 DEF TablesAfter, MarkOps, RulesSaved, When
      <4>2. U = [T EXCEPT !.rules = [T.rules EXCEPT ![on] = "active"]]
        BY <4>1 DEF Tables
      <4> QED BY <4>2, <3>2
    <3> QED BY <1>7, <3>3, <3>4
  <2> QED BY <2>1 DEF Tables, Keeps
<1>8. CASE stmt \in {"read rules", "insert copy"}
  <2>1. U = T
    BY <1>8 DEF TablesAfter, MarkOps, When
  <2> QED BY <2>1, <1>0
<1>9. CASE stmt = "create_scheduled_change"
  <2>1. T.status[on] = "absent" /\ U = [T EXCEPT !.status[on] = "PENDING"]
    BY <1>9 DEF TablesAfter, MarkOps, Scheduled, When, MarkIf
  <2>2. U \in Tables /\ U.status = [T.status EXCEPT ![on] = "PENDING"]
    <3> QED BY <2>1 DEF Tables
  <2> QED BY <2>1, <2>2, <1>t DEF Keeps, Final
<1>10. CASE stmt \notin MarkOps \cup {"create_package", "update_package", "archive_package", "retire edge", "insert edge",
                 "create_player_override", "revoke_player_override", "create_withdrawal_request",
                 "set_withdrawal_status", "flip game", "retire rules", "upsert rules", "read rules", "insert copy",
                 "create_scheduled_change"}
  <2>1. U = T
    BY <1>10 DEF TablesAfter
  <2> QED BY <2>1, <1>0
<1> QED BY <1>1, <1>2, <1>3, <1>4, <1>5, <1>6, <1>7, <1>8, <1>9, <1>10

LEMMA ConfigInit == CSInit => CsInv
BY DEF CSInit, CsInv, CsTypes, FinalSeen, Tables

\* The ways the tables move: a statement runs on what is open or, anew, on what was saved; or
\* what is open is saved, or dropped.
TablesMove ==
  \/ csSaved' = csSaved /\ csOpen' \in {csSaved, csOpen}
  \/ csSaved' = csOpen /\ csOpen' = csOpen
  \/ /\ csSaved' = csSaved
     /\ \E stmt, on : \E T \in {csSaved, csOpen} :
          TablesAfter(stmt, on, T) # NoTables /\ csOpen' = TablesAfter(stmt, on, T)

LEMMA ConfigSteps == [CSNext]_csVars => TablesMove
<1> SUFFICES ASSUME [CSNext]_csVars PROVE TablesMove
  OBVIOUS
<1>1. ASSUME NEW w \in Workers, StatementRuns(w) PROVE TablesMove
  <2> DEFINE base == IF csNext[w] = 1 /\ csBroken THEN csSaved ELSE csOpen
             after == IF csBroken /\ ~(csNext[w] = 1) THEN NoTables
                      ELSE TablesAfter(Statements(csJob[w].op)[csNext[w]], csJob[w].on, base)
  <2>1. csSaved' = csSaved /\ csOpen' = (IF after = NoTables THEN base ELSE after) /\ base \in {csSaved, csOpen}
    BY <1>1 DEF StatementRuns
  <2>2. CASE after = NoTables
    BY <2>1, <2>2 DEF TablesMove
  <2>3. CASE after # NoTables
    <3>1. after = TablesAfter(Statements(csJob[w].op)[csNext[w]], csJob[w].on, base)
      BY <2>3
    <3> QED BY <2>1, <2>3, <3>1 DEF TablesMove
  <2> QED BY <2>2, <2>3
<1>2. ASSUME NEW w, ConsoleCommits(w) \/ ConsoleRollsBack(w) \/ SweepStarts(w) \/ HandlerEnds(w) \/ MarkEnds(w)
      PROVE  TablesMove
  BY <1>2 DEF ConsoleCommits, ConsoleRollsBack, SweepStarts, HandlerEnds, MarkEnds, TablesMove
<1>3. ASSUME NEW w, SweepEnds(w) \/ (\E job : JobRequested(w, job)) \/ \E c \in Changes : SweepTakes(w, c)
      PROVE  TablesMove
  BY <1>3 DEF SweepEnds, JobRequested, SweepTakes, TablesMove
<1>4. CASE UNCHANGED csVars
  BY <1>4 DEF csVars, TablesMove
<1> QED BY <1>1, <1>2, <1>3, <1>4 DEF CSNext

LEMMA ConfigStep == CsInv /\ [CSNext]_csVars => CsInv' /\ \A c \in Changes :
       csSaved.status[c] \in {"APPLIED", "FAILED", "CANCELLED"} => csSaved'.status[c] = csSaved.status[c]
<1> SUFFICES ASSUME CsInv, TablesMove
             PROVE  CsInv' /\ \A c \in Changes :
                      csSaved.status[c] \in {"APPLIED", "FAILED", "CANCELLED"} => csSaved'.status[c] = csSaved.status[c]
  BY ConfigSteps
<1>1. CASE csSaved' = csSaved /\ csOpen' \in {csSaved, csOpen}
  BY <1>1 DEF CsInv, CsTypes, FinalSeen
<1>2. CASE csSaved' = csOpen /\ csOpen' = csOpen
  BY <1>2 DEF CsInv, CsTypes, FinalSeen, Final
<1>3. ASSUME csSaved' = csSaved, NEW T \in {csSaved, csOpen}, NEW stmt, NEW on,
             TablesAfter(stmt, on, T) # NoTables, csOpen' = TablesAfter(stmt, on, T)
      PROVE  CsInv' /\ csSaved' = csSaved
  <2>1. T \in Tables
    BY DEF CsInv, CsTypes
  <2>2. csOpen' \in Tables /\ Keeps(T, csOpen')
    BY <1>3, <2>1, StatementKeeps
  <2> QED BY <1>3, <2>2 DEF CsInv, CsTypes, FinalSeen, Keeps
<1> QED BY <1>1, <1>2, <1>3 DEF TablesMove

-----------------------------------------------------------------------------
(* What a player who reconnects is told (engine.py, service.py).           *)

Statuses == {"BETTING_OPEN", "BETTING_CLOSED", "RESULT_PROCESSING", "RESULT", "RESULT_DECLARED",
             "SETTLED", "CLOSED", "SETTLED_PENDING", "SETTLE_FAILED"}
EventKinds == {"round.started", "bet.accepted", "betting.closed", "result.processing", "result.published",
               "settlement.completed", "session.completed", "settlement.pending", "settlement.failed",
               "round.cancelled"}
RoundRecord == [status : Statuses, version : Nat, events : Seq(EventKinds)]

Told(r) ==
  \E seq \in DOMAIN reRounds[r].events : reRounds[r].events[seq] \in {"result.published", "round.cancelled"}

\* A round whose status shows the hands, or will again once it is resumed, has had its result
\* published or was cancelled.
ShownIsTold ==
  /\ \A r \in 1..Now : Revealed(reRounds[r].status) => Told(r)
  /\ Status = "SETTLED_PENDING" => reResume \in Parkable /\ (Revealed(reResume) => Told(Now))

\* The reconnect in progress asks from where its player is, and what it read of a round is so.
VisitSound ==
  /\ reCall.at \in {"away", "version", "events"}
  /\ reCall.at # "away" => reCall.since = reSeen /\ reCall.round \in 1..Now
  /\ reCall.at = "version" /\ Revealed(reCall.status) => Told(reCall.round)

EventTypes ==
  /\ reRounds \in Seq(RoundRecord) /\ Now <= LastRound
  /\ \A r \in 1..LastRound : r > Now => reHas[r] = {}
  /\ reHas \in [1..LastRound -> SUBSET Nat] /\ reSeen \in Nat /\ reKept \in 0..Now /\ reLearned \subseteq 1..Now
  /\ \A r \in 1..Now : reHas[r] \subseteq DOMAIN reRounds[r].events

ReInv == EventTypes /\ ShownIsTold /\ VisitSound /\ RoundEventsSafe

LEMMA EventsInit == ReInit => ReInv
<1> SUFFICES ASSUME ReInit PROVE ReInv
  OBVIOUS
<1>0. Now = 0 /\ reRounds = <<>> /\ LastRound \in Nat
  BY EventsAssumption DEF ReInit, NoRounds, Now
<1>1. EventTypes
  BY <1>0 DEF ReInit, EventTypes
<1>2. ShownIsTold
  BY <1>0 DEF ShownIsTold, Status
<1>3. VisitSound /\ RoundEventsSafe
  BY <1>0 DEF ReInit, VisitSound, NoVisit, RoundEventsSafe, ReplayComplete, HandsAfterResult
<1> QED BY <1>1, <1>2, <1>3 DEF ReInv

Telling(evs) == \E seq \in DOMAIN evs : evs[seq] \in {"result.published", "round.cancelled"}

\* What a step of the last round comes to: another status, and perhaps an event more.
Turns(new) ==
  /\ Now \in Nat \ {0} /\ reRounds' = [reRounds EXCEPT ![Now] = new] /\ new \in RoundRecord
  /\ new.events = reRounds[Now].events \/ \E kind \in EventKinds : new.events = Append(reRounds[Now].events, kind)
  /\ Revealed(new.status) => Told(Now) \/ Telling(new.events)
  /\ new.status = "SETTLED_PENDING" =>
       reResume' \in Parkable /\ (Revealed(reResume') => Told(Now))

LEMMA RecordTurned ==
  ASSUME NEW R \in RoundRecord, NEW to \in Statuses
  PROVE  Turned(R, to) \in RoundRecord /\ Turned(R, to).status = to /\ Turned(R, to).events = R.events
<1>1. [R EXCEPT !.status = to] \in RoundRecord
  BY DEF RoundRecord
<1>2. ASSUME NEW P \in RoundRecord, NEW v \in Nat PROVE [P EXCEPT !.version = v] \in RoundRecord
  BY DEF RoundRecord
<1>3. Turned(R, to) = [[R EXCEPT !.status = to] EXCEPT !.version = R.version + 1]
  BY DEF Turned
<1>4. R.version + 1 \in Nat
  BY DEF RoundRecord
<1>5. Turned(R, to) \in RoundRecord
  BY <1>1, <1>2, <1>3, <1>4
<1>6. Turned(R, to).status = to /\ Turned(R, to).events = R.events
  BY DEF Turned, RoundRecord
<1> QED BY <1>5, <1>6

LEMMA RecordEmitted ==
  ASSUME NEW R \in RoundRecord, NEW kind \in EventKinds
  PROVE  /\ Emitted(R, kind) \in RoundRecord /\ Emitted(R, kind).status = R.status
         /\ Emitted(R, kind).events = Append(R.events, kind) /\ R.events \in Seq(EventKinds)
BY DEF RoundRecord, Emitted

LEMMA AppendTells ==
  ASSUME NEW evs \in Seq(EventKinds), NEW kind \in EventKinds
  PROVE  /\ DOMAIN Append(evs, kind) = 1..(Len(evs) + 1) /\ Len(Append(evs, kind)) = Len(evs) + 1 /\ DOMAIN evs = 1..Len(evs)
         /\ \A i \in DOMAIN evs : Append(evs, kind)[i] = evs[i]
         /\ Append(evs, kind)[Len(evs) + 1] = kind
         /\ kind \in {"result.published", "round.cancelled"} => Telling(Append(evs, kind))
<1>1. Len(evs) \in Nat /\ DOMAIN evs = 1..Len(evs) /\ Append(evs, kind) \in Seq(EventKinds) /\ Len(Append(evs, kind)) = Len(evs) + 1
  OBVIOUS
<1>2. DOMAIN Append(evs, kind) = 1..(Len(evs) + 1)
  BY <1>1
<1>3. \A i \in 1..Len(evs) : Append(evs, kind)[i] = evs[i]
  BY <1>1
<1>4. Append(evs, kind)[Len(evs) + 1] = kind
  BY <1>1
<1>5. Len(evs) + 1 \in DOMAIN Append(evs, kind)
  BY <1>1
<1> QED BY <1>1, <1>2, <1>3, <1>4, <1>5 DEF Telling

LEMMA LastRoundThere ==
  ASSUME EventTypes, Status # "WAITING"
  PROVE  Now \in Nat \ {0} /\ Now \in DOMAIN reRounds /\ reRounds[Now] \in RoundRecord /\ Status = reRounds[Now].status
<1>1. reRounds \in Seq(RoundRecord) /\ Now = Len(reRounds) /\ Now \in Nat /\ Now # 0
  BY DEF EventTypes, Now, Status
<1>2. Now \in DOMAIN reRounds /\ reRounds[Now] \in RoundRecord
  BY <1>1
<1> QED BY <1>1, <1>2 DEF Status

PlainTurns == BetAccepted \/ Advances \/ ParksRound \/ ResumesRound \/ FailsRound \/ CancelsRound

LEMMA RoomTurns ==
  ASSUME EventTypes, ShownIsTold, PlainTurns
  PROVE  ReaderSame /\ \E new : Turns(new)
<1> DEFINE goal == ReaderSame /\ \E new : Turns(new)
<1> SUFFICES goal
  OBVIOUS
\* Where a move of the round leads.
<1>m. ASSUME NEW from \in Statuses, NEW to \in Statuses, NEW kind \in EventKinds, RoundMoves(from, to, kind),
             Revealed(to) => Revealed(from) \/ kind \in {"result.published", "round.cancelled"},
             to = "SETTLED_PENDING" => from \in Parkable /\ reResume' = from
      PROVE  goal
  <2> DEFINE new == Emitted(Turned(reRounds[Now], to), kind)
  <2>1. Status = from /\ ReaderSame /\ reRounds' = [reRounds EXCEPT ![Now] = new]
    BY <1>m DEF RoundMoves
  <2>2. Now \in Nat \ {0} /\ Now \in DOMAIN reRounds /\ reRounds[Now] \in RoundRecord /\ reRounds[Now].status = from
    BY <2>1, LastRoundThere DEF Statuses
  <2>3. /\ new \in RoundRecord /\ new.status = to /\ new.events = Append(reRounds[Now].events, kind)
        /\ reRounds[Now].events \in Seq(EventKinds)
    <3> DEFINE turned == Turned(reRounds[Now], to)
    <3>1. turned \in RoundRecord /\ turned.status = to /\ turned.events = reRounds[Now].events
      BY <2>2, RecordTurned
    <3> HIDE DEF turned
    <3>2. /\ Emitted(turned, kind) \in RoundRecord /\ Emitted(turned, kind).status = turned.status
          /\ Emitted(turned, kind).events = Append(turned.events, kind) /\ turned.events \in Seq(EventKinds)
      BY <3>1, RecordEmitted
    <3>3. new = Emitted(turned, kind)
      BY DEF turned
    <3> QED BY <3>1, <3>2, <3>3
  <2>4. Revealed(from) => Told(Now)
    <3>1. Now \in 1..Now
      BY <2>2
    <3> QED BY <2>2, <3>1 DEF ShownIsTold
  <2> HIDE DEF new
  <2>5. Revealed(to) => Told(Now) \/ Telling(new.events)
    BY <1>m, <2>3, <2>4, AppendTells
  <2>7. to = "SETTLED_PENDING" => reResume' \in Parkable /\ (Revealed(reResume') => Told(Now))
    BY <1>m, <2>4
  <2>8. Turns(new)
    BY <2>1, <2>2, <2>3, <2>5, <2>7 DEF Turns
  <2> QED BY <2>1, <2>8
<1>1. ASSUME BetAccepted PROVE goal
  <2> DEFINE new == Emitted(reRounds[Now], "bet.accepted")
  <2>1. Status = "BETTING_OPEN" /\ ReaderSame /\ reRounds' = [reRounds EXCEPT ![Now] = new]
    BY <1>1 DEF BetAccepted
  <2>2. Now \in Nat \ {0} /\ reRounds[Now] \in RoundRecord /\ reRounds[Now].status = "BETTING_OPEN"
    BY <2>1, LastRoundThere
  <2>3. "bet.accepted" \in EventKinds /\ ~Revealed("BETTING_OPEN")
    BY DEF EventKinds, Revealed
  <2>4. new \in RoundRecord /\ new.status = "BETTING_OPEN" /\ new.events = Append(reRounds[Now].events, "bet.accepted")
    BY <2>2, <2>3, RecordEmitted
  <2> HIDE DEF new
  <2>5. Turns(new)
    BY <2>1, <2>2, <2>3, <2>4 DEF Turns
  <2> QED BY <2>1, <2>5
<1>2. ASSUME ResumesRound PROVE goal
  <2> DEFINE new == Turned(reRounds[Now], reResume)
  <2>1. Status = "SETTLED_PENDING" /\ ReaderSame /\ reRounds' = [reRounds EXCEPT ![Now] = new] /\ UNCHANGED reResume
    BY <1>2 DEF ResumesRound
  <2>2. Now \in Nat \ {0} /\ reRounds[Now] \in RoundRecord
    BY <2>1, LastRoundThere
  <2>3. reResume \in Parkable /\ (Revealed(reResume) => Told(Now))
    BY <2>1 DEF ShownIsTold
  <2>4. reResume \in Statuses /\ reResume # "SETTLED_PENDING"
    BY <2>3 DEF Statuses, Parkable
  <2>5. new \in RoundRecord /\ new.status = reResume /\ new.events = reRounds[Now].events
    BY <2>2, <2>4, RecordTurned
  <2> HIDE DEF new
  <2>6. Turns(new)
    BY <2>1, <2>2, <2>3, <2>4, <2>5 DEF Turns
  <2> QED BY <2>1, <2>6
<1> HIDE DEF goal
<1>3. ASSUME Advances PROVE goal
  <2>1. CASE RoundMoves("BETTING_OPEN", "BETTING_CLOSED", "betting.closed")
    BY <2>1, <1>m DEF Statuses, EventKinds, Revealed
  <2>2. CASE RoundMoves("BETTING_CLOSED", "RESULT_PROCESSING", "result.processing")
    BY <2>2, <1>m DEF Statuses, EventKinds, Revealed
  <2>3. CASE RoundMoves("RESULT_PROCESSING", "RESULT", "result.published")
    BY <2>3, <1>m DEF Statuses, EventKinds, Revealed
  <2>4. CASE RoundMoves("RESULT", "SETTLED", "settlement.completed")
    BY <2>4, <1>m DEF Statuses, EventKinds, Revealed
  <2>5. CASE RoundMoves("SETTLED", "CLOSED", "session.completed")
    BY <2>5, <1>m DEF Statuses, EventKinds, Revealed
  <2> QED BY <1>3, <2>1, <2>2, <2>3, <2>4, <2>5 DEF Advances
<1>4. ASSUME ParksRound PROVE goal
  <2>1. Status \in Parkable /\ reResume' = Status /\ RoundMoves(Status, "SETTLED_PENDING", "settlement.pending")
    BY <1>4 DEF ParksRound
  <2>2. Status \in Statuses /\ "SETTLED_PENDING" \in Statuses /\ "settlement.pending" \in EventKinds
    BY <2>1 DEF Parkable, Statuses, EventKinds
  <2>3. ~Revealed("SETTLED_PENDING")
    BY DEF Revealed
  <2> QED BY <2>1, <2>2, <2>3, <1>m
<1>5. ASSUME FailsRound PROVE goal
  BY <1>5, <1>m DEF FailsRound, Statuses, EventKinds, Revealed
<1>6. ASSUME CancelsRound PROVE goal
  <2>1. Status \in Statuses /\ RoundMoves(Status, "CLOSED", "round.cancelled")
    BY <1>6 DEF CancelsRound, Cancellable, Statuses
  <2> QED BY <2>1, <1>m DEF Statuses, EventKinds
<1> QED BY <1>1, <1>2, <1>3, <1>4, <1>5, <1>6 DEF PlainTurns

\* The rounds there were keep the events they had.
EventsGrow ==
  \A r \in 1..Now : /\ r \in 1..Now'
                    /\ \A i \in DOMAIN reRounds[r].events :
                         i \in DOMAIN reRounds'[r].events /\ reRounds'[r].events[i] = reRounds[r].events[i]

LEMMA ReaderUntouched ==
  ASSUME ReInv, ReaderSame, EventsGrow, reRounds' \in Seq(RoundRecord), Now' \in Nat, Now \in Nat, Now <= Now',
         Now' <= LastRound, ShownIsTold'
  PROVE  ReInv'
<1>1. EventTypes /\ ShownIsTold /\ VisitSound /\ RoundEventsSafe
  BY DEF ReInv
<1>2. /\ reCall' = reCall /\ reSeen' = reSeen /\ reHas' = reHas /\ reKept' = reKept /\ reCut' = reCut
      /\ reLearned' = reLearned /\ LastRound \in Nat
  BY EventsAssumption DEF ReaderSame
<1>3. \A r \in 1..Now : Told(r) => Told(r)'
  BY DEF EventsGrow, Told
<1>4. EventTypes'
  <2>1. \A r \in 1..LastRound : r > Now' => reHas'[r] = {}
    BY SMTT(60), <1>1, <1>2 DEF EventTypes
  <2>2. reKept' \in 0..Now' /\ reLearned' \subseteq 1..Now'
    BY <1>1, <1>2 DEF EventTypes
  <2>3. ASSUME NEW r \in 1..Now' PROVE reHas'[r] \subseteq DOMAIN reRounds'[r].events
    <3>1. CASE r > Now
      BY <3>1, <1>1, <1>2 DEF EventTypes
    <3>2. CASE r <= Now
      <4>1. r \in 1..Now
        BY <3>2
      <4> QED BY <4>1, <1>1, <1>2 DEF EventTypes, EventsGrow
    <3> QED BY <3>1, <3>2
  <2>4. reHas' \in [1..LastRound -> SUBSET Nat] /\ reSeen' \in Nat
    BY <1>1, <1>2 DEF EventTypes
  <2> QED BY <2>1, <2>2, <2>3, <2>4 DEF EventTypes
<1>5. VisitSound'
  <2>1. reCall.at # "away" => reCall.round \in 1..Now /\ reCall.round \in 1..Now'
    BY <1>1 DEF VisitSound, EventsGrow
  <2> QED BY <2>1, <1>1, <1>2, <1>3 DEF VisitSound
<1>6. RoundEventsSafe'
  <2>1. ReplayComplete'
    BY <1>1, <1>2 DEF RoundEventsSafe, ReplayComplete
  <2>2. HandsAfterResult'
    <3>1. \A r \in reLearned : r \in 1..Now /\ Told(r)
      BY <1>1 DEF EventTypes, RoundEventsSafe, HandsAfterResult, Told
    <3> QED BY <3>1, <1>2, <1>3 DEF HandsAfterResult, Told
  <2> QED BY <2>1, <2>2 DEF RoundEventsSafe
<1> QED BY <1>4, <1>5, <1>6 DEF ReInv

LEMMA TurnKeeps ==
  ASSUME ReInv, ReaderSame, NEW new, Turns(new)
  PROVE  ReInv'
<1>0. EventTypes /\ ShownIsTold
  BY DEF ReInv
<1>1. reRounds \in Seq(RoundRecord) /\ Now = Len(reRounds) /\ Now \in Nat \ {0} /\ Now <= LastRound
  BY <1>0 DEF EventTypes, Now, Turns
<1>2. /\ reRounds' = [reRounds EXCEPT ![Now] = new] /\ new \in RoundRecord /\ Now \in DOMAIN reRounds
      /\ reRounds[Now] \in RoundRecord
  BY <1>1 DEF Turns
<1>3. reRounds' \in Seq(RoundRecord) /\ Len(reRounds') = Len(reRounds)
  BY <1>1, <1>2
<1>4. Now' = Now
  BY <1>1, <1>3 DEF Now
<1>5. reRounds'[Now] = new /\ \A r \in 1..Now : r # Now => reRounds'[r] = reRounds[r]
  BY <1>1, <1>2
<1>6. reRounds[Now].events \in Seq(EventKinds)
  BY <1>2 DEF RoundRecord
<1>7. \A i \in DOMAIN reRounds[Now].events : i \in DOMAIN new.events /\ new.events[i] = reRounds[Now].events[i]
  <2>1. CASE new.events = reRounds[Now].events
    BY <2>1
  <2>2. CASE \E kind \in EventKinds : new.events = Append(reRounds[Now].events, kind)
    <3> DEFINE old == reRounds[Now].events
    <3>1. PICK kind \in EventKinds : new.events = Append(old, kind)
      BY <2>2
    <3>2. old \in Seq(EventKinds)
      BY <1>6
    <3> HIDE DEF old
    <3>3. /\ DOMAIN Append(old, kind) = 1..(Len(old) + 1) /\ DOMAIN old = 1..Len(old) /\ Len(old) \in Nat
          /\ \A i \in DOMAIN old : Append(old, kind)[i] = old[i]
      BY <3>2, AppendTells
    <3>4. \A i \in DOMAIN old : i \in DOMAIN new.events /\ new.events[i] = old[i]
      BY <3>1, <3>3
    <3> QED BY <3>4 DEF old
  <2> QED BY <2>1, <2>2 DEF Turns
<1>8. EventsGrow
  BY <1>4, <1>5, <1>7 DEF EventsGrow
<1>9. \A r \in 1..Now : Told(r) => Told(r)'
  BY <1>8 DEF EventsGrow, Told
<1>10. ShownIsTold'
  <2>1. ASSUME NEW r \in 1..Now', Revealed(reRounds'[r].status) PROVE Told(r)'
    <3>1. CASE r # Now
      BY <3>1, <2>1, <1>0, <1>4, <1>5, <1>9 DEF ShownIsTold
    <3>2. CASE r = Now
      <4>1. Revealed(new.status) /\ Now \in 1..Now
        BY <3>2, <2>1, <1>1, <1>5
      <4>2. Told(Now) \/ Telling(new.events)
        BY <4>1 DEF Turns
      <4>3. Telling(new.events) => Told(Now)'
        BY <1>4, <1>5 DEF Telling, Told
      <4>4. Told(Now) => Told(Now)'
        BY <4>1, <1>4, <1>5, <1>8 DEF EventsGrow, Told
      <4>5. Told(Now)' <=> \E i \in DOMAIN reRounds'[r].events : reRounds'[r].events[i] \in {"result.published", "round.cancelled"}
        BY <1>4, <3>2 DEF Told
      <4> QED BY <4>2, <4>3, <4>4, <4>5 DEF Told
    <3> QED BY <3>1, <3>2
  <2>2. Status' = new.status
    BY <1>1, <1>4, <1>5 DEF Status
  <2>3. Told(Now) => Told(Now)'
    BY <1>1, <1>4, <1>9 DEF Told
  <2> QED BY <2>1, <2>2, <2>3 DEF ShownIsTold, Turns
<1> QED BY <1>1, <1>3, <1>4, <1>8, <1>10, ReaderUntouched

LEMMA DealKeeps ==
  ASSUME ReInv, DealsRound
  PROVE  ReInv'
<1> DEFINE first == [status |-> "BETTING_OPEN", version |-> 1, events |-> <<"round.started">>]
<1>0. EventTypes /\ ShownIsTold /\ LastRound \in Nat
  BY EventsAssumption DEF ReInv
<1>1. reRounds \in Seq(RoundRecord) /\ Now = Len(reRounds) /\ Now \in Nat /\ Now < LastRound
  BY <1>0 DEF EventTypes, Now, DealsRound
<1>2. first \in RoundRecord
  <2>1. <<"round.started">> \in Seq(EventKinds)
    BY DEF EventKinds
  <2> QED BY <2>1 DEF RoundRecord, Statuses
<1>3. reRounds' = Append(reRounds, first) /\ ReaderSame
  BY DEF DealsRound
<1>4. first.status = "BETTING_OPEN"
  OBVIOUS
<1> HIDE DEF first
<1>5. /\ reRounds' \in Seq(RoundRecord) /\ Len(reRounds') = Len(reRounds) + 1
      /\ reRounds'[Now + 1] = first /\ \A r \in 1..Now : reRounds'[r] = reRounds[r]
  BY <1>1, <1>2, <1>3
<1>6. Now' = Now + 1
  BY <1>1, <1>5 DEF Now
<1>7. EventsGrow
  BY <1>1, <1>5, <1>6 DEF EventsGrow
<1>8. ShownIsTold'
  <2>1. Status' = "BETTING_OPEN"
    BY <1>1, <1>4, <1>5, <1>6 DEF Status
  <2>2. ASSUME NEW r \in 1..Now', Revealed(reRounds'[r].status) PROVE Told(r)'
    <3>1. ~Revealed("BETTING_OPEN")
      BY DEF Revealed
    <3>2. r # Now + 1
      BY <3>1, <2>2, <1>4, <1>5
    <3>3. r \in 1..Now
      BY <3>2, <1>1, <1>6
    <3> QED BY <3>3, <2>2, <1>0, <1>5 DEF ShownIsTold, Told
  <2> QED BY <2>1, <2>2 DEF ShownIsTold
<1>9. Now' \in Nat /\ Now <= Now' /\ Now' <= LastRound
  BY <1>0, <1>1, <1>6
<1> QED BY <1>1, <1>3, <1>5, <1>7, <1>8, <1>9, ReaderUntouched

LEMMA RefusalKeeps ==
  ASSUME ReInv, ParkRefused
  PROVE  ReInv'
<1>0. EventTypes /\ ShownIsTold /\ LastRound \in Nat
  BY EventsAssumption DEF ReInv
<1>1. reRounds' = reRounds /\ ReaderSame /\ Status = "BETTING_OPEN"
  BY DEF ParkRefused
<1>2. Now' = Now /\ Now \in Nat /\ Now <= LastRound /\ reRounds \in Seq(RoundRecord) /\ Status' = Status
  BY <1>0, <1>1 DEF EventTypes, Now, Status
<1>3. EventsGrow
  BY <1>1, <1>2 DEF EventsGrow
<1>4. ShownIsTold'
  BY <1>0, <1>1, <1>2 DEF ShownIsTold, Told
<1> QED BY <1>0, <1>1, <1>2, <1>3, <1>4, ReaderUntouched

\* What of the invariant is about the rounds alone.
LEMMA RoundsSame ==
  ASSUME EventTypes, ShownIsTold, UNCHANGED <<reRounds, reResume>>
  PROVE  ShownIsTold' /\ Now' = Now /\ (\A r \in 1..Now : Told(r)' <=> Told(r)) /\ Status' = Status
BY DEF ShownIsTold, Now, Status, Told

LEMMA VisitBegins ==
  ASSUME ReInv, ReadsStatus
  PROVE  ReInv'
<1>0. EventTypes /\ ShownIsTold /\ RoundEventsSafe
  BY DEF ReInv
<1>1. /\ Now > 0 /\ reCall' = [at |-> "version", round |-> Now, status |-> Status, since |-> reSeen]
      /\ UNCHANGED <<reRounds, reResume, reSeen, reHas, reKept, reCut, reLearned>>
  BY DEF ReadsStatus
<1>2. ShownIsTold' /\ Now' = Now /\ \A r \in 1..Now : Told(r)' <=> Told(r)
  BY <1>0, <1>1, RoundsSame
<1>3. EventTypes' /\ RoundEventsSafe'
  BY <1>0, <1>1, <1>2 DEF EventTypes, RoundEventsSafe, ReplayComplete, HandsAfterResult
<1>4. VisitSound'
  <2>1. Now \in Nat /\ Now \in 1..Now /\ Status = reRounds[Now].status
    BY <1>0, <1>1 DEF EventTypes, Now, Status
  <2>2. Revealed(Status) => Told(Now)
    BY <2>1, <1>0 DEF ShownIsTold
  <2>3. Revealed(Status) => Told(Now)'
    BY <2>1, <2>2, <1>2
  <2>4. reCall'.at = "version" /\ reCall'.round = Now /\ reCall'.status = Status /\ reCall'.since = reSeen
    BY <1>1
  <2>5. Told(Now)' => Told(reCall.round)'
    BY <2>4, <1>2 DEF Told
  <2> QED BY <2>1, <2>3, <2>4, <2>5, <1>1, <1>2 DEF VisitSound
<1> QED BY <1>2, <1>3, <1>4 DEF ReInv

LEMMA VersionRead ==
  ASSUME ReInv, ReadsVersion
  PROVE  ReInv'
<1>0. EventTypes /\ ShownIsTold /\ VisitSound /\ RoundEventsSafe
  BY DEF ReInv
<1>1. /\ reCall.at = "version" /\ reCall' = [reCall EXCEPT !.at = "events"]
      /\ reLearned' = reLearned \cup (IF Revealed(reCall.status) THEN {reCall.round} ELSE {})
      /\ UNCHANGED <<reRounds, reResume, reSeen, reHas, reKept, reCut>>
  BY DEF ReadsVersion
<1>2. ShownIsTold' /\ Now' = Now /\ \A r \in 1..Now : Told(r)' <=> Told(r)
  BY <1>0, <1>1, RoundsSame
<1>3. reCall.round \in 1..Now /\ reCall.since = reSeen /\ (Revealed(reCall.status) => Told(reCall.round))
  BY <1>0, <1>1 DEF VisitSound
<1>4. EventTypes'
  BY <1>0, <1>1, <1>2, <1>3 DEF EventTypes
<1>5. RoundEventsSafe'
  <2>1. ReplayComplete'
    BY <1>0, <1>1 DEF RoundEventsSafe, ReplayComplete
  <2>2. \A r \in reLearned' : Told(r)
    BY <1>0, <1>1, <1>3 DEF RoundEventsSafe, HandsAfterResult, Told
  <2>3. HandsAfterResult'
    BY <2>2, <1>1 DEF HandsAfterResult, Told
  <2> QED BY <2>1, <2>3 DEF RoundEventsSafe
<1>6. reCall'.at \in {"away", "events"} /\ reCall'.round = reCall.round /\ reCall'.since = reCall.since
  BY <1>0, <1>1 DEF VisitSound
<1>7. VisitSound'
  BY <1>1, <1>2, <1>3, <1>6 DEF VisitSound
<1> QED BY <1>2, <1>4, <1>5, <1>7 DEF ReInv

LEMMA EventsRead ==
  ASSUME ReInv, ReadsEvents
  PROVE  ReInv'
<1> DEFINE events == reRounds[Now].events
           due == Due(reCall.since, events)
<1>0. EventTypes /\ ShownIsTold /\ VisitSound /\ RoundEventsSafe /\ LastRound \in Nat /\ EventCap \in Nat
  BY EventsAssumption DEF ReInv
<1>1. /\ reCall.at = "events" /\ reCall' = NoVisit /\ reHas' = [reHas EXCEPT ![Now] = @ \cup due]
      /\ reSeen' = (IF due = {} THEN reSeen ELSE Len(events)) /\ reKept' = (IF due = {} THEN reKept ELSE Now)
      /\ reCut' = (reCut \/ (reCall.since > 0 /\ reKept # Now) \/ Len(events) - reCall.since > EventCap)
      /\ \A r \in reLearned' : r \in reLearned \/ (r = Now /\ \E seq \in due : events[seq] = "result.published")
      /\ UNCHANGED <<reRounds, reResume>>
  BY DEF ReadsEvents
<1>2. ShownIsTold' /\ Now' = Now
  BY <1>0, <1>1, RoundsSame
<1>3. /\ reCall.since = reSeen /\ reSeen \in Nat /\ Now \in Nat /\ Now \in 1..Now /\ Now \in 1..LastRound
      /\ reRounds[Now] \in RoundRecord
  <2>1. reCall.since = reSeen /\ reCall.round \in 1..Now
    BY <1>0, <1>1 DEF VisitSound
  <2>2. reRounds \in Seq(RoundRecord) /\ Now = Len(reRounds) /\ Now <= LastRound /\ reSeen \in Nat
    BY <1>0 DEF EventTypes, Now
  <2>3. Now \in Nat /\ Now \in 1..Now
    BY <2>1, <2>2
  <2> QED BY <2>1, <2>2, <2>3, <1>0
<1>4. events \in Seq(EventKinds)
  BY <1>3 DEF RoundRecord
<1>5. Len(events) \in Nat /\ DOMAIN events = 1..Len(events)
  BY <1>4
<1>6. due \subseteq DOMAIN events
  BY DEF Due
<1>7. reHas \in [1..LastRound -> SUBSET Nat] /\ reHas[Now] \subseteq DOMAIN events
  BY <1>0, <1>3 DEF EventTypes
<1>8. reHas'[Now] = reHas[Now] \cup due /\ \A r \in 1..LastRound : r # Now => reHas'[r] = reHas[r]
  BY <1>1, <1>3, <1>7
\* If anything is due, the last event is; all after the seq given is, if no more than the cap.
<1>9. due # {} => Len(events) \in due
  <2> SUFFICES ASSUME NEW seq \in due PROVE Len(events) \in due
    OBVIOUS
  <2>1. seq \in 1..Len(events) /\ seq > reSeen /\ seq > Len(events) - EventCap
    BY <1>3, <1>5 DEF Due
  <2>2. Len(events) \in 1..Len(events) /\ Len(events) > reSeen /\ Len(events) > Len(events) - EventCap
    BY <2>1, <1>0, <1>3, <1>5
  <2> QED BY <2>2, <1>3, <1>5 DEF Due
<1>10. ~(Len(events) - reSeen > EventCap) => due = {seq \in 1..Len(events) : seq > reSeen}
  <2> SUFFICES ASSUME ~(Len(events) - reSeen > EventCap)
               PROVE  \A seq \in 1..Len(events) : seq \in due <=> seq > reSeen
    BY <1>5, <1>6
  <2>1. ASSUME NEW n \in Nat, n = Len(events), NEW seq \in 1..n, seq > reSeen PROVE seq > n - EventCap
    BY <2>1, <1>0, <1>3
  <2> QED BY <2>1, <1>3, <1>5 DEF Due
<1> HIDE DEF due, events
<1>11. EventTypes'
  <2>1. reHas' \in [1..LastRound -> SUBSET Nat]
    <3>1. due \subseteq Nat
      BY <1>5, <1>6
    <3> QED BY <3>1, <1>1, <1>3, <1>7
  <2>2. \A r \in 1..LastRound : r > Now => reHas'[r] = {}
    BY <1>0, <1>3, <1>8 DEF EventTypes
  <2>3. reSeen' \in Nat /\ reKept' \in 0..Now /\ reLearned' \subseteq 1..Now
    <3>1. reSeen' \in {reSeen, Len(events)} /\ reKept' \in {reKept, Now}
      BY <1>1
    <3>2. reSeen' \in Nat /\ reKept' \in 0..Now
      BY <3>1, <1>0, <1>3, <1>5 DEF EventTypes
    <3>3. reLearned' \subseteq 1..Now
      BY <1>0, <1>1, <1>3 DEF EventTypes
    <3> QED BY <3>2, <3>3
  <2>4. \A r \in 1..Now : reHas'[r] \subseteq DOMAIN reRounds[r].events
    <3>1. ASSUME NEW r \in 1..Now, r # Now PROVE reHas'[r] \subseteq DOMAIN reRounds[r].events
      BY <3>1, <1>0, <1>3, <1>8 DEF EventTypes
    <3>2. reHas'[Now] \subseteq DOMAIN reRounds[Now].events
      BY <1>6, <1>7, <1>8 DEF events
    <3> QED BY <3>1, <3>2
  <2> QED BY <2>1, <2>2, <2>3, <2>4, <1>0, <1>1, <1>2 DEF EventTypes
<1>12. VisitSound'
  BY <1>1 DEF VisitSound, NoVisit
<1>13. ReplayComplete'
  <2>0. (reKept > 0 /\ ~reCut => reHas[reKept] = 1..reSeen) /\ (reKept > 0 => reSeen \in reHas[reKept])
        /\ reKept \in 0..Now
    BY <1>0 DEF RoundEventsSafe, ReplayComplete, EventTypes
  <2>1. CASE due = {}
    <3>1. reSeen' = reSeen /\ reKept' = reKept /\ (~reCut' => ~reCut)
      BY <2>1, <1>1
    <3>2. reKept > 0 => reHas'[reKept] = reHas[reKept]
      <4>1. CASE reKept = Now
        BY <4>1, <2>1, <1>8
      <4>2. CASE reKept # Now
        <5>1. reKept > 0 => reKept \in 1..LastRound
          BY <2>0, <1>0, <1>3
        <5> QED BY <5>1, <4>2, <1>8
      <4> QED BY <4>1, <4>2
    <3> QED BY <3>1, <3>2, <2>0 DEF ReplayComplete
  <2>2. CASE due # {}
    <3>1. reSeen' = Len(events) /\ reKept' = Now
      BY <2>2, <1>1
    <3>2. reSeen' \in reHas'[reKept']
      BY <3>1, <2>2, <1>8, <1>9
    <3>3. ASSUME ~reCut' PROVE reHas'[Now] = 1..Len(events)
      <4>1. due = {seq \in 1..Len(events) : seq > reSeen} /\ (reSeen > 0 => reKept = Now) /\ ~reCut
        BY <3>3, <1>1, <1>3, <1>10
      <4>2. CASE reSeen = 0
        BY <4>1, <4>2, <1>5, <1>7, <1>8
      <4>3. CASE reSeen > 0
        <5>1. reHas[Now] = 1..reSeen
          BY <4>1, <4>3, <1>3, <2>0
        <5>2. \A seq \in 1..Len(events) : seq \in 1..reSeen \/ seq > reSeen
          BY <1>3, <1>5
        <5> QED BY <5>1, <5>2, <4>1, <1>5, <1>7, <1>8
      <4> QED BY <4>2, <4>3, <1>3
    <3> QED BY <3>1, <3>2, <3>3 DEF ReplayComplete
  <2> QED BY <2>1, <2>2
<1>14. HandsAfterResult'
  <2>1. \A r \in reLearned' : Told(r)
    <3> SUFFICES ASSUME NEW r \in reLearned' PROVE Told(r)
      OBVIOUS
    <3>1. CASE r \in reLearned
      BY <3>1, <1>0 DEF RoundEventsSafe, HandsAfterResult, Told
    <3>2. CASE r = Now /\ \E seq \in due : events[seq] = "result.published"
      BY <3>2, <1>6 DEF Told, events
    <3> QED BY <3>1, <3>2, <1>1
  <2> QED BY <2>1, <1>1 DEF HandsAfterResult, Told
<1> QED BY <1>2, <1>11, <1>12, <1>13, <1>14 DEF ReInv, RoundEventsSafe

LEMMA EventsStep ==
  ASSUME ReInv, [ReNext]_reVars
  PROVE  ReInv'
<1>1. CASE UNCHANGED reVars
  BY <1>1 DEF reVars, ReInv, EventTypes, ShownIsTold, VisitSound, RoundEventsSafe, ReplayComplete, HandsAfterResult,
              Told, Now, Status
<1>2. CASE PlainTurns
  <2>1. ReaderSame /\ \E new : Turns(new)
    BY <1>2, RoomTurns DEF ReInv
  <2> QED BY <2>1, TurnKeeps
<1> QED BY <1>1, <1>2, DealKeeps, RefusalKeeps, VisitBegins, VersionRead, EventsRead DEF ReNext, PlainTurns

-----------------------------------------------------------------------------
(* The payout rows of several workers (common/settlement_postgres.py).     *)

RowRecord == [state : {"none", "open", "unpaid", "credited"}, by : PayWorkers \cup {""}, payout : Nat]
PayWorker ==
  [at : {"record", "commit", "pay", "mark", "settled", "parked", "raised", "ended"}, place : DOMAIN RoundBets, payout : Nat]
PayoutTypes ==
  /\ prRow \in [PrBets -> RowRecord] /\ prPaid \in [PrBets -> Seq(Nat)]
  /\ prWorker \in [PayWorkers -> PayWorker]

\* A worker's uncommitted row is its own; the payout it goes by is the row's.
GoesByRow ==
  \A w \in PayWorkers :
    /\ prWorker[w].at = "commit" => prRow[BetOf(w)].state = "open" /\ prRow[BetOf(w)].by = w
    /\ prWorker[w].at \in {"pay", "mark"} =>
         prRow[BetOf(w)].state \in {"unpaid", "credited"} /\ prRow[BetOf(w)].payout = prWorker[w].payout
    /\ prWorker[w].at = "mark" /\ prWorker[w].payout > 0 => prPaid[BetOf(w)] # <<>>

\* The rows that a worker has passed are credited.
PassedRows ==
  \A w \in PayWorkers, i \in DOMAIN RoundBets :
    i < prWorker[w].place \/ prWorker[w].at = "settled" => prRow[RoundBets[i]].state = "credited"
PrInv == PayoutTypes /\ GoesByRow /\ PassedRows /\ PayoutRowsSafe

LEMMA PayoutsBegin == PrInit => PrInv
<1> SUFFICES ASSUME PrInit PROVE PrInv
  OBVIOUS
<1>1. RoundBets \in Seq(PrBets) /\ RoundBets # <<>>
  BY PayoutAssumption
<1>2. 1 \in DOMAIN RoundBets /\ DOMAIN RoundBets \subseteq Nat \ {0} /\ Len(RoundBets) \in DOMAIN RoundBets
  BY <1>1
<1>3. NoRow \in RowRecord /\ NoRow.state = "none" /\ Ready \in PayWorker /\ Ready.at = "record" /\ Ready.place = 1
  BY <1>2 DEF NoRow, Ready, RowRecord, PayWorker
<1>4. PayoutTypes
  BY <1>3 DEF PrInit, PayoutTypes
<1>5. (\A b \in PrBets : prRow[b].state = "none" /\ prPaid[b] = <<>>)
      /\ \A w \in PayWorkers : prWorker[w].at = "record" /\ prWorker[w].place = 1
  BY <1>3 DEF PrInit
<1>6. PassedRows
  BY <1>2, <1>5 DEF PassedRows
<1> QED BY <1>4, <1>5, <1>6 DEF PrInv, GoesByRow, PayoutRowsSafe, PaidAsRecorded, NothingOwedAtEnd

\* Once a row is credited for good and none is dropped but an open one, what was passed stays so.
LEMMA PayoutsStep == PrInv /\ [PrNext]_prVars => PrInv'
<1> SUFFICES ASSUME PrInv, [PrNext]_prVars PROVE PrInv'
  OBVIOUS
<1>t. prRow \in [PrBets -> RowRecord] /\ prPaid \in [PrBets -> Seq(Nat)] /\ prWorker \in [PayWorkers -> PayWorker]
  BY DEF PrInv, PayoutTypes
<1>b. /\ RoundBets \in Seq(PrBets) /\ Len(RoundBets) \in Nat \ {0} /\ DOMAIN RoundBets = 1..Len(RoundBets)
      /\ \A i \in DOMAIN RoundBets : RoundBets[i] \in PrBets
      /\ \A b \in PrBets : \E i \in DOMAIN RoundBets : b = RoundBets[i]
  <2>1. RoundBets \in Seq(PrBets) /\ RoundBets # <<>>
    BY PayoutAssumption
  <2> QED BY <2>1 DEF PrBets
<1>w. \A w \in PayWorkers : BetOf(w) \in PrBets /\ prWorker[w].place \in DOMAIN RoundBets /\ prWorker[w].payout \in Nat
                            /\ prWorker[w] \in PayWorker
  BY <1>t, <1>b DEF BetOf, PayWorker
\* One worker moves to another place or stage; rows are not uncredited.
<1>m. ASSUME NEW w \in PayWorkers, NEW e \in PayWorker, prWorker' = [prWorker EXCEPT ![w] = e],
             prRow' \in [PrBets -> RowRecord],
             \A b \in PrBets : prRow[b].state = "credited" => prRow'[b].state = "credited",
             e.place = prWorker[w].place
               \/ e.place = 1
               \/ (e.place = prWorker[w].place + 1 /\ prRow'[BetOf(w)].state = "credited"),
             e.at = "settled" => e.place = Len(RoundBets) /\ e.place = prWorker[w].place /\ prRow'[BetOf(w)].state = "credited"
      PROVE  PassedRows'
  <2> SUFFICES ASSUME NEW v \in PayWorkers, NEW i \in DOMAIN RoundBets, i < prWorker'[v].place \/ prWorker'[v].at = "settled"
               PROVE  prRow'[RoundBets[i]].state = "credited"
    BY DEF PassedRows
  <2>0. i \in Nat \ {0} /\ i <= Len(RoundBets) /\ RoundBets[i] \in PrBets /\ prWorker[v].place \in Nat
    BY <1>b, <1>w
  <2>1. CASE v # w
    BY <2>0, <2>1, <1>m, <1>t DEF PrInv, PassedRows
  <2>2. CASE v = w
    <3>1. prWorker'[v] = e
      BY <2>2, <1>m, <1>t
    <3>2. i < prWorker[w].place => prRow'[RoundBets[i]].state = "credited"
      BY <2>0, <1>m DEF PrInv, PassedRows
    <3>3. i < prWorker[w].place \/ RoundBets[i] = BetOf(w)
      <4>1. CASE e.at = "settled"
        <5>1. i < prWorker[w].place \/ i = prWorker[w].place
          BY <4>1, <1>m, <2>0, <2>2
        <5> QED BY <5>1 DEF BetOf
      <4>2. CASE e.at # "settled"
        <5>1. i < e.place
          BY <4>2, <3>1
        <5>2. i < prWorker[w].place \/ i = prWorker[w].place
          BY <5>1, <1>m, <2>0, <2>2
        <5> QED BY <5>2 DEF BetOf
      <4> QED BY <4>1, <4>2
    <3>4. ~(i < prWorker[w].place) => prRow'[BetOf(w)].state = "credited"
      <4>1. CASE e.at = "settled"
        BY <4>1, <1>m
      <4>2. CASE e.at # "settled"
        <5>1. i < e.place
          BY <4>2, <3>1
        <5> QED BY <5>1, <1>m, <2>0, <2>2
      <4> QED BY <4>1, <4>2
    <3> QED BY <3>2, <3>3, <3>4
  <2> QED BY <2>1, <2>2
\* The promise follows from the rows, what was paid, and the rows that were passed.
<1>n. ASSUME PassedRows',
             \A b \in PrBets : prRow'[b].state = "credited" /\ prRow'[b].payout > 0 => prPaid'[b] # <<>>
      PROVE  NothingOwedAtEnd'
  BY <1>n, <1>b DEF PassedRows, NothingOwedAtEnd
\* A worker that only changes its stage.
<1>g. ASSUME NEW w \in PayWorkers, NEW at \in {"pay", "mark", "parked", "raised"}, UNCHANGED prRow,
             prWorker' = [prWorker EXCEPT ![w].at = at],
             \A b \in PrBets : prPaid'[b] = prPaid[b] \/ (b = BetOf(w) /\ prPaid[b] = <<>> /\ prPaid'[b] = <<prWorker[w].payout>>),
             prPaid' \in [PrBets -> Seq(Nat)], prWorker[w].at \in {"pay", "mark"}, at # "pay",
             at = "mark" => prWorker[w].payout = 0 \/ prPaid'[BetOf(w)] # <<>>
      PROVE  PrInv'
  <2> DEFINE e == [prWorker[w] EXCEPT !.at = at]
  <2>1. e \in PayWorker /\ e.at = at /\ e.place = prWorker[w].place /\ e.payout = prWorker[w].payout
        /\ prWorker' = [prWorker EXCEPT ![w] = e]
    BY <1>g, <1>w DEF PayWorker
  <2> HIDE DEF e
  <2>2. prWorker' \in [PayWorkers -> PayWorker] /\ prWorker'[w] = e /\ \A v \in PayWorkers : v # w => prWorker'[v] = prWorker[v]
    BY <2>1, <1>t
  <2>3. PassedRows'
    BY <1>g, <1>m, <1>t, <2>1
  <2>4. \A b \in PrBets : prPaid[b] # <<>> => prPaid'[b] # <<>>
    BY <1>g
  <2>5. GoesByRow'
    BY <1>g, <1>w, <2>1, <2>2, <2>4 DEF PrInv, GoesByRow, BetOf
  <2>6. prRow[BetOf(w)].state \in {"unpaid", "credited"} /\ prRow[BetOf(w)].payout = prWorker[w].payout
    BY <1>g DEF PrInv, GoesByRow
  <2>7. PaidAsRecorded'
    BY <1>g, <2>6 DEF PrInv, PayoutRowsSafe, PaidAsRecorded
  <2>8. NothingOwedAtEnd'
    BY <1>g, <1>n, <2>3, <2>4 DEF PrInv, PayoutRowsSafe, NothingOwedAtEnd
  <2>9. PayoutTypes'
    BY <1>g, <1>t, <2>2 DEF PayoutTypes
  <2> QED BY <2>3, <2>5, <2>7, <2>8, <2>9 DEF PrInv, PayoutRowsSafe
\* On to the next row.
<1>o. ASSUME NEW w \in PayWorkers, Onward(w)
      PROVE  \E e \in PayWorker : prWorker' = [prWorker EXCEPT ![w] = e] /\ e.at \in {"settled", "record"}
               /\ \/ e.at = "record" /\ e.place = prWorker[w].place + 1
                  \/ e.at = "settled" /\ e.place = Len(RoundBets) /\ e.place = prWorker[w].place
  <2>1. CASE prWorker[w].place = Len(RoundBets)
    <3>1. prWorker' = [prWorker EXCEPT ![w] = [prWorker[w] EXCEPT !.at = "settled"]]
      BY <1>o, <2>1, <1>t DEF Onward
    <3>2. [prWorker[w] EXCEPT !.at = "settled"] \in PayWorker /\ [prWorker[w] EXCEPT !.at = "settled"].at = "settled"
          /\ [prWorker[w] EXCEPT !.at = "settled"].place = prWorker[w].place
      BY <1>w DEF PayWorker
    <3> QED BY <3>1, <3>2, <2>1
  <2>2. CASE prWorker[w].place # Len(RoundBets)
    <3>1. prWorker' = [prWorker EXCEPT ![w] = [at |-> "record", place |-> prWorker[w].place + 1, payout |-> 0]]
      BY <1>o, <2>2, <1>t DEF Onward
    <3>2. prWorker[w].place + 1 \in DOMAIN RoundBets
      BY <2>2, <1>b, <1>w
    <3>3. [at |-> "record", place |-> prWorker[w].place + 1, payout |-> 0] \in PayWorker
      BY <3>2 DEF PayWorker
    <3> QED BY <3>1, <3>3
  <2> QED BY <2>1, <2>2
<1>1. ASSUME NEW w \in PayWorkers, Insert(w) PROVE PrInv'
  <2> DEFINE row == [state |-> "open", by |-> w, payout |-> Computed(w, BetOf(w))]
             e == [prWorker[w] EXCEPT !.at = "commit"]
  <2>1. /\ prWorker[w].at = "record" /\ prRow[BetOf(w)].state = "none" /\ prRow' = [prRow EXCEPT ![BetOf(w)] = row]
        /\ prWorker' = [prWorker EXCEPT ![w] = e] /\ UNCHANGED prPaid
    BY <1>1 DEF Insert, PrGo
  <2>2. row \in RowRecord /\ row.state = "open" /\ row.by = w /\ e \in PayWorker /\ e.at = "commit" /\ e.place = prWorker[w].place
    BY <1>w, PayoutAssumption DEF RowRecord, PayWorker
  <2> HIDE DEF row, e
  <2>3. /\ prWorker' \in [PayWorkers -> PayWorker] /\ prWorker'[w] = e /\ \A v \in PayWorkers : v # w => prWorker'[v] = prWorker[v]
        /\ prRow' \in [PrBets -> RowRecord] /\ prRow'[BetOf(w)] = row /\ \A b \in PrBets : b # BetOf(w) => prRow'[b] = prRow[b]
    BY <2>1, <2>2, <1>t, <1>w
  <2>4. PassedRows'
    BY <2>1, <2>2, <2>3, <1>m
  <2>5. \A v \in PayWorkers : v # w /\ prWorker[v].at \in {"commit", "pay", "mark"} => BetOf(v) # BetOf(w)
    BY <2>1 DEF PrInv, GoesByRow
  <2>6. GoesByRow'
    BY <2>1, <2>2, <2>3, <2>5, <1>w DEF PrInv, GoesByRow, BetOf
  <2>7. prPaid[BetOf(w)] = <<>>
    BY <2>1, <1>w DEF PrInv, PayoutRowsSafe, PaidAsRecorded
  <2>8. PaidAsRecorded'
    BY <2>1, <2>3, <2>7 DEF PrInv, PayoutRowsSafe, PaidAsRecorded
  <2>9. NothingOwedAtEnd'
    BY <2>1, <2>2, <2>3, <2>4, <1>n DEF PrInv, PayoutRowsSafe, NothingOwedAtEnd
  <2> QED BY <2>1, <2>3, <2>4, <2>6, <2>8, <2>9, <1>t DEF PrInv, PayoutRowsSafe, PayoutTypes
<1>2. ASSUME NEW w \in PayWorkers, CommitRow(w) PROVE PrInv'
  <2> DEFINE row == [prRow[BetOf(w)] EXCEPT !.state = "unpaid"]
             f == [prWorker[w] EXCEPT !.at = "pay"]
             e == [f EXCEPT !.payout = prRow[BetOf(w)].payout]
  <2>1. /\ prWorker[w].at = "commit" /\ prRow' = [prRow EXCEPT ![BetOf(w)] = row] /\ UNCHANGED prPaid
        /\ prRow[BetOf(w)] \in RowRecord
    BY <1>2, <1>t, <1>w DEF CommitRow
  <2>2. prWorker' = [prWorker EXCEPT ![w] = e]
    <3>1. prWorker' = [[prWorker EXCEPT ![w].at = "pay"] EXCEPT ![w].payout = prRow[BetOf(w)].payout]
      BY <1>2 DEF CommitRow
    <3> QED BY <3>1, <1>t
  <2>3. row \in RowRecord /\ row.state = "unpaid" /\ row.payout = prRow[BetOf(w)].payout /\ row.payout \in Nat
    BY <2>1 DEF RowRecord
  <2>4. e \in PayWorker /\ e.at = "pay" /\ e.place = prWorker[w].place /\ e.payout = row.payout
    <3>1. f \in PayWorker /\ f.at = "pay" /\ f.place = prWorker[w].place
      BY <1>w DEF PayWorker
    <3> HIDE DEF f, row
    <3>2. e = [f EXCEPT !.payout = row.payout]
      BY <2>3
    <3> QED BY <3>1, <3>2, <2>3 DEF PayWorker
  <2> HIDE DEF row, e, f
  <2>5. /\ prWorker' \in [PayWorkers -> PayWorker] /\ prWorker'[w] = e /\ \A v \in PayWorkers : v # w => prWorker'[v] = prWorker[v]
        /\ prRow' \in [PrBets -> RowRecord] /\ prRow'[BetOf(w)] = row /\ \A b \in PrBets : b # BetOf(w) => prRow'[b] = prRow[b]
    BY <2>1, <2>2, <2>3, <2>4, <1>t, <1>w
  <2>6. prRow[BetOf(w)].state = "open" /\ prRow[BetOf(w)].by = w
    BY <2>1 DEF PrInv, GoesByRow
  <2>7. PassedRows'
    BY <2>2, <2>4, <2>5, <2>6, <1>m
  <2>8. \A v \in PayWorkers : v # w /\ prWorker[v].at \in {"commit", "pay", "mark"} => BetOf(v) # BetOf(w)
    BY <2>6 DEF PrInv, GoesByRow
  <2>9. GoesByRow'
    BY <2>1, <2>3, <2>4, <2>5, <2>8, <1>w DEF PrInv, GoesByRow, BetOf
  <2>10. prPaid[BetOf(w)] = <<>>
    BY <2>6, <1>w DEF PrInv, PayoutRowsSafe, PaidAsRecorded
  <2>11. PaidAsRecorded'
    BY <2>1, <2>5, <2>10 DEF PrInv, PayoutRowsSafe, PaidAsRecorded
  <2>12. NothingOwedAtEnd'
    BY <2>1, <2>3, <2>5, <2>7, <1>n DEF PrInv, PayoutRowsSafe, NothingOwedAtEnd
  <2> QED BY <2>1, <2>5, <2>7, <2>9, <2>11, <2>12, <1>t DEF PrInv, PayoutRowsSafe, PayoutTypes
<1>3. ASSUME NEW w \in PayWorkers, CommitFails(w) \/ WorkerEnds(w) PROVE PrInv'
  <2>1. PICK at \in {"raised", "ended"} : prWorker' = [prWorker EXCEPT ![w] = [prWorker[w] EXCEPT !.at = at]]
    BY <1>3, <1>t DEF CommitFails, WorkerEnds, PrGo
  <2> DEFINE e == [prWorker[w] EXCEPT !.at = at]
  <2>2. e \in PayWorker /\ e.at = at /\ e.place = prWorker[w].place /\ prWorker' = [prWorker EXCEPT ![w] = e] /\ UNCHANGED prPaid
    BY <2>1, <1>3, <1>w DEF PayWorker, CommitFails, WorkerEnds
  <2> HIDE DEF e
  <2>3. prWorker' \in [PayWorkers -> PayWorker] /\ prWorker'[w] = e /\ \A v \in PayWorkers : v # w => prWorker'[v] = prWorker[v]
    BY <2>2, <1>t
  <2>4. NoRow \in RowRecord /\ NoRow.state = "none"
    BY DEF NoRow, RowRecord
  <2>5. prRow' \in [PrBets -> RowRecord] /\ \A b \in PrBets :
          prRow'[b] = prRow[b] \/ (prRow'[b] = NoRow /\ prRow[b].state = "open" /\ prRow[b].by = w)
    <3>1. CASE CommitFails(w)
      <4>1. prRow' = [prRow EXCEPT ![BetOf(w)] = NoRow] /\ prRow[BetOf(w)].state = "open" /\ prRow[BetOf(w)].by = w
        BY <3>1 DEF CommitFails, PrInv, GoesByRow
      <4> QED BY <4>1, <2>4, <1>t, <1>w
    <3>2. CASE WorkerEnds(w)
      <4>1. prRow' = [b \in PrBets |-> IF prRow[b].state = "open" /\ prRow[b].by = w THEN NoRow ELSE prRow[b]]
        BY <3>2 DEF WorkerEnds
      <4> QED BY <4>1, <2>4, <1>t
    <3> QED BY <1>3, <3>1, <3>2
  <2>6. \A b \in PrBets : prRow[b].state \in {"unpaid", "credited"} => prRow'[b] = prRow[b]
    BY <2>5
  <2>7. PassedRows'
    BY <2>2, <2>5, <2>6, <1>m
  <2>8. GoesByRow'
    <3>1. \A v \in PayWorkers : v # w /\ prWorker[v].at = "commit" => prRow'[BetOf(v)] = prRow[BetOf(v)]
      BY <2>5, <1>w DEF PrInv, GoesByRow
    <3> QED BY <3>1, <2>2, <2>3, <2>6, <1>w DEF PrInv, GoesByRow, BetOf
  <2>9. PaidAsRecorded'
    BY <2>2, <2>6 DEF PrInv, PayoutRowsSafe, PaidAsRecorded
  <2>10. NothingOwedAtEnd'
    BY <2>2, <2>4, <2>5, <2>7, <1>n DEF PrInv, PayoutRowsSafe, NothingOwedAtEnd
  <2> QED BY <2>2, <2>3, <2>5, <2>7, <2>8, <2>9, <2>10, <1>t DEF PrInv, PayoutRowsSafe, PayoutTypes
<1>4. ASSUME NEW w \in PayWorkers, ReadBack(w) PROVE PrInv'
  <2>0. prWorker[w].at = "record" /\ prRow[BetOf(w)].state \in {"unpaid", "credited"} /\ UNCHANGED <<prRow, prPaid>>
    BY <1>4 DEF ReadBack
  <2>1. PICK e \in PayWorker :
          /\ prWorker' = [prWorker EXCEPT ![w] = e]
          /\ \/ e.at = "pay" /\ e.place = prWorker[w].place /\ e.payout = prRow[BetOf(w)].payout
             \/ e.at = "record" /\ e.place = prWorker[w].place + 1 /\ prRow[BetOf(w)].state = "credited"
             \/ e.at = "settled" /\ e.place = Len(RoundBets) /\ e.place = prWorker[w].place /\ prRow[BetOf(w)].state = "credited"
    <3>1. CASE PaidAlready(w)
      BY <3>1, <1>4, <1>o DEF ReadBack, PaidAlready
    <3>2. CASE ~PaidAlready(w)
      <4> DEFINE f == [prWorker[w] EXCEPT !.at = "pay"]
                 e == [f EXCEPT !.payout = prRow[BetOf(w)].payout]
      <4>1. prWorker' = [prWorker EXCEPT ![w] = e]
        <5>1. prWorker' = [[prWorker EXCEPT ![w].at = "pay"] EXCEPT ![w].payout = prRow[BetOf(w)].payout]
          BY <1>4, <3>2 DEF ReadBack, StoredPayout
        <5> QED BY <5>1, <1>t
      <4>2. f \in PayWorker /\ f.at = "pay" /\ f.place = prWorker[w].place
        BY <1>w DEF PayWorker
      <4>3. prRow[BetOf(w)].payout \in Nat
        BY <1>t, <1>w DEF RowRecord
      <4> HIDE DEF f
      <4>4. e \in PayWorker /\ e.at = "pay" /\ e.place = prWorker[w].place /\ e.payout = prRow[BetOf(w)].payout
        BY <4>2, <4>3 DEF PayWorker
      <4> QED BY <4>1, <4>4
    <3> QED BY <3>1, <3>2
  <2>2. prWorker' \in [PayWorkers -> PayWorker] /\ prWorker'[w] = e /\ \A v \in PayWorkers : v # w => prWorker'[v] = prWorker[v]
    BY <2>1, <1>t
  <2>3. PassedRows'
    BY <2>0, <2>1, <1>m, <1>t
  <2>4. GoesByRow'
    BY <2>0, <2>1, <2>2, <1>w DEF PrInv, GoesByRow, BetOf
  <2>5. PaidAsRecorded' /\ NothingOwedAtEnd'
    BY <2>0, <2>3, <1>n DEF PrInv, PayoutRowsSafe, PaidAsRecorded, NothingOwedAtEnd
  <2> QED BY <2>0, <2>2, <2>3, <2>4, <2>5, <1>t DEF PrInv, PayoutRowsSafe, PayoutTypes
<1>p. ASSUME NEW w \in PayWorkers, prPaid' = Moved(w)
      PROVE  /\ \A b \in PrBets : prPaid'[b] = prPaid[b] \/ (b = BetOf(w) /\ prPaid[b] = <<>> /\ prPaid'[b] = <<prWorker[w].payout>>)
             /\ prPaid' \in [PrBets -> Seq(Nat)] /\ prPaid'[BetOf(w)] # <<>>
  BY <1>p, <1>t, <1>w DEF Moved
<1>5. ASSUME NEW w \in PayWorkers, NothingToPay(w) \/ HttpCredits(w) \/ HttpFails(w) \/ HttpGarbles(w) \/ MarkFails(w) PROVE PrInv'
  <2>1. /\ prWorker[w].at \in {"pay", "mark"} /\ UNCHANGED prRow /\ (prPaid' = prPaid \/ prPaid' = Moved(w))
        /\ \E at \in {"mark", "parked", "raised"} :
             /\ prWorker' = [prWorker EXCEPT ![w].at = at]
             /\ at = "mark" => prWorker[w].payout = 0 \/ prPaid' = Moved(w)
    BY <1>5 DEF NothingToPay, HttpCredits, HttpFails, HttpGarbles, MarkFails, PrGo
  <2>2. PICK at \in {"mark", "parked", "raised"} :
             /\ prWorker' = [prWorker EXCEPT ![w].at = at]
             /\ at = "mark" => prWorker[w].payout = 0 \/ prPaid' = Moved(w)
    BY <2>1
  <2>3. /\ \A b \in PrBets : prPaid'[b] = prPaid[b] \/ (b = BetOf(w) /\ prPaid[b] = <<>> /\ prPaid'[b] = <<prWorker[w].payout>>)
        /\ prPaid' \in [PrBets -> Seq(Nat)] /\ (prPaid' = Moved(w) => prPaid'[BetOf(w)] # <<>>)
    BY <2>1, <1>p, <1>t
  <2> QED BY <2>1, <2>2, <2>3, <1>g
<1>6. ASSUME NEW w \in PayWorkers, MarkCredited(w) PROVE PrInv'
  <2> DEFINE row == [prRow[BetOf(w)] EXCEPT !.state = "credited"]
  <2>1. prWorker[w].at = "mark" /\ prRow' = [prRow EXCEPT ![BetOf(w)] = row] /\ UNCHANGED prPaid /\ Onward(w)
    BY <1>6, <1>t, <1>w DEF MarkCredited
  <2>2. row \in RowRecord /\ row.state = "credited" /\ row.payout = prRow[BetOf(w)].payout
    BY <1>t, <1>w DEF RowRecord
  <2> HIDE DEF row
  <2>3. PICK e \in PayWorker : prWorker' = [prWorker EXCEPT ![w] = e] /\ e.at \in {"settled", "record"}
               /\ \/ e.at = "record" /\ e.place = prWorker[w].place + 1
                  \/ e.at = "settled" /\ e.place = Len(RoundBets) /\ e.place = prWorker[w].place
    BY <2>1, <1>o
  <2>4. /\ prWorker' \in [PayWorkers -> PayWorker] /\ prWorker'[w] = e /\ \A v \in PayWorkers : v # w => prWorker'[v] = prWorker[v]
        /\ prRow' \in [PrBets -> RowRecord] /\ prRow'[BetOf(w)] = row /\ \A b \in PrBets : b # BetOf(w) => prRow'[b] = prRow[b]
    BY <2>1, <2>2, <2>3, <1>t, <1>w
  <2>5. PassedRows'
    BY <2>2, <2>3, <2>4, <1>m
  <2>6. /\ prRow[BetOf(w)].state \in {"unpaid", "credited"} /\ prRow[BetOf(w)].payout = prWorker[w].payout
        /\ (prWorker[w].payout > 0 => prPaid[BetOf(w)] # <<>>)
    BY <2>1 DEF PrInv, GoesByRow
  <2>7. GoesByRow'
    BY <2>1, <2>2, <2>3, <2>4, <2>6, <1>w DEF PrInv, GoesByRow, BetOf
  <2>8. PaidAsRecorded'
    BY <2>1, <2>2, <2>4, <2>6 DEF PrInv, PayoutRowsSafe, PaidAsRecorded
  <2>9. NothingOwedAtEnd'
    BY <2>1, <2>2, <2>4, <2>5, <2>6, <1>n DEF PrInv, PayoutRowsSafe, NothingOwedAtEnd
  <2> QED BY <2>1, <2>4, <2>5, <2>7, <2>8, <2>9, <1>t DEF PrInv, PayoutRowsSafe, PayoutTypes
<1>7. ASSUME NEW w \in PayWorkers, RetryParked(w) PROVE PrInv'
  <2>1. prWorker' = [prWorker EXCEPT ![w] = Ready] /\ UNCHANGED <<prRow, prPaid>>
    BY <1>7 DEF RetryParked
  <2>2. Ready \in PayWorker /\ Ready.at = "record" /\ Ready.place = 1
    BY <1>b DEF Ready, PayWorker
  <2>3. prWorker' \in [PayWorkers -> PayWorker] /\ prWorker'[w] = Ready /\ \A v \in PayWorkers : v # w => prWorker'[v] = prWorker[v]
    BY <2>1, <2>2, <1>t
  <2>4. PassedRows'
    BY <2>1, <2>2, <1>m, <1>t
  <2>5. GoesByRow'
    BY <2>1, <2>2, <2>3, <1>w DEF PrInv, GoesByRow, BetOf
  <2>6. PaidAsRecorded' /\ NothingOwedAtEnd'
    BY <2>1, <2>4, <1>n DEF PrInv, PayoutRowsSafe, PaidAsRecorded, NothingOwedAtEnd
  <2> QED BY <2>1, <2>3, <2>4, <2>5, <2>6, <1>t DEF PrInv, PayoutRowsSafe, PayoutTypes
<1>8. CASE UNCHANGED prVars
  BY <1>8 DEF prVars, PrInv, PayoutTypes, GoesByRow, PassedRows, PayoutRowsSafe, PaidAsRecorded, NothingOwedAtEnd, BetOf
<1> QED BY <1>1, <1>2, <1>3, <1>4, <1>5, <1>6, <1>7, <1>8 DEF PrNext

-----------------------------------------------------------------------------
(* The wallets of a deployment without an operator's (common/wallet.py,    *)
(* integrations/wallet_demo.py, integrations/dearlive_mock.py).            *)

Spending == {"debit", "credit"}
PlayKeys == {req.key : req \in PlayRequests} \cup {0}
PlayCall ==
  [op : {"none", "debit", "credit", "rollback", "fund"}, key : PlayKeys,
   amount : Nat, at : {"idle", "asked", "load", "write", "record", "answered", "refused", "unknown", "raised"}, read : Int]

PlayTypes ==
  /\ plKind \in PlayKinds /\ plBalance \in Int /\ plFunds \in Int /\ plOverlap \in BOOLEAN
  /\ plCall \in [PlayCalls -> PlayCall] /\ plReversed \subseteq plKeys
  /\ IsFiniteSet(plLedger) /\ \A row \in plLedger : row.by \in PlayCalls /\ row.amount \in Int

\* What a wallet of each kind does: without a lock it is the mock's debits and credits, and fund.
KindSteps ==
  \A c \in PlayCalls :
    /\ plCall[c].at = "load" => plKind = "mock" /\ plCall[c].op \in Spending
    /\ plCall[c].at = "write" => plCall[c].op \in Spending \cup {"fund"} /\ (plCall[c].op \in Spending => plKind = "mock")
    /\ plCall[c].at = "record" => plCall[c].op \in Spending \cup {"fund"} /\ (plCall[c].op \in Spending <=> plKind = "mock")
    /\ plCall[c].op = "fund" => plKind # "demo"

\* A call that made its row has answered; in the demo wallet a key has one row.
RowsOnce ==
  /\ \A row \in plLedger : plCall[row.by].at = "answered"
  /\ plReversed # {} => plKind = "demo"
  /\ plKind = "demo" => \A row, other \in plLedger : row.key \in plKeys /\ (row.key = other.key => row = other)

\* As long as no calls overlapped, one call at a time works on the balance, and what it read is
\* the balance; the key of a debit or credit under way is not known yet, nor another's.
Working(c) == plCall[c].at \in {"load", "write"}
Moving(c) == plCall[c].at \in {"load", "write", "record"}
Alone ==
  ~plOverlap => \A c \in PlayCalls :
    /\ Working(c) => \A d \in PlayCalls : Working(d) => d = c
    /\ plCall[c].at = "write" => plCall[c].read = plBalance
    /\ Working(c) /\ plCall[c].op = "debit" => plBalance >= plCall[c].amount
    /\ Moving(c) /\ plCall[c].op \in Spending =>
         plCall[c].key \notin plKeys
         /\ \A d \in PlayCalls \ {c} : Moving(d) /\ plCall[d].op \in Spending => plCall[d].key # plCall[c].key

\* Money that has moved and whose row is still to come counts as if it were there.
Counted ==
  {row \in plLedger \cup {RowOf(c) : c \in {d \in PlayCalls : plCall[d].at = "record"}} : row.key \notin plReversed}
Balanced == ~plOverlap => plBalance = Seed + plFunds + SumOf(Counted)

Covered ==
  /\ plBalance >= 0 \/ (plKind = "mock" /\ plOverlap)
  /\ plKind # "mock" => \A c \in PlayCalls : plCall[c].at = "write" => plCall[c].read >= 0

PlInv == PlayTypes /\ KindSteps /\ RowsOnce /\ Alone /\ Balanced /\ Covered

\* A row that was not there adds its amount.
LEMMA RowAdds ==
  ASSUME NEW rows, IsFiniteSet(rows), NEW row, row \notin rows, row.amount \in Int, \A r \in rows : r.amount \in Int
  PROVE  SumOf(rows \cup {row}) = row.amount + SumOf(rows) /\ SumOf(rows) \in Int
<1> DEFINE f == [r \in rows \cup {row} |-> r.amount]
<1>1. f \in [rows \cup {row} -> Int] /\ f[row] = row.amount
  OBVIOUS
<1>2. Part(f, rows) = [r \in rows |-> r.amount] /\ [r \in rows |-> r.amount] \in [rows -> Int]
  BY DEF Part
<1>3. SumFunction(f) = f[row] + SumFunction(Part(f, rows))
  <2> HIDE DEF f
  <2> QED BY <1>1, SumInsert
<1>4. SumFunction([r \in rows |-> r.amount]) \in Int
  <2> DEFINE g == [r \in rows |-> r.amount]
  <2>1. g \in [rows -> Int]
    BY <1>2
  <2> HIDE DEF g
  <2>2. Part(g, rows) = g /\ rows \in SUBSET rows
    BY <2>1, WholePart
  <2>3. SumFunction(Part(g, rows)) \in Int
    BY <2>1, <2>2, SumType
  <2>4. SumFunction(g) \in Int
    BY <2>2, <2>3
  <2> QED BY <2>4 DEF g
<1> QED BY <1>1, <1>2, <1>3, <1>4 DEF SumOf

LEMMA PlayBegins == PlInit => PlInv
<1> SUFFICES ASSUME PlInit PROVE PlInv
  OBVIOUS
<1>1. PlIdle \in PlayCall /\ PlIdle.at = "idle" /\ PlIdle.op = "none"
  <2>1. 0 \in PlayKeys
    BY DEF PlayKeys
  <2> QED BY <2>1 DEF PlIdle, PlayCall
<1>2. \A c \in PlayCalls : plCall[c] = PlIdle
  BY DEF PlInit
<1>3. PlayTypes
  <2>1. plCall \in [PlayCalls -> PlayCall]
    BY <1>1 DEF PlInit
  <2>2. plBalance \in Int /\ plFunds \in Int
    BY PlayAssumption DEF PlInit
  <2>3. IsFiniteSet(plLedger) /\ plLedger = {} /\ plReversed \subseteq plKeys /\ plKind \in PlayKinds /\ plOverlap \in BOOLEAN
    BY FS_EmptySet DEF PlInit
  <2> QED BY <2>1, <2>2, <2>3 DEF PlayTypes
<1>4. Counted = {}
  BY <1>1, <1>2 DEF PlInit, Counted
<1>5. SumOf({}) = 0
  <2> DEFINE g == [r \in {} |-> r.amount]
  <2>1. Part(g, {}) = g
    BY DEF Part
  <2> HIDE DEF g
  <2>2. SumFunction(g) = 0
    BY <2>1, SumEmpty
  <2> QED BY <2>2 DEF g, SumOf
<1>6. Balanced
  BY <1>4, <1>5, PlayAssumption DEF PlInit, Balanced
<1>7. KindSteps /\ RowsOnce /\ Alone
  BY <1>1, <1>2, PlayAssumption DEF PlInit, KindSteps, RowsOnce, Alone, Working, Moving, Spending
<1>8. Covered
  BY <1>1, <1>2, PlayAssumption DEF PlInit, Covered
<1> QED BY <1>3, <1>6, <1>7, <1>8 DEF PlInv

LEMMA CountedRows ==
  ASSUME PlInv
  PROVE  /\ IsFiniteSet(Counted) /\ \A row \in Counted : row.amount \in Int
         /\ \A c \in PlayCalls : Signed(plCall[c]) \in Int /\ RowOf(c).amount = Signed(plCall[c]) /\ RowOf(c).by = c
                                 /\ RowOf(c).key = plCall[c].key
<1> DEFINE Pending == {d \in PlayCalls : plCall[d].at = "record"}
           New == {RowOf(c) : c \in Pending}
<1>1. \A c \in PlayCalls : Signed(plCall[c]) \in Int
  BY DEF PlInv, PlayTypes, PlayCall, Signed
<1>2. \A c : RowOf(c).amount = Signed(plCall[c]) /\ RowOf(c).by = c /\ RowOf(c).key = plCall[c].key
  BY DEF RowOf
<1>3. IsFiniteSet(Pending)
  BY PlayAssumption, FS_Subset
<1>4. IsFiniteSet(New)
  <2> DEFINE made == [c \in Pending |-> RowOf(c)]
  <2> HIDE DEF Pending
  <2>1. made \in Surjection(Pending, New)
    BY DEF Surjection
  <2> HIDE DEF made, New
  <2> QED BY <1>3, <2>1, FS_Surjection
<1>5. IsFiniteSet(plLedger \cup New)
  <2> HIDE DEF New
  <2> QED BY <1>4, FS_Union DEF PlInv, PlayTypes
<1>6. IsFiniteSet(Counted)
  <2>1. Counted \subseteq plLedger \cup New
    BY DEF Counted
  <2> HIDE DEF New
  <2> QED BY <1>5, <2>1, FS_Subset
<1>7. \A row \in Counted : row.amount \in Int
  BY <1>1, <1>2 DEF Counted, PlInv, PlayTypes
<1> QED BY <1>1, <1>2, <1>6, <1>7

LEMMA PlayStep == PlInv /\ [PlNext]_plVars => PlInv'
<1> SUFFICES ASSUME PlInv, [PlNext]_plVars PROVE PlInv'
  OBVIOUS
<1>t. /\ plKind \in {"memory", "demo", "mock"} /\ plKind \in PlayKinds /\ plBalance \in Int /\ plFunds \in Int /\ plOverlap \in BOOLEAN
      /\ plCall \in [PlayCalls -> PlayCall] /\ plReversed \subseteq plKeys
      /\ IsFiniteSet(plLedger) /\ \A row \in plLedger : row.by \in PlayCalls /\ row.amount \in Int
  BY PlayAssumption DEF PlInv, PlayTypes
<1>s. Seed \in Nat
  BY PlayAssumption
<1>k. \A c \in PlayCalls : plCall[c] \in PlayCall /\ plCall[c].amount \in Nat /\ plCall[c].read \in Int
  BY <1>t DEF PlayCall
<1>r. /\ IsFiniteSet(Counted) /\ \A row \in Counted : row.amount \in Int
      /\ \A c \in PlayCalls : Signed(plCall[c]) \in Int /\ RowOf(c).amount = Signed(plCall[c]) /\ RowOf(c).by = c
                              /\ RowOf(c).key = plCall[c].key
  BY CountedRows
\* A call that has not answered has no row in the ledger.
<1>u. \A c \in PlayCalls : plCall[c].at \notin {"record", "answered"} => RowOf(c) \notin Counted
  BY <1>r DEF PlInv, RowsOnce, Counted
<1>v. \A c \in PlayCalls : plCall[c].at # "answered" => \A row \in plLedger : row.by # c
  BY DEF PlInv, RowsOnce
\* A step of one call to another place.
<1>g. ASSUME NEW c \in PlayCalls, NEW e \in PlayCall, plCall' = [plCall EXCEPT ![c] = e],
             e.op = plCall[c].op, e.key = plCall[c].key, e.amount = plCall[c].amount
      PROVE  /\ plCall' \in [PlayCalls -> PlayCall] /\ plCall'[c] = e /\ \A d \in PlayCalls : d # c => plCall'[d] = plCall[d]
             /\ \A d \in PlayCalls : RowOf(d)' = RowOf(d)
  <2>1. plCall' \in [PlayCalls -> PlayCall] /\ plCall'[c] = e /\ \A d \in PlayCalls : d # c => plCall'[d] = plCall[d]
    BY <1>g, <1>t
  <2>2. Signed(e) = Signed(plCall[c])
    BY <1>g DEF Signed
  <2> QED BY <1>g, <2>1, <2>2 DEF RowOf
<1>e. ASSUME NEW c \in PlayCalls, NEW at \in {"load", "write", "record", "answered", "refused", "unknown", "raised"}, PlGo(c, at)
      PROVE  \E e \in PlayCall : /\ plCall' = [plCall EXCEPT ![c] = e] /\ e.at = at /\ e.read = plCall[c].read
                                 /\ e.op = plCall[c].op /\ e.key = plCall[c].key /\ e.amount = plCall[c].amount
  <2> DEFINE e == [plCall[c] EXCEPT !.at = at]
  <2>1. plCall' = [plCall EXCEPT ![c] = e]
    BY <1>e DEF PlGo
  <2>2. e \in PlayCall /\ e.at = at /\ e.read = plCall[c].read
        /\ e.op = plCall[c].op /\ e.key = plCall[c].key /\ e.amount = plCall[c].amount
    BY <1>k DEF PlayCall
  <2> QED BY <2>1, <2>2
\* A step to an end, or from the beginning, that moves no money.
<1>q. ASSUME NEW c \in PlayCalls, NEW e \in PlayCall, plCall' = [plCall EXCEPT ![c] = e],
             e.op = plCall[c].op, e.key = plCall[c].key, e.amount = plCall[c].amount,
             plCall[c].at = "asked", e.at \in {"answered", "refused", "unknown", "raised"},
             UNCHANGED <<plKind, plBalance, plKeys, plLedger, plReversed, plFunds>>,
             plOverlap' \in BOOLEAN, plOverlap => plOverlap'
      PROVE  PlInv'
  <2>1. /\ plCall' \in [PlayCalls -> PlayCall] /\ plCall'[c] = e /\ \A d \in PlayCalls : d # c => plCall'[d] = plCall[d]
        /\ \A d \in PlayCalls : RowOf(d)' = RowOf(d)
    BY <1>q, <1>g
  <2>2. PlayTypes'
    BY <1>q, <1>t, <2>1 DEF PlayTypes
  <2>3. KindSteps'
    BY <1>q, <2>1 DEF PlInv, KindSteps
  <2>4. RowsOnce'
    BY <1>q, <1>t, <2>1 DEF PlInv, RowsOnce
  <2>5. Alone'
    BY <1>q, <2>1 DEF PlInv, Alone, Working, Moving
  <2>6. Counted' = Counted
    BY <1>q, <2>1 DEF Counted
  <2>7. Balanced'
    BY <1>q, <2>6 DEF PlInv, Balanced
  <2>8. Covered'
    BY <1>q, <2>1 DEF PlInv, Covered
  <2> QED BY <2>2, <2>3, <2>4, <2>5, <2>7, <2>8 DEF PlInv
<1>1. ASSUME NEW c \in PlayCalls, NEW req \in PlayRequests, PlAsk(c, req) PROVE PlInv'
  <2> DEFINE e == [op |-> req.op, key |-> req.key, amount |-> req.amount, at |-> "asked", read |-> 0]
  <2>1. /\ plCall[c].at = "idle" /\ plCall' = [plCall EXCEPT ![c] = e] /\ (req.op = "fund" => plKind # "demo")
        /\ UNCHANGED <<plKind, plBalance, plKeys, plLedger, plReversed, plFaults, plFunds, plOverlap>>
    BY <1>1 DEF PlAsk
  <2>2. e \in PlayCall /\ e.at = "asked" /\ e.op = req.op
    <3>1. req.key \in PlayKeys
      BY DEF PlayKeys
    <3>2. req.op \in {"debit", "credit", "rollback", "fund"} /\ req.amount \in Nat
      BY PlayAssumption
    <3> QED BY <3>1, <3>2 DEF PlayCall
  <2> HIDE DEF e
  <2>3. plCall' \in [PlayCalls -> PlayCall] /\ plCall'[c] = e /\ \A d \in PlayCalls : d # c => plCall'[d] = plCall[d]
    BY <2>1, <2>2, <1>t
  <2>4. \A d \in PlayCalls : d # c => RowOf(d)' = RowOf(d)
    BY <2>3 DEF RowOf
  <2>5. PlayTypes'
    BY <2>1, <2>3, <1>t DEF PlayTypes
  <2>6. KindSteps'
    BY <2>1, <2>2, <2>3 DEF PlInv, KindSteps
  <2>7. RowsOnce'
    BY <2>1, <2>2, <2>3, <1>t DEF PlInv, RowsOnce
  <2>8. Alone'
    BY <2>1, <2>2, <2>3 DEF PlInv, Alone, Working, Moving
  <2>9. Counted' = Counted
    BY <2>1, <2>2, <2>3, <2>4 DEF Counted
  <2>10. Balanced'
    BY <2>1, <2>9 DEF PlInv, Balanced
  <2>11. Covered'
    BY <2>1, <2>2, <2>3 DEF PlInv, Covered
  <2> QED BY <2>5, <2>6, <2>7, <2>8, <2>10, <2>11 DEF PlInv
\* A read while another call works on the balance is an overlap.
<1>o. ASSUME NEW c \in PlayCalls, plOverlap' = (plOverlap \/ Midway(c)), ~plOverlap'
      PROVE  ~plOverlap /\ (\A d \in PlayCalls \ {c} : ~Working(d))
             /\ (plKind = "mock" => \A d \in PlayCalls \ {c} : plCall[d].at = "record" => plCall[d].key # plCall[c].key)
  BY <1>o DEF Midway, Working
<1>b. ASSUME NEW c \in PlayCalls, plOverlap' = (plOverlap \/ Midway(c)) PROVE plOverlap' \in BOOLEAN /\ (plOverlap => plOverlap')
  BY <1>b, <1>t DEF Midway
<1>2. ASSUME NEW c \in PlayCalls, Once(c) PROVE PlInv'
  <2>0. /\ plKind # "mock" /\ plCall[c].at = "asked" /\ plCall[c].op \in Spending /\ plOverlap' = (plOverlap \/ Midway(c))
        /\ UNCHANGED <<plKind, plReversed, plFaults, plFunds>>
    BY <1>2 DEF Once, Spending
  <2>b. plOverlap' \in BOOLEAN /\ (plOverlap => plOverlap')
    BY <2>0, <1>b
  <2>1. CASE plCall[c].key \in plKeys \/ Short(plCall[c])
    <3>1. PICK at \in {"answered", "refused"} : PlGo(c, at)
      BY <1>2, <2>1 DEF Once
    <3>2. UNCHANGED <<plBalance, plKeys, plLedger>>
      BY <1>2, <2>1 DEF Once
    <3>3. PICK e \in PlayCall : /\ plCall' = [plCall EXCEPT ![c] = e] /\ e.at = at
                                /\ e.op = plCall[c].op /\ e.key = plCall[c].key /\ e.amount = plCall[c].amount
      BY <3>1, <1>e
    <3> QED BY <2>0, <2>b, <3>2, <3>3, <1>q
  <2>2. CASE ~(plCall[c].key \in plKeys \/ Short(plCall[c]))
    <3>1. /\ plBalance' = plBalance + Signed(plCall[c]) /\ plLedger' = plLedger \cup {RowOf(c)}
          /\ plKeys' = plKeys \cup {plCall[c].key} /\ PlGo(c, "answered")
      BY <1>2, <2>2 DEF Once
    <3>2. PICK e \in PlayCall : /\ plCall' = [plCall EXCEPT ![c] = e] /\ e.at = "answered"
                                /\ e.op = plCall[c].op /\ e.key = plCall[c].key /\ e.amount = plCall[c].amount
      BY <3>1, <1>e
    <3>3. /\ plCall' \in [PlayCalls -> PlayCall] /\ plCall'[c] = e /\ \A d \in PlayCalls : d # c => plCall'[d] = plCall[d]
          /\ \A d \in PlayCalls : RowOf(d)' = RowOf(d)
      BY <3>2, <1>g
    <3>4. IsFiniteSet(plLedger')
      BY <3>1, <1>t, FS_AddElement
    <3>5. PlayTypes'
      BY <2>0, <2>b, <3>1, <3>3, <3>4, <1>t, <1>r DEF PlayTypes
    <3>6. KindSteps'
      BY <2>0, <3>2, <3>3 DEF PlInv, KindSteps
    <3>7. RowsOnce'
      <4>1. \A row \in plLedger' : plCall'[row.by].at = "answered"
        BY <3>1, <3>2, <3>3, <1>r, <1>t DEF PlInv, RowsOnce
      <4>2. plKind = "demo" => \A row \in plLedger : row.key # RowOf(c).key /\ row.key \in plKeys
        BY <2>2, <1>r DEF PlInv, RowsOnce
      <4>3. plKind = "demo" => \A row, other \in plLedger' : row.key \in plKeys' /\ (row.key = other.key => row = other)
        BY <3>1, <4>2, <1>r DEF PlInv, RowsOnce
      <4> QED BY <4>1, <4>3, <2>0 DEF PlInv, RowsOnce
    <3>8. Alone'
      <4> SUFFICES ASSUME ~plOverlap' PROVE Alone'
        BY DEF Alone
      <4>1. ~plOverlap /\ \A d \in PlayCalls \ {c} : ~Working(d)
        BY <2>0, <1>o
      <4>2. \A d \in PlayCalls : ~Working(d)'
        BY <4>1, <3>2, <3>3 DEF Working
      <4>3. \A d \in PlayCalls : plCall'[d].at = "record" => plCall'[d].op \notin Spending
        BY <2>0, <3>2, <3>3 DEF PlInv, KindSteps
      <4> QED BY <4>2, <4>3 DEF Alone, Working, Moving
    <3>9. Counted' = Counted \cup {RowOf(c)} /\ RowOf(c) \notin Counted
      <4>1. plCall[c].key \notin plReversed
        BY <2>2, <1>t
      <4> QED BY <4>1, <2>0, <3>1, <3>2, <3>3, <1>r, <1>u DEF Counted
    <3>10. Balanced'
      <4>1. SumOf(Counted') = Signed(plCall[c]) + SumOf(Counted) /\ SumOf(Counted) \in Int /\ Signed(plCall[c]) \in Int
        BY <3>9, <1>r, RowAdds
      <4> SUFFICES ASSUME ~plOverlap' PROVE plBalance' = Seed + plFunds' + SumOf(Counted')
        BY DEF Balanced
      <4>2. plBalance = Seed + plFunds + SumOf(Counted)
        BY <2>b DEF PlInv, Balanced
      <4>3. ASSUME NEW x \in Int, NEW y \in Int, x = SumOf(Counted), y = Signed(plCall[c])
            PROVE  plBalance' = Seed + plFunds' + SumOf(Counted')
        BY <4>1, <4>2, <4>3, <3>1, <2>0, <1>t, <1>s
      <4> QED BY <4>1, <4>3
    <3>11. Covered'
      <4>1. plBalance >= 0
        BY <2>0 DEF PlInv, Covered
      <4>2. plBalance' >= 0
        BY <4>1, <3>1, <2>2, <1>t, <1>k DEF Short, Signed
      <4> QED BY <4>2, <2>0, <3>2, <3>3 DEF PlInv, Covered
    <3> QED BY <3>5, <3>6, <3>7, <3>8, <3>10, <3>11 DEF PlInv
  <2> QED BY <2>1, <2>2
<1>3. ASSUME NEW c \in PlayCalls, RollBack(c) PROVE PlInv'
  <2>0. plKind = "demo" /\ plCall[c].at = "asked" /\ UNCHANGED <<plKind, plKeys, plLedger, plFaults, plFunds, plOverlap>>
    BY <1>3 DEF RollBack
  <2>1. CASE UNCHANGED <<plBalance, plReversed>> /\ \E at \in {"unknown", "answered", "refused"} : PlGo(c, at)
    <3>1. PICK at \in {"unknown", "answered", "refused"} : PlGo(c, at)
      BY <2>1
    <3>2. PICK e \in PlayCall : /\ plCall' = [plCall EXCEPT ![c] = e] /\ e.at = at
                                /\ e.op = plCall[c].op /\ e.key = plCall[c].key /\ e.amount = plCall[c].amount
      BY <3>1, <1>e
    <3> QED BY <2>0, <2>1, <3>2, <1>q, <1>t
  <2>2. ASSUME NEW row \in plLedger, row.key \notin plReversed, plBalance' = plBalance - row.amount, plBalance' >= 0,
               plReversed' = plReversed \cup {row.key}, PlGo(c, "answered")
        PROVE  PlInv'
    <3>1. PICK e \in PlayCall : /\ plCall' = [plCall EXCEPT ![c] = e] /\ e.at = "answered"
                                /\ e.op = plCall[c].op /\ e.key = plCall[c].key /\ e.amount = plCall[c].amount
      BY <2>2, <1>e
    <3>2. /\ plCall' \in [PlayCalls -> PlayCall] /\ plCall'[c] = e /\ \A d \in PlayCalls : d # c => plCall'[d] = plCall[d]
          /\ \A d \in PlayCalls : RowOf(d)' = RowOf(d)
      BY <3>1, <1>g
    <3>3. row.key \in plKeys /\ row.amount \in Int /\ \A other \in plLedger : other.key = row.key => other = row
      BY <2>0, <2>2, <1>t DEF PlInv, RowsOnce
    <3>4. \A d \in PlayCalls : plCall[d].at \notin {"load", "write", "record"}
      BY <2>0 DEF PlInv, KindSteps, Spending
    <3>5. PlayTypes'
      BY <2>0, <2>2, <3>2, <3>3, <1>t DEF PlayTypes
    <3>6. KindSteps'
      BY <2>0, <3>1, <3>2 DEF PlInv, KindSteps
    <3>7. RowsOnce'
      BY <2>0, <2>2, <3>1, <3>2, <1>t DEF PlInv, RowsOnce
    <3>8. Alone'
      BY <3>1, <3>2, <3>4 DEF Alone, Working, Moving
    <3>9. Counted' \cup {row} = Counted /\ row \notin Counted' /\ Counted' \subseteq Counted
      <4>1. {d \in PlayCalls : plCall[d].at = "record"} = {} /\ {d \in PlayCalls : plCall'[d].at = "record"} = {}
        BY <3>1, <3>2, <3>4
      <4>2. Counted = {r \in plLedger : r.key \notin plReversed} /\ Counted' = {r \in plLedger : r.key \notin plReversed'}
        BY <4>1, <2>0 DEF Counted
      <4> QED BY <4>2, <2>2, <3>3
    <3>10. Balanced'
      <4>1. IsFiniteSet(Counted') /\ \A r \in Counted' : r.amount \in Int
        BY <3>9, <1>r, FS_Subset
      <4>2. SumOf(Counted) = row.amount + SumOf(Counted') /\ SumOf(Counted') \in Int
        BY <3>3, <3>9, <4>1, RowAdds
      <4> SUFFICES ASSUME ~plOverlap' PROVE plBalance' = Seed + plFunds' + SumOf(Counted')
        BY DEF Balanced
      <4>3. plBalance = Seed + plFunds + SumOf(Counted)
        BY <2>0 DEF PlInv, Balanced
      <4>4. ASSUME NEW x \in Int, NEW y \in Int, x = SumOf(Counted'), y = row.amount
            PROVE  plBalance' = Seed + plFunds' + SumOf(Counted')
        BY <4>2, <4>3, <4>4, <2>0, <2>2, <1>t, <1>s
      <4> QED BY <4>2, <4>4, <3>3
    <3>11. Covered'
      BY <2>0, <2>2, <3>1, <3>2, <3>4 DEF Covered
    <3> QED BY <3>5, <3>6, <3>7, <3>8, <3>10, <3>11 DEF PlInv
  <2>3. PICK row \in IF plCall[c].key \in plKeys THEN {r \in plLedger : r.key = plCall[c].key} ELSE {[key |-> 0, amount |-> 0]} :
          CASE row.key = 0 -> PlGo(c, "unknown") /\ UNCHANGED <<plBalance, plReversed>>
            [] row.key # 0 /\ Reversed(row) -> PlGo(c, "answered") /\ UNCHANGED <<plBalance, plReversed>>
            [] row.key # 0 /\ ~Reversed(row) /\ GivenBack(row) < 0 ->
                 PlGo(c, "refused") /\ UNCHANGED <<plBalance, plReversed>>
            [] OTHER -> /\ plBalance' = GivenBack(row)
                        /\ plReversed' = plReversed \cup {row.key}
                        /\ PlGo(c, "answered")
    BY <1>3 DEF RollBack
  <2>4. CASE row.key = 0 \/ Reversed(row) \/ GivenBack(row) < 0
    <3>1. UNCHANGED <<plBalance, plReversed>> /\ \E at \in {"unknown", "answered", "refused"} : PlGo(c, at)
      <4>1. CASE row.key = 0
        BY <4>1, <2>3
      <4>2. CASE row.key # 0 /\ Reversed(row)
        BY <4>2, <2>3
      <4>3. CASE row.key # 0 /\ ~Reversed(row) /\ GivenBack(row) < 0
        BY <4>3, <2>3
      <4> QED BY <2>4, <4>1, <4>2, <4>3
    <3> QED BY <3>1, <2>1
  <2>5. CASE ~(row.key = 0 \/ Reversed(row) \/ GivenBack(row) < 0)
    <3>1. plBalance' = GivenBack(row) /\ plReversed' = plReversed \cup {row.key} /\ PlGo(c, "answered")
      BY <2>3, <2>5
    <3>2. row \in plLedger /\ row.key \notin plReversed
      BY <2>3, <2>5 DEF Reversed
    <3>3. row.amount \in Int
      BY <3>2, <1>t
    <3>4. plBalance' = plBalance - row.amount /\ plBalance' >= 0
      BY <3>1, <3>3, <2>5, <1>t DEF GivenBack
    <3> QED BY <3>1, <3>2, <3>4, <2>2
  <2> QED BY <2>4, <2>5
\* A call begins to work on the balance.
<1>w. ASSUME NEW c \in PlayCalls, NEW e \in PlayCall, plCall' = [plCall EXCEPT ![c] = e],
             e.op = plCall[c].op, e.key = plCall[c].key, e.amount = plCall[c].amount, plCall[c].at \in {"asked", "load"},
             e.at \in {"load", "write"}, UNCHANGED <<plKind, plBalance, plKeys, plLedger, plReversed, plFunds>>,
             plOverlap' \in BOOLEAN, plOverlap => plOverlap',
             e.at = "load" => plKind = "mock" /\ e.op \in Spending,
             e.at = "write" => e.op \in Spending \cup {"fund"} /\ (e.op \in Spending => plKind = "mock") /\ e.read = plBalance,
             ~plOverlap' => /\ \A d \in PlayCalls \ {c} : ~Working(d)
                            /\ e.op = "debit" => plBalance >= e.amount
                            /\ e.op \in Spending => e.key \notin plKeys /\ plKind = "mock"
                                 /\ \A d \in PlayCalls \ {c} : plCall[d].at = "record" => plCall[d].key # e.key \/ plCall[d].op \notin Spending
      PROVE  PlInv'
  <2>1. /\ plCall' \in [PlayCalls -> PlayCall] /\ plCall'[c] = e /\ \A d \in PlayCalls : d # c => plCall'[d] = plCall[d]
        /\ \A d \in PlayCalls : RowOf(d)' = RowOf(d)
    BY <1>w, <1>g
  <2>2. PlayTypes'
    BY <1>w, <1>t, <2>1 DEF PlayTypes
  <2>3. KindSteps'
    BY <1>w, <2>1 DEF PlInv, KindSteps
  <2>4. RowsOnce'
    BY <1>w, <1>t, <2>1 DEF PlInv, RowsOnce
  <2>5. Alone'
    <3> SUFFICES ASSUME ~plOverlap' PROVE Alone'
      BY DEF Alone
    <3>1. ~plOverlap /\ \A d \in PlayCalls \ {c} : ~Working(d)
      BY <1>w
    <3>2. \A d \in PlayCalls : Working(d)' => d = c
      BY <3>1, <2>1 DEF Working
    <3>3. \A d \in PlayCalls \ {c} : Moving(d)' => plCall'[d].at = "record" /\ Moving(d) /\ plCall'[d] = plCall[d]
      BY <3>1, <2>1 DEF Working, Moving
    <3>4. e.op \in Spending => e.key \notin plKeys /\ \A d \in PlayCalls \ {c} : Moving(d)' /\ plCall'[d].op \in Spending => plCall'[d].key # e.key
      BY <1>w, <3>3
    <3>5. \A d \in PlayCalls \ {c} : Moving(d)' /\ plCall'[d].op \in Spending =>
            plCall'[d].key \notin plKeys /\ \A x \in PlayCalls \ {d} : Moving(x)' /\ plCall'[x].op \in Spending => plCall'[x].key # plCall'[d].key
      BY <3>1, <3>3, <3>4, <2>1 DEF PlInv, Alone
    <3> QED BY <1>w, <2>1, <3>2, <3>4, <3>5 DEF Alone, Working
  <2>6. Counted' = Counted
    BY <1>w, <2>1 DEF Counted
  <2>7. Balanced'
    BY <1>w, <2>6 DEF PlInv, Balanced
  <2>8. Covered'
    BY <1>w, <2>1 DEF PlInv, Covered
  <2> QED BY <2>2, <2>3, <2>4, <2>5, <2>7, <2>8 DEF PlInv
<1>x. ASSUME NEW c \in PlayCalls, plCall' = [plCall EXCEPT ![c].at = "write", ![c].read = plBalance]
      PROVE  \E e \in PlayCall : /\ plCall' = [plCall EXCEPT ![c] = e] /\ e.at = "write" /\ e.read = plBalance
                                 /\ e.op = plCall[c].op /\ e.key = plCall[c].key /\ e.amount = plCall[c].amount
  <2> DEFINE f == [plCall[c] EXCEPT !.at = "write"]
             e == [f EXCEPT !.read = plBalance]
  <2>1. f \in PlayCall /\ f.at = "write" /\ f.op = plCall[c].op /\ f.key = plCall[c].key /\ f.amount = plCall[c].amount
    BY <1>k DEF PlayCall
  <2>2. plCall' = [plCall EXCEPT ![c] = e]
    <3>1. plCall' = [[plCall EXCEPT ![c].at = "write"] EXCEPT ![c].read = plBalance]
      BY <1>x
    <3> QED BY <3>1, <1>t
  <2> HIDE DEF f
  <2>3. e \in PlayCall /\ e.at = "write" /\ e.read = plBalance /\ e.op = f.op /\ e.key = f.key /\ e.amount = f.amount
    BY <2>1, <1>t DEF PlayCall
  <2> QED BY <2>1, <2>2, <2>3
<1>4. ASSUME NEW c \in PlayCalls, FundRead(c) PROVE PlInv'
  <2>1. /\ plCall[c].op = "fund" /\ plCall[c].at = "asked" /\ plOverlap' = (plOverlap \/ Midway(c))
        /\ plCall' = [plCall EXCEPT ![c].at = "write", ![c].read = plBalance]
        /\ UNCHANGED <<plKind, plBalance, plKeys, plLedger, plReversed, plFaults, plFunds>>
    BY <1>4 DEF FundRead
  <2>2. PICK e \in PlayCall : /\ plCall' = [plCall EXCEPT ![c] = e] /\ e.at = "write" /\ e.read = plBalance
                              /\ e.op = plCall[c].op /\ e.key = plCall[c].key /\ e.amount = plCall[c].amount
    BY <2>1, <1>x
  <2>3. ~plOverlap' => \A d \in PlayCalls \ {c} : ~Working(d)
    BY <2>1, <1>o
  <2>4. e.op = "fund" /\ e.op \notin Spending /\ e.op # "debit"
    BY <2>1, <2>2 DEF Spending
  <2> QED BY <2>1, <2>2, <2>3, <2>4, <1>b, <1>w
<1>5. ASSUME NEW c \in PlayCalls, MockFault(c) PROVE PlInv'
  <2>1. plCall[c].at = "asked" /\ PlGo(c, "raised") /\ UNCHANGED <<plKind, plBalance, plKeys, plLedger, plReversed, plFunds, plOverlap>>
    BY <1>5 DEF MockFault
  <2>2. PICK e \in PlayCall : /\ plCall' = [plCall EXCEPT ![c] = e] /\ e.at = "raised"
                              /\ e.op = plCall[c].op /\ e.key = plCall[c].key /\ e.amount = plCall[c].amount
    BY <2>1, <1>e
  <2> QED BY <2>1, <2>2, <1>q, <1>t
<1>6. ASSUME NEW c \in PlayCalls, MockCheck(c) PROVE PlInv'
  <2>0. /\ plKind = "mock" /\ plCall[c].at = "asked" /\ plCall[c].op \in Spending /\ plOverlap' = (plOverlap \/ Midway(c))
        /\ UNCHANGED <<plKind, plBalance, plKeys, plLedger, plReversed, plFaults, plFunds>>
    BY <1>6 DEF MockCheck, Spending
  <2>1. CASE plCall[c].key \in plKeys \/ Short(plCall[c])
    <3>1. PICK at \in {"answered", "refused"} : PlGo(c, at)
      BY <1>6, <2>1 DEF MockCheck
    <3>2. PICK e \in PlayCall : /\ plCall' = [plCall EXCEPT ![c] = e] /\ e.at = at
                                /\ e.op = plCall[c].op /\ e.key = plCall[c].key /\ e.amount = plCall[c].amount
      BY <3>1, <1>e
    <3> QED BY <2>0, <3>2, <1>b, <1>q
  <2>2. CASE ~(plCall[c].key \in plKeys \/ Short(plCall[c]))
    <3>1. PlGo(c, "load")
      BY <1>6, <2>2 DEF MockCheck
    <3>2. PICK e \in PlayCall : /\ plCall' = [plCall EXCEPT ![c] = e] /\ e.at = "load"
                                /\ e.op = plCall[c].op /\ e.key = plCall[c].key /\ e.amount = plCall[c].amount
      BY <3>1, <1>e
    <3>3. e.op = "debit" => plBalance >= e.amount
      BY <2>2, <3>2, <1>t, <1>k DEF Short
    <3>4. ~plOverlap' => (\A d \in PlayCalls \ {c} : ~Working(d))
            /\ \A d \in PlayCalls \ {c} : plCall[d].at = "record" => plCall[d].key # plCall[c].key
      BY <2>0, <1>o
    <3> QED BY <2>0, <2>2, <3>2, <3>3, <3>4, <1>b, <1>w
  <2> QED BY <2>1, <2>2
<1>7. ASSUME NEW c \in PlayCalls, MockLoad(c) PROVE PlInv'
  <2>1. /\ plCall[c].at = "load" /\ plCall' = [plCall EXCEPT ![c].at = "write", ![c].read = plBalance]
        /\ UNCHANGED <<plKind, plBalance, plKeys, plLedger, plReversed, plFaults, plFunds, plOverlap>>
    BY <1>7 DEF MockLoad
  <2>2. PICK e \in PlayCall : /\ plCall' = [plCall EXCEPT ![c] = e] /\ e.at = "write" /\ e.read = plBalance
                              /\ e.op = plCall[c].op /\ e.key = plCall[c].key /\ e.amount = plCall[c].amount
    BY <2>1, <1>x
  <2>3. plKind = "mock" /\ plCall[c].op \in Spending
    BY <2>1 DEF PlInv, KindSteps
  <2>4. ASSUME ~plOverlap
        PROVE  /\ \A d \in PlayCalls \ {c} : ~Working(d)
               /\ plCall[c].op = "debit" => plBalance >= plCall[c].amount
               /\ plCall[c].key \notin plKeys
               /\ \A d \in PlayCalls \ {c} : plCall[d].at = "record" => plCall[d].key # plCall[c].key \/ plCall[d].op \notin Spending
    BY <2>1, <2>3, <2>4 DEF PlInv, Alone, Working, Moving
  <2>5. /\ plCall[c].at \in {"asked", "load"} /\ e.at \in {"load", "write"} /\ e.op \in Spending
        /\ plOverlap' \in BOOLEAN /\ plOverlap' = plOverlap
        /\ UNCHANGED <<plKind, plBalance, plKeys, plLedger, plReversed, plFunds>>
    BY <2>1, <2>2, <2>3, <1>t
  <2>6. ~plOverlap' => /\ \A d \in PlayCalls \ {c} : ~Working(d)
                       /\ e.op = "debit" => plBalance >= e.amount
                       /\ e.op \in Spending => e.key \notin plKeys /\ plKind = "mock"
                            /\ \A d \in PlayCalls \ {c} : plCall[d].at = "record" => plCall[d].key # e.key \/ plCall[d].op \notin Spending
    BY <2>2, <2>3, <2>4, <2>5
  <2> QED BY <2>2, <2>3, <2>5, <2>6, <1>w
<1>8. ASSUME NEW c \in PlayCalls, WriteBack(c) PROVE PlInv'
  <2> DEFINE rowless == plCall[c].op = "fund" /\ plKind = "mock"
  <2>0. /\ plCall[c].at = "write" /\ plBalance' = plCall[c].read + Signed(plCall[c])
        /\ PlGo(c, IF rowless THEN "answered" ELSE "record") /\ plFunds' = plFunds + (IF rowless THEN plCall[c].amount ELSE 0)
        /\ UNCHANGED <<plKind, plKeys, plLedger, plReversed, plFaults, plOverlap>>
    BY <1>8 DEF WriteBack
  <2>1. PICK e \in PlayCall : /\ plCall' = [plCall EXCEPT ![c] = e] /\ e.at = IF rowless THEN "answered" ELSE "record"
                              /\ e.op = plCall[c].op /\ e.key = plCall[c].key /\ e.amount = plCall[c].amount
    BY <2>0, <1>e
  <2>2. /\ plCall' \in [PlayCalls -> PlayCall] /\ plCall'[c] = e /\ \A d \in PlayCalls : d # c => plCall'[d] = plCall[d]
        /\ \A d \in PlayCalls : RowOf(d)' = RowOf(d)
    BY <2>1, <1>g
  <2>3. plBalance' \in Int /\ plFunds' \in Int
    BY <2>0, <1>k, <1>r, <1>t
  <2>4. PlayTypes'
    BY <2>0, <2>2, <2>3, <1>t DEF PlayTypes
  <2>5. plCall[c].op \in Spending \cup {"fund"} /\ (plCall[c].op \in Spending => plKind = "mock") /\ plKind # "demo"
    BY <2>0 DEF PlInv, KindSteps, Spending
  <2>6. KindSteps'
    BY <2>0, <2>1, <2>2, <2>5 DEF PlInv, KindSteps, Spending
  <2>7. RowsOnce'
    BY <2>0, <2>1, <2>2, <1>t DEF PlInv, RowsOnce
  <2>8. Alone'
    <3> SUFFICES ASSUME ~plOverlap' PROVE Alone'
      BY DEF Alone
    <3>1. \A d \in PlayCalls : ~Working(d)'
      BY <2>0, <2>1, <2>2 DEF PlInv, Alone, Working
    <3>2. \A d \in PlayCalls : Moving(d)' => Moving(d) /\ plCall'[d].op = plCall[d].op /\ plCall'[d].key = plCall[d].key
      BY <2>0, <2>1, <2>2 DEF Moving
    <3> QED BY <2>0, <3>1, <3>2 DEF PlInv, Alone, Working, Moving
  <2>9. ~plOverlap => plCall[c].read = plBalance
    BY <2>0 DEF PlInv, Alone
  <2>10. Balanced'
    <3> SUFFICES ASSUME ~plOverlap PROVE plBalance' = Seed + plFunds' + SumOf(Counted')
      BY <2>0 DEF Balanced
    <3>1. plBalance = Seed + plFunds + SumOf(Counted)
      BY DEF PlInv, Balanced
    <3>2. CASE rowless
      <4>1. Counted' = Counted
        BY <3>2, <2>0, <2>1, <2>2 DEF Counted
      <4>2. Signed(plCall[c]) = plCall[c].amount
        BY <3>2 DEF Signed
      <4>3. SumOf(Counted) \in Int
        BY <1>r, <1>u, <2>0, RowAdds
      <4> QED BY <3>1, <3>2, <4>1, <4>2, <4>3, <2>0, <2>9, <1>k, <1>t, <1>s
    <3>3. CASE ~rowless
      <4>1. plReversed = {}
        BY <2>5 DEF PlInv, RowsOnce
      <4>2. Counted' = Counted \cup {RowOf(c)} /\ RowOf(c) \notin Counted
        BY <3>3, <4>1, <2>0, <2>1, <2>2, <1>u DEF Counted
      <4>3. SumOf(Counted') = Signed(plCall[c]) + SumOf(Counted) /\ SumOf(Counted) \in Int /\ Signed(plCall[c]) \in Int
        BY <4>2, <1>r, RowAdds
      <4>4. plFunds' = plFunds
        BY <3>3, <2>0, <1>t
      <4>5. plBalance' = plBalance + Signed(plCall[c])
        BY <2>0, <2>9
      <4>6. ASSUME NEW x \in Int, NEW y \in Int, x = SumOf(Counted), y = Signed(plCall[c])
            PROVE  plBalance' = Seed + plFunds' + SumOf(Counted')
        BY <3>1, <4>3, <4>4, <4>5, <4>6, <1>t, <1>s
      <4> QED BY <4>3, <4>6
    <3> QED BY <3>2, <3>3
  <2>11. Covered'
    <3>1. CASE plKind # "mock"
      <4>1. plCall[c].read >= 0 /\ plCall[c].op = "fund"
        BY <3>1, <2>0, <2>5 DEF PlInv, Covered
      <4>2. plBalance' >= 0
        BY <4>1, <2>0, <1>k DEF Signed
      <4> QED BY <4>2, <3>1, <2>0, <2>1, <2>2 DEF PlInv, Covered
    <3>2. CASE plKind = "mock" /\ ~plOverlap
      <4>1. plBalance >= 0 /\ (plCall[c].op = "debit" => plBalance >= plCall[c].amount)
        BY <3>2, <2>0 DEF PlInv, Covered, Alone, Working
      <4>2. plBalance' >= 0
        BY <4>1, <3>2, <2>0, <2>9, <1>k, <1>t DEF Signed
      <4> QED BY <4>2, <3>2, <2>0 DEF Covered
    <3>3. CASE plKind = "mock" /\ plOverlap
      BY <3>3, <2>0 DEF Covered
    <3> QED BY <3>1, <3>2, <3>3
  <2> QED BY <2>4, <2>6, <2>7, <2>8, <2>10, <2>11 DEF PlInv
<1>9. ASSUME NEW c \in PlayCalls, RecordUnlessKnown(c) PROVE PlInv'
  <2>0. /\ plCall[c].at = "record" /\ PlGo(c, "answered")
        /\ plKeys' = (IF plCall[c].op = "fund" THEN plKeys ELSE plKeys \cup {plCall[c].key})
        /\ plLedger' = (IF Recorded(plCall[c]) THEN plLedger ELSE plLedger \cup {RowOf(c)})
        /\ UNCHANGED <<plKind, plBalance, plReversed, plFaults, plFunds, plOverlap>>
    BY <1>9 DEF RecordUnlessKnown
  <2>1. PICK e \in PlayCall : /\ plCall' = [plCall EXCEPT ![c] = e] /\ e.at = "answered"
                              /\ e.op = plCall[c].op /\ e.key = plCall[c].key /\ e.amount = plCall[c].amount
    BY <2>0, <1>e
  <2>2. /\ plCall' \in [PlayCalls -> PlayCall] /\ plCall'[c] = e /\ \A d \in PlayCalls : d # c => plCall'[d] = plCall[d]
        /\ \A d \in PlayCalls : RowOf(d)' = RowOf(d)
    BY <2>1, <1>g
  <2>3. IsFiniteSet(plLedger') /\ (plLedger' = plLedger \/ plLedger' = plLedger \cup {RowOf(c)}) /\ plKeys \subseteq plKeys'
    BY <2>0, <1>t, FS_AddElement
  <2>4. PlayTypes'
    BY <2>0, <2>2, <2>3, <1>t, <1>r DEF PlayTypes
  <2>5. plCall[c].op \in Spending \cup {"fund"} /\ (plCall[c].op \in Spending <=> plKind = "mock") /\ plKind # "demo"
    BY <2>0 DEF PlInv, KindSteps, Spending
  <2>6. KindSteps'
    BY <2>0, <2>1, <2>2 DEF PlInv, KindSteps
  <2>7. RowsOnce'
    <3>1. \A row \in plLedger' : plCall'[row.by].at = "answered"
      BY <2>1, <2>2, <2>3, <1>r, <1>t DEF PlInv, RowsOnce
    <3> QED BY <3>1, <2>0, <2>5 DEF PlInv, RowsOnce
  <2>8. Alone'
    <3> SUFFICES ASSUME ~plOverlap PROVE Alone'
      BY <2>0 DEF Alone
    <3>1. \A d \in PlayCalls : (Working(d)' <=> Working(d)) /\ (Moving(d)' => d # c /\ Moving(d) /\ plCall'[d] = plCall[d])
                               /\ (Working(d)' => plCall'[d] = plCall[d])
      BY <2>0, <2>1, <2>2 DEF Working, Moving
    <3>2. \A d \in PlayCalls \ {c} : Moving(d) /\ plCall[d].op \in Spending => plCall[d].key \notin plKeys'
      <4> SUFFICES ASSUME NEW d \in PlayCalls \ {c}, Moving(d), plCall[d].op \in Spending PROVE plCall[d].key \notin plKeys'
        OBVIOUS
      <4>1. plCall[d].key \notin plKeys /\ \A x \in PlayCalls \ {d} : Moving(x) /\ plCall[x].op \in Spending => plCall[x].key # plCall[d].key
        BY DEF PlInv, Alone
      <4>2. Moving(c)
        BY <2>0 DEF Moving
      <4>3. plCall[c].op # "fund" => plCall[c].key # plCall[d].key
        BY <4>1, <4>2, <2>5
      <4> QED BY <4>1, <4>3, <2>0
    <3>3. \A d \in PlayCalls : plCall'[d].at = "write" => plCall'[d].read = plBalance /\ Working(d)'
      BY <2>1, <2>2 DEF PlInv, Alone, Working
    <3> QED BY <2>0, <3>1, <3>2, <3>3 DEF PlInv, Alone, Working
  <2>9. Balanced'
    <3> SUFFICES ASSUME ~plOverlap PROVE Counted' = Counted
      BY <2>0 DEF PlInv, Balanced
    <3>1. ~Recorded(plCall[c])
      BY <2>0, <2>5 DEF PlInv, Alone, Moving, Recorded
    <3>2. plLedger' = plLedger \cup {RowOf(c)}
      BY <3>1, <2>0
    <3>3. {d \in PlayCalls : plCall[d].at = "record"} = {d \in PlayCalls : plCall'[d].at = "record"} \cup {c}
      BY <2>0, <2>1, <2>2
    <3> QED BY <3>2, <3>3, <2>0, <2>2 DEF Counted
  <2>10. Covered'
    BY <2>0, <2>1, <2>2 DEF PlInv, Covered
  <2> QED BY <2>4, <2>6, <2>7, <2>8, <2>9, <2>10 DEF PlInv
<1>10. CASE UNCHANGED plVars
  <2>1. Counted' = Counted
    BY <1>10 DEF plVars, Counted, RowOf
  <2> QED BY <2>1, <1>10 DEF plVars, PlInv, PlayTypes, KindSteps, RowsOnce, Alone, Working, Moving, Balanced, Covered
<1> QED BY <1>1, <1>2, <1>3, <1>4, <1>5, <1>6, <1>7, <1>8, <1>9, <1>10 DEF PlNext

LEMMA PlayKeeps == PlInv => PlayMoneySafe
<1> SUFFICES ASSUME PlInv PROVE PlayMoneySafe
  OBVIOUS
<1>1. LedgerExplains
  <2> SUFFICES ASSUME Quiet, ~plOverlap PROVE plBalance = Seed + plFunds + SumOf({row \in plLedger : row.key \notin plReversed})
    BY DEF LedgerExplains
  <2>1. {d \in PlayCalls : plCall[d].at = "record"} = {}
    BY DEF Quiet
  <2>2. Counted = {row \in plLedger : row.key \notin plReversed}
    BY <2>1 DEF Counted
  <2> QED BY <2>2 DEF PlInv, Balanced
<1>2. NoOverdraft
  BY DEF PlInv, Covered, NoOverdraft
<1> QED BY <1>1, <1>2 DEF PlayMoneySafe

-----------------------------------------------------------------------------
(* The Redis stores over one socket (integrations/redis_store.py).         *)

RedisVals == {"nil", "live", "claimed", "done"}
RedisOp == [name : DOMAIN Ops, store : Stores, key : RedisKeys]
RedisReply == [to : RedisCalls, key : RedisKeys, val : RedisVals \cup {"OK"}]
RedisTypes ==
  /\ RsTypeOK
  /\ rsOp \in [RedisCalls -> RedisOp \cup {[name |-> "none"]}]
  /\ rsGot \in [RedisCalls -> {"nothing", "claimed", "ended", "found", "completed", "error", "refused", "redeemed",
                               "gone", "kept", "released", "unseen", "inFlight", "replay"}]
  /\ rsWire \in [Stores -> Seq(RedisReply)]

\* Which commands an operation has, and what it comes to.
CommandsOf ==
  [redeem |-> {"EVAL", "GET", "DEL"}, get |-> {"GET"}, touch |-> {"GET", "SET"}, end |-> {"DEL"},
   peek |-> {"GET"}, claim |-> {"GET", "SETNX"}, complete |-> {"GET", "SET"}, release |-> {"GET", "DEL"}]
OpsSound ==
  \A c \in RedisCalls :
    /\ rsOp[c].name = "none" => rsCmd[c] = "over" /\ rsGot[c] = "nothing"
    /\ rsOp[c].name # "none" => rsOp[c].store = Ops[rsOp[c].name]
    /\ rsCmd[c] = "over" => ~rsWaiting[c] /\ (rsGot[c] = "nothing" => rsOp[c].name = "none")
    /\ rsCmd[c] # "over" => /\ rsCmd[c] \in CommandsOf[rsOp[c].name]
                            /\ rsGot[c] = IF rsOp[c].name \in {"complete", "release"} THEN "claimed" ELSE "nothing"
    /\ rsCmd[c] \in {"GET", "DEL"} /\ rsOp[c].name = "redeem" => rsOp[c].key \in rsFellBack
    /\ rsGot[c] = "redeemed" => rsOp[c].name = "redeem"
    /\ rsGot[c] = "claimed" => rsOp[c].name \in {"claim", "complete", "release"}
    /\ rsGot[c] = "completed" => rsOp[c].name = "complete"

\* Who was given the token, or will find so in a reply that is on its way.
OnTheWay(c, store) == \E i \in DOMAIN rsWire[store] : rsWire[store][i].to = c /\ rsWire[store][i].val # "nil"
GivenToken(c) ==
  /\ rsOp[c].name = "redeem"
  /\ rsGot[c] = "redeemed" \/ (rsWaiting[c] /\ OnTheWay(c, "launch"))
TokensGiven ==
  \A c \in RedisCalls : GivenToken(c) /\ rsOp[c].key \notin rsFellBack =>
    /\ rsData["launch"][rsOp[c].key] = "nil"
    /\ \A d \in RedisCalls : GivenToken(d) /\ rsOp[d].key = rsOp[c].key => c = d

\* A reply is for a call of that store; one of a claim waits for it, or has given up.
RepliesDue ==
  \A s \in Stores : \A i \in DOMAIN rsWire[s] :
    LET c == rsWire[s][i].to IN
    /\ rsOp[c].name # "none" /\ rsOp[c].store = s /\ (rsCmd[c] = "EVAL" => rsWaiting[c])
    /\ s = "idem" /\ rsGot[c] # "error" => rsWaiting[c] /\ \A j \in DOMAIN rsWire[s] : rsWire[s][j].to = c => i = j

\* Who has the claim of a key, until it completes it or has it deleted.
HoldsClaim(c) ==
  \/ rsCmd[c] = "SETNX" /\ rsWaiting[c] /\ OnTheWay(c, "idem")
  \/ rsGot[c] = "claimed" /\ ~(rsCmd[c] = "DEL" /\ rsWaiting[c])
  \/ rsGot[c] = "completed"
HasResult(c) == rsGot[c] = "completed" \/ (rsCmd[c] = "SET" /\ rsWaiting[c])
ClaimsHeldOnce ==
  \A c \in RedisCalls : HoldsClaim(c) =>
    /\ rsData["idem"][rsOp[c].key] = IF HasResult(c) THEN "done" ELSE "claimed"
    /\ \A d \in RedisCalls : HoldsClaim(d) /\ rsOp[d].key = rsOp[c].key => c = d

RsInv == RedisTypes /\ OpsSound /\ (rsInStep => TokensGiven /\ RepliesDue /\ ClaimsHeldOnce)

LEMMA OpNames ==
  /\ DOMAIN Ops = {"redeem", "get", "touch", "end", "peek", "claim", "complete", "release"}
  /\ \A n \in DOMAIN Ops : Ops[n] \in Stores /\ (Ops[n] = "launch" <=> n = "redeem")
                           /\ (Ops[n] = "idem" <=> n \in {"peek", "claim", "complete", "release"})
                           /\ First(n) \in CommandsOf[n] /\ First(n) \notin {"SET", "SETNX", "over"}
                           /\ (First(n) = "EVAL" <=> n = "redeem")
                           /\ (n \in {"redeem", "complete", "release", "claim"} => First(n) # "DEL")
                           /\ (n = "redeem" => First(n) # "GET")
BY DEF Ops, Stores, First, CommandsOf

LEMMA Commands ==
  ASSUME NEW n \in DOMAIN Ops, NEW cmd \in CommandsOf[n]
  PROVE  /\ cmd \in {"EVAL", "GET", "SET", "SETNX", "DEL"}
         /\ cmd = "EVAL" => n = "redeem"
         /\ cmd = "SETNX" => n = "claim"
         /\ cmd = "SET" => n \in {"touch", "complete"}
         /\ cmd = "DEL" => n \in {"redeem", "end", "release"}
         /\ n = "redeem" => cmd \in {"EVAL", "GET", "DEL"}
BY OpNames DEF CommandsOf

\* What an operation makes of a reply.
LEMMA RepliesTaken ==
  ASSUME NEW n \in DOMAIN Ops, NEW cmd \in CommandsOf[n], NEW own \in BOOLEAN, NEW val \in RedisVals \cup {"OK"},
         NEW r, r = AfterReply(n, cmd, own, val)
  PROVE  /\ r.cmd \in CommandsOf[n] \cup {"over"} /\ r.cmd # "EVAL"
         /\ r.cmd \in {"GET", "DEL"} /\ n = "redeem" => cmd = "GET"
         /\ r.cmd = "GET" => cmd = "SETNX"
         /\ cmd \in {"SET", "DEL"} => r.cmd = "over"
         /\ r.cmd = "over" =>
              /\ r.got \in {"claimed", "ended", "found", "completed", "error", "refused", "redeemed",
                            "gone", "kept", "released", "unseen", "inFlight", "replay"}
              /\ r.got = "claimed" => cmd = "SETNX" /\ val # "nil"
              /\ r.got = "completed" => cmd = "SET" /\ n = "complete"
              /\ r.got = "redeemed" => n = "redeem" /\ (cmd = "EVAL" => val # "nil")
<1>1. CASE cmd = "SETNX"
  BY <1>1, Commands DEF AfterReply, GoesOn, EndsAs, CommandsOf
<1>2. CASE cmd = "DEL"
  BY <1>2, Commands DEF AfterReply, GoesOn, EndsAs, CommandsOf
<1>3. CASE cmd = "SET"
  BY <1>3, Commands DEF AfterReply, GoesOn, EndsAs, CommandsOf
<1>4. CASE cmd \notin {"SETNX", "DEL", "SET"}
  <2>1. r = AfterRead(n, cmd, own, val) /\ cmd \in {"EVAL", "GET"}
    BY <1>4, Commands DEF AfterReply
  <2>2. CASE val = "OK"
    BY <2>1, <2>2 DEF AfterRead, EndsAs
  <2>3. CASE val # "OK" /\ n = "redeem"
    BY <2>1, <2>3 DEF AfterRead, GoesOn, EndsAs, CommandsOf
  <2>4. CASE val # "OK" /\ n = "get"
    <3>1. r = EndsAs(IF val = "nil" THEN "gone" ELSE "found")
      BY <2>1, <2>4 DEF AfterRead
    <3> QED BY <3>1, <2>1 DEF EndsAs
  <2>5. CASE val # "OK" /\ n = "touch"
    BY <2>1, <2>5 DEF AfterRead, GoesOn, EndsAs, CommandsOf
  <2>6. CASE val # "OK" /\ n = "peek"
    <3>1. r = IF val = "nil" THEN EndsAs("unseen") ELSE Seen(own, val)
      BY <2>1, <2>6 DEF AfterRead
    <3> QED BY <3>1, <2>1 DEF EndsAs, Seen
  <2>7. CASE val # "OK" /\ n = "claim"
    <3>1. r = IF val = "nil" THEN GoesOn("SETNX") ELSE Seen(own, val)
      BY <2>1, <2>7 DEF AfterRead
    <3>2. "SETNX" \in CommandsOf[n]
      BY <2>7 DEF CommandsOf
    <3> QED BY <3>1, <3>2, <2>1, <2>7 DEF GoesOn, EndsAs, Seen
  <2>8. CASE val # "OK" /\ n = "complete"
    BY <2>1, <2>8 DEF AfterRead, GoesOn, EndsAs, CommandsOf
  <2>9. CASE val # "OK" /\ n = "release"
    BY <2>1, <2>9 DEF AfterRead, GoesOn, EndsAs, CommandsOf
  <2>10. n # "end"
    BY <2>1 DEF CommandsOf
  <2> QED BY <2>2, <2>3, <2>4, <2>5, <2>6, <2>7, <2>8, <2>9, <2>10, OpNames
<1> QED BY <1>1, <1>2, <1>3, <1>4

LEMMA StoresBegin == RsInit => RsInv
<1> SUFFICES ASSUME RsInit PROVE RsInv
  OBVIOUS
<1>1. /\ \A c \in RedisCalls : rsOp[c] = [name |-> "none"] /\ rsOp[c].name = "none" /\ rsCmd[c] = "over"
                               /\ rsWaiting[c] = FALSE /\ rsGot[c] = "nothing"
      /\ \A s \in Stores : rsWire[s] = <<>> /\ rsWire[s] \in Seq(RedisReply) /\ DOMAIN rsWire[s] = {}
  BY DEF RsInit
<1>2. RedisTypes
  BY <1>1, StoresAssumption DEF RsInit, RedisTypes, RsTypeOK, RedisVals
<1>3. OpsSound
  BY <1>1 DEF OpsSound
<1>4. TokensGiven /\ RepliesDue /\ ClaimsHeldOnce
  BY <1>1 DEF TokensGiven, GivenToken, RepliesDue, ClaimsHeldOnce, HoldsClaim
<1> QED BY <1>2, <1>3, <1>4 DEF RsInv

LEMMA StoresKeep == RsInv => StoresKeepPromises
<1> SUFFICES ASSUME RsInv, rsInStep PROVE StoresKeepPromises
  BY DEF StoresKeepPromises, TokenSpentOnce, CompletedKept, RsInv
<1>1. TokenSpentOnce
  BY DEF RsInv, OpsSound, TokensGiven, GivenToken, TokenSpentOnce
<1>2. CompletedKept
  BY DEF RsInv, ClaimsHeldOnce, HoldsClaim, HasResult, CompletedKept
<1> QED BY <1>1, <1>2 DEF StoresKeepPromises

LEMMA StoresStep == RsInv /\ [RsNext]_rsVars => RsInv'
<1> SUFFICES ASSUME RsInv, [RsNext]_rsVars PROVE RsInv'
  OBVIOUS
<1>t. /\ rsOp \in [RedisCalls -> RedisOp \cup {[name |-> "none"]}]
      /\ rsCmd \in [RedisCalls -> {"over", "EVAL", "GET", "SET", "SETNX", "DEL"}]
      /\ rsWaiting \in [RedisCalls -> BOOLEAN] /\ rsWhose \in [RedisCalls -> RedisKeys \cup {"nobody"}]
      /\ rsGot \in [RedisCalls -> {"nothing", "claimed", "ended", "found", "completed", "error", "refused", "redeemed",
                                   "gone", "kept", "released", "unseen", "inFlight", "replay"}]
      /\ rsData \in [Stores -> [RedisKeys -> RedisVals]] /\ rsWire \in [Stores -> Seq(RedisReply)]
      /\ rsClosed \subseteq Stores /\ rsFaults \in 0..MaxFaults /\ rsInStep \in BOOLEAN
  BY DEF RsInv, RedisTypes, RsTypeOK, RedisVals
\* A call under way is of an operation.
<1>n. ASSUME NEW c \in RedisCalls, rsCmd[c] # "over"
      PROVE  /\ rsOp[c] \in RedisOp /\ rsOp[c].name \in DOMAIN Ops /\ rsOp[c].key \in RedisKeys
             /\ rsOp[c].store = Ops[rsOp[c].name] /\ rsOp[c].store \in Stores
             /\ rsCmd[c] \in CommandsOf[rsOp[c].name]
             /\ rsGot[c] = IF rsOp[c].name \in {"complete", "release"} THEN "claimed" ELSE "nothing"
  <2>1. rsOp[c].name # "none" /\ rsOp[c] \in RedisOp \cup {[name |-> "none"]}
    BY <1>n, <1>t DEF RsInv, OpsSound
  <2>2. rsOp[c] \in RedisOp
    BY <2>1
  <2> QED BY <2>1, <2>2, <1>n DEF RedisOp, RsInv, OpsSound
\* What is on a socket, and under which key a call works.
<1>w. \A z \in Stores : \A i \in DOMAIN rsWire[z] :
        rsWire[z][i].to \in RedisCalls /\ rsWire[z][i].key \in RedisKeys /\ rsWire[z][i].val \in RedisVals \cup {"OK"}
  <2> SUFFICES ASSUME NEW z \in Stores, NEW i \in DOMAIN rsWire[z]
               PROVE  rsWire[z][i].to \in RedisCalls /\ rsWire[z][i].key \in RedisKeys /\ rsWire[z][i].val \in RedisVals \cup {"OK"}
    OBVIOUS
  <2>1. rsWire[z] \in Seq(RedisReply)
    BY <1>t
  <2>2. rsWire[z][i] \in RedisReply
    BY <2>1
  <2> QED BY <2>2 DEF RedisReply
<1>o. ASSUME NEW x \in RedisCalls, rsOp[x].name # "none" PROVE rsOp[x].key \in RedisKeys
  <2>1. rsOp[x] \in RedisOp \cup {[name |-> "none"]}
    BY <1>t
  <2>2. rsOp[x] \in RedisOp
    BY <2>1, <1>o
  <2> QED BY <2>2 DEF RedisOp
\* A call that began no operation, or ended one that may be followed, has no reply on its way.
<1>0. ASSUME rsInStep, NEW c \in RedisCalls, rsCmd[c] = "over", rsGot[c] \in {"nothing", "claimed"}
      PROVE  \A s \in Stores : \A i \in DOMAIN rsWire[s] : rsWire[s][i].to # c
  <2>1. ~rsWaiting[c] /\ (rsOp[c].name = "none" \/ rsGot[c] = "claimed")
    BY <1>0 DEF RsInv, OpsSound
  <2>2. CASE rsOp[c].name = "none"
    BY <2>2, <1>0 DEF RsInv, RepliesDue
  <2>3. CASE rsOp[c].name # "none" /\ rsGot[c] = "claimed"
    <3>1. rsOp[c].name \in {"claim", "complete", "release"} /\ rsOp[c].store = "idem"
      BY <2>3, OpNames DEF RsInv, OpsSound
    <3> QED BY <2>1, <2>3, <3>1, <1>0 DEF RsInv, RepliesDue
  <2> QED BY <2>1, <2>2, <2>3
\* What is kept where nobody comes to a token or a claim.
<1>k. ASSUME rsInStep, UNCHANGED rsData, rsFellBack \subseteq rsFellBack',
             \A x \in RedisCalls : GivenToken(x)' /\ rsOp'[x].key \notin rsFellBack =>
                                     GivenToken(x) /\ rsOp'[x].key = rsOp[x].key
      PROVE  TokensGiven'
  BY <1>k DEF RsInv, TokensGiven
<1>c. ASSUME rsInStep, UNCHANGED rsData,
             \A x \in RedisCalls : HoldsClaim(x)' => HoldsClaim(x) /\ rsOp'[x].key = rsOp[x].key /\ HasResult(x)' = HasResult(x)
      PROVE  ClaimsHeldOnce'
  BY <1>c DEF RsInv, ClaimsHeldOnce
<1>1. ASSUME NEW c \in RedisCalls, OpBegins(c) PROVE RsInv'
  <2>1. PICK name \in DOMAIN Ops, k \in RedisKeys :
          /\ rsCmd[c] = "over"
          /\ IF name \in {"complete", "release"} THEN rsGot[c] = "claimed" /\ rsOp[c].key = k ELSE rsGot[c] = "nothing"
          /\ rsOp' = [rsOp EXCEPT ![c] = [name |-> name, store |-> Ops[name], key |-> k]]
          /\ rsCmd' = [rsCmd EXCEPT ![c] = First(name)]
          /\ UNCHANGED <<rsWaiting, rsGot, rsWhose, rsData, rsWire, rsClosed, rsFaults, rsInStep, rsFellBack>>
    BY <1>1 DEF OpBegins
  <2> DEFINE e == [name |-> name, store |-> Ops[name], key |-> k]
  <2>2. e \in RedisOp /\ e.name = name /\ e.store = Ops[name] /\ e.key = k /\ name # "none"
    BY OpNames DEF RedisOp
  <2> HIDE DEF e
  <2>3. /\ rsOp' = [rsOp EXCEPT ![c] = e] /\ rsOp'[c] = e /\ rsCmd'[c] = First(name) /\ ~rsWaiting[c]
        /\ \A x \in RedisCalls : x # c => rsOp'[x] = rsOp[x] /\ rsCmd'[x] = rsCmd[x]
        /\ rsGot[c] \in {"nothing", "claimed"}
    BY <2>1, <1>t DEF e, RsInv, OpsSound
  <2>4. RedisTypes'
    <3>1. First(name) \in {"EVAL", "GET", "DEL"}
      BY DEF First
    <3> QED BY <2>1, <2>2, <2>3, <3>1, <1>t DEF RedisTypes, RsTypeOK, RedisVals
  <2>5. OpsSound'
    BY <2>1, <2>2, <2>3, OpNames DEF RsInv, OpsSound
  <2>6. ASSUME rsInStep PROVE TokensGiven' /\ RepliesDue' /\ ClaimsHeldOnce'
    <3>1. \A s \in Stores : \A i \in DOMAIN rsWire[s] : rsWire[s][i].to # c
      BY <2>1, <2>3, <2>6, <1>0
    <3>2. RepliesDue'
      <4> SUFFICES ASSUME NEW z \in Stores, NEW i \in DOMAIN rsWire[z]
                   PROVE  LET x == rsWire[z][i].to IN
                          /\ rsOp'[x].name # "none" /\ rsOp'[x].store = z /\ (rsCmd'[x] = "EVAL" => rsWaiting[x])
                          /\ z = "idem" /\ rsGot[x] # "error" =>
                               rsWaiting[x] /\ \A j \in DOMAIN rsWire[z] : rsWire[z][j].to = x => i = j
        BY <2>1 DEF RepliesDue
      <4>1. rsWire[z][i].to \in RedisCalls /\ rsWire[z][i].to # c
        BY <3>1, <1>w
      <4>2. rsOp'[rsWire[z][i].to] = rsOp[rsWire[z][i].to] /\ rsCmd'[rsWire[z][i].to] = rsCmd[rsWire[z][i].to]
        BY <4>1, <2>3
      <4> QED BY <4>2, <2>6 DEF RsInv, RepliesDue
    <3>3. \A x \in RedisCalls : GivenToken(x)' => GivenToken(x) /\ rsOp'[x].key = rsOp[x].key
      BY <2>1, <2>3 DEF GivenToken, OnTheWay
    <3>4. \A x \in RedisCalls : HoldsClaim(x)' => HoldsClaim(x) /\ rsOp'[x].key = rsOp[x].key /\ HasResult(x)' = HasResult(x)
      BY <2>1, <2>2, <2>3, OpNames DEF HoldsClaim, OnTheWay, HasResult
    <3> QED BY <2>1, <2>6, <3>2, <3>3, <3>4, <1>k, <1>c
  <2> QED BY <2>1, <2>4, <2>5, <2>6 DEF RsInv
<1>2. ASSUME NEW c \in RedisCalls, SendsCommand(c) PROVE RsInv'
  <2> DEFINE op == rsOp[c]
             s == op.store
             k == op.key
             old == rsData[s][k]
             reply == [to |-> c, key |-> k, val |-> Replied(op.name, rsCmd[c], old)]
  <2>1. /\ rsCmd[c] # "over" /\ ~rsWaiting[c]
        /\ rsWaiting' = [rsWaiting EXCEPT ![c] = TRUE]
        /\ rsData' = [rsData EXCEPT ![s][k] = Stored(op.name, rsCmd[c], old)]
        /\ rsWire' = [rsWire EXCEPT ![s] = Append(rsWire[s], reply)]
        /\ UNCHANGED <<rsOp, rsCmd, rsGot, rsWhose, rsClosed, rsFaults, rsInStep, rsFellBack>>
    BY <1>2 DEF SendsCommand
  <2>2. /\ op \in RedisOp /\ op.name \in DOMAIN Ops /\ k \in RedisKeys /\ s = Ops[op.name] /\ s \in Stores
        /\ rsCmd[c] \in CommandsOf[op.name] /\ old \in RedisVals
        /\ rsGot[c] = IF op.name \in {"complete", "release"} THEN "claimed" ELSE "nothing"
    <3>1. /\ op \in RedisOp /\ op.name \in DOMAIN Ops /\ k \in RedisKeys /\ s = Ops[op.name] /\ s \in Stores
          /\ rsCmd[c] \in CommandsOf[op.name]
          /\ rsGot[c] = IF op.name \in {"complete", "release"} THEN "claimed" ELSE "nothing"
      BY <2>1, <1>n
    <3> HIDE DEF s, k
    <3>2. rsData[s] \in [RedisKeys -> RedisVals]
      BY <3>1, <1>t
    <3> QED BY <3>1, <3>2
  <2>3. Stored(op.name, rsCmd[c], old) \in RedisVals /\ Replied(op.name, rsCmd[c], old) \in RedisVals \cup {"OK"}
    BY <2>2 DEF Stored, Replied, RedisVals
  <2>4. reply \in RedisReply /\ reply.to = c /\ reply.val = Replied(op.name, rsCmd[c], old)
    BY <2>2, <2>3 DEF RedisReply
  <2>5. /\ rsWire' \in [Stores -> Seq(RedisReply)] /\ \A z \in Stores : z # s => rsWire'[z] = rsWire[z]
        /\ Len(rsWire[s]) \in Nat /\ DOMAIN rsWire[s] = 1..Len(rsWire[s])
        /\ DOMAIN rsWire'[s] = 1..(Len(rsWire[s]) + 1) /\ rsWire'[s][Len(rsWire[s]) + 1] = reply
        /\ \A i \in DOMAIN rsWire[s] : rsWire'[s][i] = rsWire[s][i]
    <3> HIDE DEF op, s, k, old, reply
    <3>1. rsWire[s] \in Seq(RedisReply)
      BY <2>2, <1>t
    <3>2. Append(rsWire[s], reply) \in Seq(RedisReply)
      BY <3>1, <2>4
    <3>3. rsWire'[s] = Append(rsWire[s], reply) /\ \A z \in Stores : z # s => rsWire'[z] = rsWire[z]
      BY <2>1, <2>2, <1>t
    <3>4. rsWire' \in [Stores -> Seq(RedisReply)]
      BY <2>1, <2>2, <3>2, <1>t
    <3>5. /\ Len(rsWire[s]) \in Nat /\ DOMAIN rsWire[s] = 1..Len(rsWire[s])
          /\ DOMAIN Append(rsWire[s], reply) = 1..(Len(rsWire[s]) + 1)
          /\ Append(rsWire[s], reply)[Len(rsWire[s]) + 1] = reply
          /\ \A i \in DOMAIN rsWire[s] : Append(rsWire[s], reply)[i] = rsWire[s][i]
      BY <3>1, <2>4
    <3> QED BY <3>3, <3>4, <3>5
  <2> DEFINE n == Len(rsWire[s]) + 1
  <2>6. /\ rsData' \in [Stores -> [RedisKeys -> RedisVals]] /\ rsData'[s][k] = Stored(op.name, rsCmd[c], old)
        /\ \A z \in Stores : z # s => rsData'[z] = rsData[z]
        /\ \A q \in RedisKeys : q # k => rsData'[s][q] = rsData[s][q]
    <3> HIDE DEF op, s, k, old, reply
    <3> QED BY <2>1, <2>2, <2>3, <1>t
  <2>7. rsWaiting' \in [RedisCalls -> BOOLEAN] /\ rsWaiting'[c] /\ \A x \in RedisCalls : x # c => rsWaiting'[x] = rsWaiting[x]
    BY <2>1, <1>t
  <2> HIDE DEF op, s, k, old, reply
  <2>8. RedisTypes'
    BY <2>1, <2>5, <2>6, <2>7, <1>t DEF RedisTypes, RsTypeOK, RedisVals
  <2>9. OpsSound'
    BY <2>1, <2>7 DEF RsInv, OpsSound
  <2>10. ASSUME rsInStep PROVE TokensGiven' /\ RepliesDue' /\ ClaimsHeldOnce'
    <3>1. \A x \in RedisCalls : x # c => \A z \in Stores : OnTheWay(x, z)' = OnTheWay(x, z)
      <4> SUFFICES ASSUME NEW x \in RedisCalls, x # c, NEW z \in Stores PROVE OnTheWay(x, z)' = OnTheWay(x, z)
        OBVIOUS
      <4>1. CASE z # s
        BY <4>1, <2>5 DEF OnTheWay
      <4>2. CASE z = s
        BY SMTT(60), <4>2, <2>4, <2>5 DEF OnTheWay
      <4> QED BY <4>1, <4>2
    <3>2. (rsCmd[c] = "EVAL" \/ s = "idem") => \A i \in DOMAIN rsWire[s] : rsWire[s][i].to # c
      BY <2>1, <2>2, <2>10 DEF RsInv, RepliesDue
    <3>3. TokensGiven'
      <4>1. CASE s # "launch"
        <5>1. \A x \in RedisCalls : GivenToken(x)' => GivenToken(x)
          BY <4>1, <2>1, <2>2, <2>7, <3>1, OpNames DEF GivenToken, op, Stores
        <5>2. rsData'["launch"] = rsData["launch"]
          BY <4>1, <2>6 DEF Stores
        <5> QED BY <5>1, <5>2, <2>1, <2>10 DEF RsInv, TokensGiven
      <4>2. CASE s = "launch" /\ rsCmd[c] = "EVAL"
        <5>1. Stored(op.name, rsCmd[c], old) = "nil" /\ Replied(op.name, rsCmd[c], old) = old
          BY <4>2 DEF Stored, Replied
        <5>2. GivenToken(c)' => old # "nil"
          BY <5>1, <4>2, <3>2, <2>1, <2>2, <2>4, <2>5 DEF GivenToken, OnTheWay
        <5>3. \A x \in RedisCalls : x # c /\ GivenToken(x)' => GivenToken(x)
          BY <2>1, <2>7, <3>1 DEF GivenToken, Stores
        <5>4. \A x \in RedisCalls : GivenToken(x)' /\ x # c /\ rsOp[x].key \notin rsFellBack => ~(GivenToken(c)' /\ rsOp[x].key = k)
          BY <5>2, <5>3, <4>2, <2>10 DEF RsInv, TokensGiven, old
        <5>5. \A x \in RedisCalls : GivenToken(x)' /\ rsOp[x].key \notin rsFellBack => rsData'["launch"][rsOp[x].key] = "nil"
          <6> SUFFICES ASSUME NEW x \in RedisCalls, GivenToken(x)', rsOp[x].key \notin rsFellBack
                       PROVE  rsData'["launch"][rsOp[x].key] = "nil"
            OBVIOUS
          <6>1. CASE rsOp[x].key = k
            BY <6>1, <5>1, <4>2, <2>6
          <6>2. CASE rsOp[x].key # k
            <7>1. x # c /\ GivenToken(x)
              BY <6>2, <5>3 DEF k, op
            <7>2. rsOp[x].key \in RedisKeys
              BY <7>1, <1>o DEF GivenToken
            <7> QED BY <6>2, <7>1, <7>2, <4>2, <2>6, <2>10 DEF RsInv, TokensGiven
          <6> QED BY <6>1, <6>2
        <5>6. \A x, y \in RedisCalls : GivenToken(x)' /\ GivenToken(y)' /\ rsOp[x].key \notin rsFellBack /\ rsOp[x].key = rsOp[y].key => x = y
          <6> SUFFICES ASSUME NEW x \in RedisCalls, NEW y \in RedisCalls, GivenToken(x)', GivenToken(y)',
                              rsOp[x].key \notin rsFellBack, rsOp[x].key = rsOp[y].key, x # y PROVE FALSE
            OBVIOUS
          <6>1. CASE x = c
            BY <6>1, <5>4 DEF k, op
          <6>2. CASE y = c
            BY <6>2, <5>4 DEF k, op
          <6>3. CASE x # c /\ y # c
            BY <6>3, <5>3, <2>10 DEF RsInv, TokensGiven
          <6> QED BY <6>1, <6>2, <6>3
        <5> QED BY <5>5, <5>6, <2>1 DEF TokensGiven
      <4>3. CASE s = "launch" /\ rsCmd[c] # "EVAL"
        <5>1. k \in rsFellBack /\ op.name = "redeem"
          BY <4>3, <2>2, OpNames, Commands DEF RsInv, OpsSound, op, k
        <5>2. \A x \in RedisCalls : x # c /\ GivenToken(x)' => GivenToken(x)
          BY <2>1, <2>7, <3>1 DEF GivenToken, Stores
        <5>3. \A x \in RedisCalls : GivenToken(x)' /\ rsOp[x].key \notin rsFellBack =>
                x # c /\ GivenToken(x) /\ rsData'["launch"][rsOp[x].key] = rsData["launch"][rsOp[x].key]
          <6> SUFFICES ASSUME NEW x \in RedisCalls, GivenToken(x)', rsOp[x].key \notin rsFellBack
                       PROVE  x # c /\ GivenToken(x) /\ rsData'["launch"][rsOp[x].key] = rsData["launch"][rsOp[x].key]
            OBVIOUS
          <6>1. x # c /\ rsOp[x].key # k /\ GivenToken(x)
            BY <5>1, <5>2 DEF k, op
          <6>2. rsOp[x].key \in RedisKeys
            BY <6>1, <1>o DEF GivenToken
          <6> QED BY <6>1, <6>2, <4>3, <2>6
        <5> QED BY <5>1, <5>3, <2>1, <2>10 DEF RsInv, TokensGiven
      <4> QED BY <4>1, <4>2, <4>3
    <3>4. RepliesDue'
      <4> SUFFICES ASSUME NEW z \in Stores, NEW i \in DOMAIN rsWire'[z]
                   PROVE  LET x == rsWire'[z][i].to IN
                          /\ rsOp'[x].name # "none" /\ rsOp'[x].store = z /\ (rsCmd'[x] = "EVAL" => rsWaiting'[x])
                          /\ z = "idem" /\ rsGot'[x] # "error" =>
                               rsWaiting'[x] /\ \A j \in DOMAIN rsWire'[z] : rsWire'[z][j].to = x => i = j
        BY DEF RepliesDue
      <4>0. \A q \in Stores : \A j \in DOMAIN rsWire[q] : rsWire[q][j].to \in RedisCalls
        BY <1>w
      <4>1. CASE z # s
        BY <4>0, <4>1, <2>1, <2>5, <2>7, <2>10 DEF RsInv, RepliesDue
      <4>2. CASE z = s /\ i \in DOMAIN rsWire[s]
        <5>1. rsWire'[z][i] = rsWire[s][i] /\ (s = "idem" => rsWire[s][i].to # c)
          BY <4>2, <3>2, <2>5
        <5>2. s = "idem" => rsWire'[s][n].to # rsWire[s][i].to
          BY <5>1, <2>4, <2>5
        <5>3. \A j \in DOMAIN rsWire'[s] : j \in DOMAIN rsWire[s] \/ j = n
          BY <2>5
        <5> QED BY SMTT(60), <4>0, <4>2, <5>1, <5>2, <5>3, <2>1, <2>5, <2>7, <2>10 DEF RsInv, RepliesDue
      <4>3. CASE z = s /\ i = n
        <5>1. rsWire'[z][i] = reply /\ rsWire'[z][i].to = c
          BY <4>3, <2>4, <2>5
        <5>2. rsOp[c].name # "none" /\ rsOp[c].store = s
          BY <2>1 DEF RsInv, OpsSound, s, op
        <5>3. s = "idem" => \A j \in DOMAIN rsWire'[s] : rsWire'[s][j].to = c => j = n
          BY <3>2, <2>5
        <5> QED BY <4>3, <5>1, <5>2, <5>3, <2>1, <2>7
      <4> QED BY <4>1, <4>2, <4>3, <2>5
    <3>5. ClaimsHeldOnce'
      <4>0. \A x \in RedisCalls : x # c => (HoldsClaim(x)' = HoldsClaim(x)) /\ (HasResult(x)' = HasResult(x))
        BY <2>1, <2>7, <3>1 DEF HoldsClaim, HasResult, Stores
      <4>k. \A x \in RedisCalls : HoldsClaim(x) => rsOp[x].key \in RedisKeys
        <5>1. \A x \in RedisCalls : HoldsClaim(x) => rsOp[x].name # "none"
          BY DEF HoldsClaim, RsInv, OpsSound
        <5> QED BY <5>1, <1>o
      <4>1. CASE s # "idem"
        <5>1. ~HoldsClaim(c)' /\ rsData'["idem"] = rsData["idem"]
          <6>1. op.name \notin {"peek", "claim", "complete", "release"}
            BY <4>1, <2>2, OpNames
          <6>2. rsCmd[c] # "SETNX"
            BY <6>1, <2>2, Commands
          <6>3. rsGot[c] = "nothing"
            BY <6>1, <2>2
          <6>4. rsCmd'[c] # "SETNX" /\ rsGot'[c] = "nothing"
            BY <6>2, <6>3, <2>1
          <6>5. ~HoldsClaim(c)'
            BY <6>4 DEF HoldsClaim
          <6>6. rsData'["idem"] = rsData["idem"]
            BY <4>1, <2>6 DEF Stores
          <6> QED BY <6>5, <6>6
        <5> QED BY <4>0, <5>1, <2>1, <2>10 DEF RsInv, ClaimsHeldOnce
      <4>2. CASE s = "idem" /\ rsCmd[c] = "GET"
        <5>1. Stored(op.name, rsCmd[c], old) = old
          BY <4>2 DEF Stored
        <5>2. rsData'["idem"] = rsData["idem"]
          <6>1. rsData["idem"] \in [RedisKeys -> RedisVals] /\ rsData'["idem"] \in [RedisKeys -> RedisVals]
            BY <2>6, <1>t DEF Stores
          <6>2. \A x \in RedisKeys : rsData'["idem"][x] = rsData["idem"][x]
            BY <5>1, <4>2, <2>6 DEF old
          <6> QED BY <6>1, <6>2
        <5>3. (HoldsClaim(c)' = HoldsClaim(c)) /\ (HasResult(c)' = HasResult(c))
          BY <4>2, <2>1 DEF HoldsClaim, HasResult
        <5> QED BY <4>0, <5>2, <5>3, <2>1, <2>10 DEF RsInv, ClaimsHeldOnce
      <4>3. CASE s = "idem" /\ rsCmd[c] = "SETNX"
        <5>0. rsGot[c] = "nothing" /\ ~HasResult(c)' /\ ~HoldsClaim(c)
          BY <4>3, <2>1, <2>2, Commands DEF HasResult, HoldsClaim
        <5>1. CASE old = "nil"
          <6>1. rsData'["idem"][k] = "claimed"
            BY <5>1, <4>3, <2>6 DEF Stored
          <6>2. \A x \in RedisCalls : HoldsClaim(x) => rsOp[x].key # k
            BY <5>1, <4>3, <2>10 DEF RsInv, ClaimsHeldOnce, old
          <6>3. \A x \in RedisCalls : HoldsClaim(x) => rsData'["idem"][rsOp[x].key] = rsData["idem"][rsOp[x].key]
            BY <6>2, <4>k, <4>3, <2>6
          <6> QED BY <4>0, <5>0, <6>1, <6>2, <6>3, <2>1, <2>10 DEF RsInv, ClaimsHeldOnce, k, op
        <5>2. CASE old # "nil"
          <6>1. Stored(op.name, rsCmd[c], old) = old /\ reply.val = "nil"
            BY <5>2, <4>3, <2>4 DEF Stored, Replied
          <6>2. rsData'["idem"] = rsData["idem"]
            <7>1. rsData["idem"] \in [RedisKeys -> RedisVals] /\ rsData'["idem"] \in [RedisKeys -> RedisVals]
            BY <2>6, <1>t DEF Stores
            <7>2. \A x \in RedisKeys : rsData'["idem"][x] = rsData["idem"][x]
            BY <6>1, <4>3, <2>6 DEF old
            <7> QED BY <7>1, <7>2
          <6>3. ~HoldsClaim(c)'
            BY <5>0, <6>1, <4>3, <3>2, <2>1, <2>5 DEF HoldsClaim, OnTheWay
          <6> QED BY <4>0, <6>2, <6>3, <2>1, <2>10 DEF RsInv, ClaimsHeldOnce
        <5> QED BY <5>1, <5>2
      <4>4. CASE s = "idem" /\ rsCmd[c] \in {"SET", "DEL"}
        <5>1. op.name \in {"complete", "release"} /\ (rsCmd[c] = "SET" <=> op.name = "complete") /\ rsGot[c] = "claimed"
          BY <4>4, <2>2, OpNames, Commands
        <5>2. HoldsClaim(c)
          BY <5>1, <2>1 DEF HoldsClaim
        <5>3. \A x \in RedisCalls : HoldsClaim(x) /\ x # c => rsOp[x].key # k
          BY <5>2, <2>10 DEF RsInv, ClaimsHeldOnce, k, op
        <5>4. \A x \in RedisCalls : HoldsClaim(x) /\ x # c => rsData'["idem"][rsOp[x].key] = rsData["idem"][rsOp[x].key]
          BY <5>3, <4>k, <4>4, <2>6
        <5>5. CASE rsCmd[c] = "SET"
          <6>1. rsData'["idem"][k] = "done" /\ HasResult(c)'
            BY <5>5, <5>1, <4>4, <2>1, <2>6, <2>7 DEF Stored, HasResult
          <6> QED BY <4>0, <5>3, <5>4, <6>1, <2>1, <2>10 DEF RsInv, ClaimsHeldOnce, k, op
        <5>6. CASE rsCmd[c] = "DEL"
          <6>1. ~HoldsClaim(c)'
            BY <5>6, <5>1, <2>1, <2>7 DEF HoldsClaim
          <6> QED BY <4>0, <5>3, <5>4, <6>1, <2>1, <2>10 DEF RsInv, ClaimsHeldOnce
        <5> QED BY <5>5, <5>6, <4>4
      <4> QED BY <4>1, <4>2, <4>3, <4>4, <2>2, OpNames, Commands DEF CommandsOf
    <3> QED BY <3>3, <3>4, <3>5
  <2> QED BY <2>1, <2>8, <2>9, <2>10 DEF RsInv
<1>3. ASSUME NEW c \in RedisCalls, ReadsReply(c) PROVE RsInv'
  <2> DEFINE op == rsOp[c]
             s == op.store
             w == rsWire[s]
             reply == Head(w)
             next == AfterReply(op.name, rsCmd[c], reply.key = op.key, reply.val)
  <2>1. /\ rsWaiting[c] /\ w # <<>> /\ rsWire' = [rsWire EXCEPT ![s] = Tail(w)]
        /\ rsCmd' = [rsCmd EXCEPT ![c] = next.cmd]
        /\ rsGot' = [rsGot EXCEPT ![c] = IF next.cmd = "over" THEN next.got ELSE rsGot[c]]
        /\ rsWaiting' = [rsWaiting EXCEPT ![c] = FALSE]
        /\ rsWhose' = (IF reply.val = "OK" THEN rsWhose ELSE [rsWhose EXCEPT ![c] = reply.key])
        /\ rsInStep' = (rsInStep /\ reply.to = c)
        /\ UNCHANGED <<rsOp, rsData, rsClosed, rsFaults, rsFellBack>>
    BY <1>3 DEF ReadsReply, OpContinues
  <2>2. /\ rsCmd[c] # "over" /\ op.name \in DOMAIN Ops /\ s = Ops[op.name] /\ s \in Stores
        /\ rsCmd[c] \in CommandsOf[op.name]
        /\ rsGot[c] = IF op.name \in {"complete", "release"} THEN "claimed" ELSE "nothing"
    <3>1. rsCmd[c] # "over"
      BY <2>1 DEF RsInv, OpsSound
    <3> QED BY SMTT(60), <3>1, <1>n
  <2>3. /\ \A z \in Stores : z # s => rsWire'[z] = rsWire[z]
        /\ rsWire' \in [Stores -> Seq(RedisReply)] /\ reply = w[1] /\ 1 \in DOMAIN w
        /\ \A i \in DOMAIN rsWire'[s] : i \in Nat /\ i + 1 \in DOMAIN w /\ i + 1 # 1 /\ rsWire'[s][i] = w[i + 1]
    <3> HIDE DEF op, s
    <3>1. w \in Seq(RedisReply)
      BY <2>2, <1>t
    <3> HIDE DEF w
    <3>2. Tail(w) \in Seq(RedisReply) /\ reply = w[1] /\ 1 \in DOMAIN w
      BY <2>1, <3>1
    <3>3. \A i \in DOMAIN Tail(w) : i \in Nat /\ i + 1 \in DOMAIN w /\ i + 1 # 1 /\ Tail(w)[i] = w[i + 1]
      BY <2>1, <3>1
    <3>4. rsWire'[s] = Tail(w) /\ \A z \in Stores : z # s => rsWire'[z] = rsWire[z]
      BY <2>1, <2>2, <1>t
    <3>5. rsWire' \in [Stores -> Seq(RedisReply)]
      BY <2>1, <2>2, <3>2, <1>t
    <3> QED BY <3>2, <3>3, <3>4, <3>5
  <2>4. reply.to \in RedisCalls /\ reply.key \in RedisKeys /\ reply.val \in RedisVals \cup {"OK"}
    <3> HIDE DEF s
    <3> QED BY <2>2, <2>3, <1>w
  <2>5. /\ next.cmd \in CommandsOf[op.name] \cup {"over"} /\ next.cmd # "EVAL"
        /\ next.cmd \in {"GET", "DEL"} /\ op.name = "redeem" => rsCmd[c] = "GET"
        /\ rsCmd[c] \in {"SET", "DEL"} => next.cmd = "over"
        /\ next.cmd = "over" =>
             /\ next.got \in {"claimed", "ended", "found", "completed", "error", "refused", "redeemed",
                              "gone", "kept", "released", "unseen", "inFlight", "replay"}
             /\ next.got = "claimed" => rsCmd[c] = "SETNX" /\ reply.val # "nil"
             /\ next.got = "completed" => rsCmd[c] = "SET" /\ op.name = "complete"
             /\ next.got = "redeemed" => op.name = "redeem" /\ (rsCmd[c] = "EVAL" => reply.val # "nil")
    <3> DEFINE own == reply.key = op.key
    <3>1. own \in BOOLEAN /\ next = AfterReply(op.name, rsCmd[c], own, reply.val)
      OBVIOUS
    <3>2. op.name \in DOMAIN Ops /\ rsCmd[c] \in CommandsOf[op.name] /\ reply.val \in RedisVals \cup {"OK"}
      BY <2>2, <2>4
    <3> HIDE DEF own, op, reply, next
    <3> QED BY <3>1, <3>2, RepliesTaken
  <2>p. op = rsOp[c] /\ s = op.store /\ w = rsWire[s]
    OBVIOUS
  <2> HIDE DEF op, s, w, reply, next
  <2>6. /\ rsCmd'[c] = next.cmd /\ ~rsWaiting'[c] /\ rsGot'[c] = IF next.cmd = "over" THEN next.got ELSE rsGot[c]
        /\ \A x \in RedisCalls : x # c => rsCmd'[x] = rsCmd[x] /\ rsGot'[x] = rsGot[x] /\ rsWaiting'[x] = rsWaiting[x]
    BY <2>1, <1>t
  <2>7. RedisTypes'
    <3>1. next.cmd \in {"over", "EVAL", "GET", "SET", "SETNX", "DEL"}
      BY <2>2, <2>5, Commands
    <3>2. rsCmd' \in [RedisCalls -> {"over", "EVAL", "GET", "SET", "SETNX", "DEL"}]
      BY <3>1, <2>1, <1>t
    <3>3. rsGot' \in [RedisCalls -> {"nothing", "claimed", "ended", "found", "completed", "error", "refused", "redeemed",
                                     "gone", "kept", "released", "unseen", "inFlight", "replay"}]
      BY <2>1, <2>5, <1>t
    <3>4. rsWhose' \in [RedisCalls -> RedisKeys \cup {"nobody"}]
      BY <2>1, <2>4, <1>t
    <3>5. rsWaiting' \in [RedisCalls -> BOOLEAN] /\ rsInStep' \in BOOLEAN
      BY <2>1, <1>t
    <3> QED BY <3>2, <3>3, <3>4, <3>5, <2>1, <2>3, <1>t DEF RedisTypes, RsTypeOK, RedisVals
  <2>8. OpsSound'
    <3> SUFFICES ASSUME NEW x \in RedisCalls
                 PROVE  /\ rsOp[x].name = "none" => rsCmd'[x] = "over" /\ rsGot'[x] = "nothing"
                        /\ rsOp[x].name # "none" => rsOp[x].store = Ops[rsOp[x].name]
                        /\ rsCmd'[x] = "over" => ~rsWaiting'[x] /\ (rsGot'[x] = "nothing" => rsOp[x].name = "none")
                        /\ rsCmd'[x] # "over" =>
                             /\ rsCmd'[x] \in CommandsOf[rsOp[x].name]
                             /\ rsGot'[x] = IF rsOp[x].name \in {"complete", "release"} THEN "claimed" ELSE "nothing"
                        /\ rsCmd'[x] \in {"GET", "DEL"} /\ rsOp[x].name = "redeem" => rsOp[x].key \in rsFellBack
                        /\ rsGot'[x] = "redeemed" => rsOp[x].name = "redeem"
                        /\ rsGot'[x] = "claimed" => rsOp[x].name \in {"claim", "complete", "release"}
                        /\ rsGot'[x] = "completed" => rsOp[x].name = "complete"
      BY <2>1 DEF OpsSound
    <3>1. CASE x # c
      BY <3>1, <2>6 DEF RsInv, OpsSound
    <3>2. CASE x = c
      <4>1. op.name # "none" /\ (rsCmd[c] = "SETNX" => op.name = "claim")
        BY <2>2, OpNames, Commands
      <4>2. rsCmd[c] = "GET" /\ op.name = "redeem" => rsOp[c].key \in rsFellBack
        BY <2>p DEF RsInv, OpsSound
      <4> QED BY <3>2, <4>1, <4>2, <2>p, <2>2, <2>5, <2>6
    <3> QED BY <3>1, <3>2
  <2>9. ASSUME rsInStep' PROVE TokensGiven' /\ RepliesDue' /\ ClaimsHeldOnce'
    <3>0. rsInStep /\ reply.to = c /\ OpsSound /\ TokensGiven /\ RepliesDue /\ ClaimsHeldOnce
      BY <2>9, <2>1 DEF RsInv
    <3>1. \A x \in RedisCalls : \A z \in Stores : OnTheWay(x, z)' => OnTheWay(x, z)
      <4> SUFFICES ASSUME NEW x \in RedisCalls, NEW z \in Stores, OnTheWay(x, z)' PROVE OnTheWay(x, z)
        OBVIOUS
      <4>1. CASE z # s
        BY <4>1, <2>3 DEF OnTheWay
      <4>2. CASE z = s
        BY <4>2, <2>3, <2>p DEF OnTheWay
      <4> QED BY <4>1, <4>2
    <3>2. reply.val # "nil" => OnTheWay(c, s)
      BY <3>0, <2>3, <2>p DEF OnTheWay
    <3>3. TokensGiven'
      <4>1. \A x \in RedisCalls : x # c /\ GivenToken(x)' => GivenToken(x)
        BY <3>1, <2>1, <2>6 DEF GivenToken, Stores
      <4>2. GivenToken(c)' /\ rsOp[c].key \notin rsFellBack => GivenToken(c)
        <5> SUFFICES ASSUME GivenToken(c)', rsOp[c].key \notin rsFellBack PROVE GivenToken(c)
          OBVIOUS
        <5>1. op.name = "redeem" /\ rsGot'[c] = "redeemed"
          BY <2>1, <2>6, <2>p DEF GivenToken
        <5>2. rsGot[c] = "nothing" /\ next.cmd = "over" /\ next.got = "redeemed" /\ s = "launch"
          BY <5>1, <2>2, <2>6, OpNames
        <5>3. rsCmd[c] = "EVAL"
          BY <5>1, <2>2, <2>p, Commands DEF RsInv, OpsSound
        <5> QED BY <5>1, <5>2, <5>3, <3>2, <2>1, <2>5, <2>p DEF GivenToken
      <4> QED BY <4>1, <4>2, <3>0, <2>1, <1>k
    <3>4. RepliesDue'
      <4> SUFFICES ASSUME NEW z \in Stores, NEW i \in DOMAIN rsWire'[z]
                   PROVE  LET x == rsWire'[z][i].to IN
                          /\ rsOp[x].name # "none" /\ rsOp[x].store = z /\ (rsCmd'[x] = "EVAL" => rsWaiting'[x])
                          /\ z = "idem" /\ rsGot'[x] # "error" =>
                               rsWaiting'[x] /\ \A j \in DOMAIN rsWire'[z] : rsWire'[z][j].to = x => i = j
        BY <2>1 DEF RepliesDue
      <4>1. CASE z # s
        <5>1. rsWire'[z] = rsWire[z] /\ i \in DOMAIN rsWire[z]
          BY <4>1, <2>3
        <5>2. rsWire[z][i].to \in RedisCalls /\ rsOp[rsWire[z][i].to].store = z
          BY <5>1, <3>0, <1>w DEF RepliesDue
        <5>3. rsWire[z][i].to # c
          BY <5>2, <4>1, <2>p
        <5> QED BY <5>1, <5>2, <5>3, <3>0, <2>6 DEF RepliesDue
      <4>2. CASE z = s
        <5>1. i + 1 \in DOMAIN rsWire[s] /\ rsWire'[s][i] = rsWire[s][i + 1] /\ i + 1 # 1 /\ i \in Nat
          BY <4>2, <2>3, <2>p
        <5>2. \A j \in DOMAIN rsWire'[s] : j \in Nat /\ j + 1 \in DOMAIN rsWire[s] /\ rsWire'[s][j] = rsWire[s][j + 1]
          BY SMTT(60), <2>3, <2>p
        <5> DEFINE x == rsWire[s][i + 1].to
        <5>3. /\ x \in RedisCalls /\ rsOp[x].name # "none" /\ rsOp[x].store = s /\ (rsCmd[x] = "EVAL" => rsWaiting[x])
              /\ s = "idem" /\ rsGot[x] # "error" => rsWaiting[x] /\ \A j \in DOMAIN rsWire[s] : rsWire[s][j].to = x => i + 1 = j
          BY <5>1, <2>2, <3>0, <1>w DEF RepliesDue
        <5>p. x = rsWire'[z][i].to
          BY <5>1, <4>2
        <5> HIDE DEF x
        <5>4. CASE x # c
          <6>1. s = "idem" /\ rsGot[x] # "error" => \A j \in DOMAIN rsWire'[s] : rsWire'[s][j].to = x => i + 1 = j + 1
            BY <5>2, <5>3
          <6>2. \A j \in Nat : i + 1 = j + 1 => i = j
            BY <5>1
          <6> QED BY <4>2, <5>p, <5>2, <5>3, <5>4, <6>1, <6>2, <2>6
        <5>5. CASE x = c
          <6>1. s # "idem"
            <7>1. rsGot[c] # "error"
              BY <2>2
            <7>2. rsWire[s][1].to = c /\ 1 \in DOMAIN rsWire[s]
              BY <3>0, <2>3, <2>p
            <7> QED BY <7>1, <7>2, <5>1, <5>3, <5>5
          <6> QED BY <4>2, <5>p, <5>3, <5>5, <6>1, <2>5, <2>6
        <5> QED BY <5>4, <5>5
      <4> QED BY <4>1, <4>2
    <3>5. ClaimsHeldOnce'
      <4>1. \A x \in RedisCalls : x # c /\ HoldsClaim(x)' => HoldsClaim(x) /\ HasResult(x)' = HasResult(x)
        BY <3>1, <2>6 DEF HoldsClaim, HasResult, Stores
      <4>2. HoldsClaim(c)' => HoldsClaim(c) /\ HasResult(c)' = HasResult(c)
        <5> SUFFICES ASSUME HoldsClaim(c)' PROVE HoldsClaim(c) /\ HasResult(c)' = HasResult(c)
          OBVIOUS
        <5>1. rsGot'[c] \in {"claimed", "completed"}
          BY <2>6 DEF HoldsClaim
        <5>2. CASE next.cmd # "over"
          <6>1. rsGot[c] = "claimed" /\ rsGot'[c] = "claimed" /\ rsCmd[c] \notin {"SET", "DEL"}
            BY <5>1, <5>2, <2>2, <2>5, <2>6
          <6> QED BY <6>1, <2>6 DEF HoldsClaim, HasResult
        <5>3. CASE next.cmd = "over" /\ rsGot'[c] = "claimed"
          <6>1. rsCmd[c] = "SETNX" /\ OnTheWay(c, s) /\ op.name = "claim"
            BY <5>3, <3>2, <2>2, <2>5, <2>6, Commands
          <6>2. s = "idem" /\ rsGot[c] = "nothing"
            BY <6>1, <2>2, OpNames
          <6> QED BY <5>3, <6>1, <6>2, <2>1, <2>6 DEF HoldsClaim, HasResult
        <5>4. CASE next.cmd = "over" /\ rsGot'[c] = "completed"
          <6>1. rsCmd[c] = "SET" /\ op.name = "complete"
            BY <5>4, <2>5, <2>6
          <6>2. rsGot[c] = "claimed"
            BY <6>1, <2>2
          <6> QED BY <5>4, <6>1, <6>2, <2>1 DEF HoldsClaim, HasResult
        <5> QED BY <5>1, <5>2, <5>3, <5>4
      <4> QED BY <4>1, <4>2, <3>0, <2>1, <1>c
    <3> QED BY <3>3, <3>4, <3>5
  <2> QED BY SMTT(60), <2>7, <2>8, <2>9 DEF RsInv
\* An operation that raises holds nothing; one that goes on without its script leaves its token to two readers.
<1>r. ASSUME NEW c \in RedisCalls, rsCmd[c] # "over", OpRaises(c), rsFaults' \in 0..MaxFaults,
             UNCHANGED <<rsOp, rsWhose, rsData, rsWire, rsClosed, rsInStep>>
      PROVE  RsInv'
  <2>1. /\ rsOp[c].name \in DOMAIN Ops /\ rsOp[c].store = Ops[rsOp[c].name]
        /\ rsCmd[c] \in CommandsOf[rsOp[c].name] /\ rsOp[c].name # "none"
        /\ rsCmd[c] = "EVAL" => rsOp[c].name = "redeem" /\ rsGot[c] = "nothing" /\ rsOp[c].store = "launch"
    BY <1>r, <1>n, OpNames, Commands
  <2>2. /\ rsCmd' = [rsCmd EXCEPT ![c] = IF rsCmd[c] = "EVAL" THEN "GET" ELSE "over"]
        /\ rsGot' = [rsGot EXCEPT ![c] = IF rsCmd[c] = "EVAL" THEN rsGot[c] ELSE "error"]
        /\ rsWaiting' = [rsWaiting EXCEPT ![c] = FALSE]
        /\ rsFellBack' = IF rsCmd[c] = "EVAL" THEN rsFellBack \cup {rsOp[c].key} ELSE rsFellBack
    BY <1>r DEF OpRaises, OpContinues, GoesOn, EndsAs
  <2>3. /\ rsCmd[c] = "EVAL" => rsCmd'[c] = "GET" /\ rsGot'[c] = "nothing" /\ rsOp[c].key \in rsFellBack'
        /\ rsCmd[c] # "EVAL" => rsCmd'[c] = "over" /\ rsGot'[c] = "error"
        /\ ~rsWaiting'[c] /\ rsFellBack \subseteq rsFellBack'
        /\ \A x \in RedisCalls : x # c => rsCmd'[x] = rsCmd[x] /\ rsGot'[x] = rsGot[x] /\ rsWaiting'[x] = rsWaiting[x]
    BY <2>1, <2>2, <1>t
  <2>4. RedisTypes'
    BY <2>2, <1>r, <1>t DEF RedisTypes, RsTypeOK, RedisVals
  <2>5. OpsSound'
    <3>1. "GET" \in CommandsOf["redeem"]
      BY DEF CommandsOf
    <3> QED BY <3>1, <2>1, <2>3, <1>r DEF RsInv, OpsSound
  <2>6. ASSUME rsInStep PROVE TokensGiven' /\ RepliesDue' /\ ClaimsHeldOnce'
    <3>0. OpsSound /\ TokensGiven /\ RepliesDue /\ ClaimsHeldOnce
      BY <2>6 DEF RsInv
    <3>1. \A x \in RedisCalls : GivenToken(x)' => GivenToken(x)
      BY <2>3, <1>r DEF GivenToken, OnTheWay
    <3>2. \A x \in RedisCalls : HoldsClaim(x)' => HoldsClaim(x) /\ HasResult(x)' = HasResult(x)
      BY <2>3, <1>r DEF HoldsClaim, HasResult, OnTheWay
    <3>3. RepliesDue'
      <4> SUFFICES ASSUME NEW z \in Stores, NEW i \in DOMAIN rsWire[z]
                   PROVE  LET x == rsWire[z][i].to IN
                          /\ rsOp[x].name # "none" /\ rsOp[x].store = z /\ (rsCmd'[x] = "EVAL" => rsWaiting'[x])
                          /\ z = "idem" /\ rsGot'[x] # "error" =>
                               rsWaiting'[x] /\ \A j \in DOMAIN rsWire[z] : rsWire[z][j].to = x => i = j
        BY <1>r DEF RepliesDue
      <4> DEFINE x == rsWire[z][i].to
      <4>1. /\ x \in RedisCalls /\ rsOp[x].name # "none" /\ rsOp[x].store = z /\ (rsCmd[x] = "EVAL" => rsWaiting[x])
            /\ z = "idem" /\ rsGot[x] # "error" => rsWaiting[x] /\ \A j \in DOMAIN rsWire[z] : rsWire[z][j].to = x => i = j
        BY <3>0, <1>w DEF RepliesDue
      <4> HIDE DEF x
      <4>2. CASE x = c
        BY <4>1, <4>2, <2>1, <2>3 DEF x
      <4>3. CASE x # c
        BY <4>1, <4>3, <2>3 DEF x
      <4> QED BY <4>2, <4>3
    <3> QED BY <3>1, <3>2, <3>3, <2>3, <2>6, <1>r, <1>k, <1>c
  <2> QED BY <2>4, <2>5, <2>6, <1>r DEF RsInv
<1>f. MaxFaults \in Nat /\ rsFaults \in 0..MaxFaults /\ (rsFaults < MaxFaults => rsFaults + 1 \in 0..MaxFaults)
  <2>1. rsFaults \in 0..MaxFaults
    BY <1>t
  <2> QED BY <2>1, StoresAssumption
<1>4. ASSUME NEW c \in RedisCalls, ReadTimesOut(c) PROVE RsInv'
  <2>1. rsCmd[c] # "over"
    BY <1>4 DEF ReadTimesOut, RsInv, OpsSound
  <2>2. rsFaults' \in 0..MaxFaults
    BY <1>4, <1>f DEF ReadTimesOut
  <2> QED BY <2>1, <2>2, <1>4, <1>r DEF ReadTimesOut
<1>5. ASSUME NEW c \in RedisCalls, RedisErrs(c) PROVE RsInv'
  <2>1. rsFaults' \in 0..MaxFaults
    BY <1>5, <1>f DEF RedisErrs
  <2> QED BY <2>1, <1>5, <1>r DEF RedisErrs
<1>6. ASSUME NEW c \in RedisCalls, OpBroken(c) PROVE RsInv'
  BY <1>6, <1>t, <1>r DEF OpBroken
\* Nothing that the promises are about changes.
<1>u. ASSUME UNCHANGED <<rsOp, rsCmd, rsWaiting, rsGot, rsWhose, rsData, rsWire, rsInStep, rsFellBack>>,
             rsClosed' \subseteq Stores, rsFaults' \in 0..MaxFaults
      PROVE  RsInv'
  <2>1. RedisTypes'
    BY <1>u, <1>t DEF RedisTypes, RsTypeOK, RedisVals
  <2>2. OpsSound'
    BY <1>u DEF RsInv, OpsSound
  <2>3. ASSUME rsInStep PROVE TokensGiven' /\ RepliesDue' /\ ClaimsHeldOnce'
    <3>1. \A x \in RedisCalls : GivenToken(x)' => GivenToken(x)
      BY <1>u DEF GivenToken, OnTheWay
    <3>2. \A x \in RedisCalls : HoldsClaim(x)' => HoldsClaim(x) /\ HasResult(x)' = HasResult(x)
      BY <1>u DEF HoldsClaim, HasResult, OnTheWay
    <3>3. RepliesDue'
      BY <1>u, <2>3 DEF RsInv, RepliesDue
    <3> QED BY <3>1, <3>2, <3>3, <2>3, <1>u, <1>k, <1>c
  <2> QED BY <2>1, <2>2, <2>3, <1>u DEF RsInv
<1>7. ASSUME NEW s \in Stores, SocketLost(s) PROVE RsInv'
  <2>1. rsFaults' \in 0..MaxFaults /\ rsClosed' \subseteq Stores
    BY <1>7, <1>f, <1>t DEF SocketLost
  <2> QED BY <2>1, <1>7, <1>u DEF SocketLost
<1>8. CASE UNCHANGED rsVars
  BY <1>8, <1>t, <1>u DEF rsVars
<1> QED BY <1>1, <1>2, <1>3, <1>4, <1>5, <1>6, <1>7, <1>8 DEF RsNext

-----------------------------------------------------------------------------
(* What the types of the services say beyond their invariants.             *)

\* The store's statements: a job is never past its last statement, and jobs keep to their bound.
ConfigCounts ==
  /\ csBroken \in BOOLEAN /\ csNext \in [Workers -> (0 - 1)..4] /\ csDue \in [Workers -> SUBSET Changes]
  /\ csJobs \in 0..MaxJobs /\ csRuns \in [Changes -> Nat]

LEMMA CountsBegin == CSInit => ConfigCounts
<1> SUFFICES ASSUME CSInit PROVE ConfigCounts
  OBVIOUS
<1>1. 0 \in (0 - 1)..4 /\ 0 \in 0..MaxJobs
  BY ConfigAssumption
<1>2. csNext = [w \in Workers |-> 0] /\ csDue = [w \in Workers |-> {}] /\ csJobs = 0 /\ csRuns = [c \in Changes |-> 0] /\ csBroken = FALSE
  BY DEF CSInit
<1> QED BY <1>1, <1>2 DEF ConfigCounts

LEMMA CountsStay ==
  ASSUME ConfigCounts, [CSNext]_csVars
  PROVE  ConfigCounts'
<1>t. /\ csBroken \in BOOLEAN /\ csNext \in [Workers -> (0 - 1)..4] /\ csDue \in [Workers -> SUBSET Changes]
      /\ csJobs \in Nat /\ csJobs <= MaxJobs /\ MaxJobs \in Nat /\ csRuns \in [Changes -> Nat]
  BY ConfigAssumption DEF ConfigCounts
<1>a. ASSUME NEW w, NEW n \in (0 - 1)..4, csNext' = [csNext EXCEPT ![w] = n] PROVE csNext' \in [Workers -> (0 - 1)..4]
  BY <1>a, <1>t
<1>b. ASSUME NEW w, NEW D \in SUBSET Changes, csDue' = [csDue EXCEPT ![w] = D] PROVE csDue' \in [Workers -> SUBSET Changes]
  BY <1>b, <1>t
<1>c. ASSUME csJobs < MaxJobs, csJobs' = csJobs + 1 PROVE csJobs' \in 0..MaxJobs
  BY <1>c, <1>t
<1>d. 0 \in (0 - 1)..4 /\ 1 \in (0 - 1)..4 /\ csJobs \in 0..MaxJobs
  BY <1>t
<1>1. ASSUME NEW w \in Workers, StatementRuns(w) PROVE ConfigCounts'
  <2>1. PICK n : n = Len(Statements(csJob[w].op))
    OBVIOUS
  <2>2. n \in 1..3
    BY <2>1 DEF Statements
  <2>3. /\ csNext[w] \in 1..n /\ csBroken' \in BOOLEAN /\ csDue' = csDue /\ csJobs' = csJobs /\ csRuns' = csRuns
        /\ \/ csNext' = [csNext EXCEPT ![w] = 0 - 1]
           \/ csNext' = [csNext EXCEPT ![w] = csNext[w] + 1]
    BY <1>1, <2>1, <1>t DEF StatementRuns
  <2>4. csNext[w] + 1 \in (0 - 1)..4 /\ 0 - 1 \in (0 - 1)..4
    BY <2>2, <2>3
  <2>5. csNext' \in [Workers -> (0 - 1)..4]
    BY <2>3, <2>4, <1>a
  <2> QED BY <2>3, <2>5, <1>t DEF ConfigCounts
<1>2. ASSUME NEW w, ConsoleCommits(w) \/ ConsoleRollsBack(w) \/ MarkEnds(w) PROVE ConfigCounts'
  <2>1. csBroken' = FALSE /\ csNext' = [csNext EXCEPT ![w] = 0] /\ csDue' = csDue /\ csJobs' = csJobs /\ csRuns' = csRuns
    BY <1>2 DEF ConsoleCommits, ConsoleRollsBack, MarkEnds, JobAnswered
  <2> QED BY <2>1, <1>a, <1>d, <1>t DEF ConfigCounts
<1>3. ASSUME NEW w, HandlerEnds(w) PROVE ConfigCounts'
  <2>1. csBroken' = FALSE /\ csNext' = [csNext EXCEPT ![w] = 1] /\ csDue' = csDue /\ csJobs' = csJobs
        /\ (csRuns' = csRuns \/ \E c : csRuns' = [csRuns EXCEPT ![c] = @ + 1])
    BY <1>3 DEF HandlerEnds
  <2>2. csRuns' \in [Changes -> Nat]
    BY <2>1, <1>t
  <2> QED BY <2>1, <2>2, <1>a, <1>d, <1>t DEF ConfigCounts
<1>4. ASSUME NEW w, SweepStarts(w) PROVE ConfigCounts'
  <2>1. /\ csBroken' = FALSE /\ csNext' = csNext /\ csRuns' = csRuns /\ csJobs < MaxJobs /\ csJobs' = csJobs + 1
        /\ \E D \in SUBSET Changes : csDue' = [csDue EXCEPT ![w] = D]
    BY <1>4 DEF SweepStarts
  <2> QED BY <2>1, <1>b, <1>c, <1>t DEF ConfigCounts
<1>5. ASSUME NEW w, NEW job, JobRequested(w, job) PROVE ConfigCounts'
  <2>1. /\ csBroken' = csBroken /\ csNext' = [csNext EXCEPT ![w] = 1] /\ csRuns' = csRuns /\ csJobs < MaxJobs
        /\ csJobs' = csJobs + 1 /\ csDue' = csDue
    BY <1>5 DEF JobRequested
  <2> QED BY <2>1, <1>a, <1>c, <1>d, <1>t DEF ConfigCounts
<1>6. ASSUME NEW w \in Sweepers, NEW c \in Changes, SweepTakes(w, c) PROVE ConfigCounts'
  <2>1. /\ csBroken' = csBroken /\ csNext' = [csNext EXCEPT ![w] = 1] /\ csRuns' = csRuns /\ csJobs' = csJobs
        /\ csDue' = [csDue EXCEPT ![w] = csDue[w] \ {c}]
    BY <1>6 DEF SweepTakes
  <2>2. csDue[w] \ {c} \in SUBSET Changes
    BY <1>t DEF Workers
  <2>3. csDue' \in [Workers -> SUBSET Changes]
    BY <2>1, <2>2, <1>b
  <2> QED BY <2>1, <2>3, <1>a, <1>d, <1>t DEF ConfigCounts
<1>7. ASSUME NEW w, SweepEnds(w) PROVE ConfigCounts'
  BY <1>7, <1>t DEF SweepEnds, ConfigCounts
<1>8. CASE UNCHANGED csVars
  BY <1>8 DEF csVars, ConfigCounts
<1> QED BY <1>1, <1>2, <1>3, <1>4, <1>5, <1>6, <1>7, <1>8 DEF CSNext

\* A hand is dealt and then decided; only a seat with a stake wins.
CardStages == crAt \in {"waiting", "dealt", "result"} /\ crStaked \subseteq SeatsDealt /\ crWinners \subseteq crStaked
              /\ (crAt # "result" => crWinners = {})
LEMMA CardsBegin == CrInit => CardStages
BY DEF CrInit, CardStages
LEMMA CardsStay == CardStages /\ [CrNext]_crVars => CardStages'
<1> SUFFICES ASSUME CardStages, [CrNext]_crVars PROVE CardStages'
  OBVIOUS
<1>1. ASSUME Deal PROVE CardStages'
  <2>1. crStaked' \in SUBSET SeatsDealt /\ crAt' = "dealt" /\ crWinners' = crWinners /\ crAt = "waiting"
    BY <1>1 DEF Deal
  <2> QED BY <2>1 DEF CardStages
<1>2. ASSUME CalculateResult PROVE CardStages'
  <2>1. crAt' = "result" /\ crStaked' = crStaked /\ \E hands : crWinners' = WinnersOf(hands)
    BY <1>2 DEF CalculateResult
  <2> QED BY <2>1 DEF CardStages, WinnersOf
<1>3. CASE UNCHANGED crVars
  BY <1>3 DEF crVars, CardStages
<1> QED BY <1>1, <1>2, <1>3 DEF CrNext

\* Chips come from the table's, and a bot is armed for a round that was dealt, and bets under the
\* key of the round there is or of one before it.
BetBounds ==
  /\ bbRound \in 1..LastDealt /\ bbDenoms \subseteq Chips
  /\ \A b \in TableBots : bbArmed[b] <= bbRound /\ bbDone[b] <= bbRound
  /\ \A bet \in bbBets : bet.chip \in Chips /\ bet.key <= bet.round

LEMMA BetBoundsBegin == BbInit => BetBounds
BY BotBetsAssumption DEF BbInit, BetBounds

LEMMA BetBoundsStay ==
  ASSUME BbInv, BetBounds, [BbNext]_bbVars
  PROVE  BetBounds'
<1>t. /\ bbRound \in Nat \ {0} /\ bbLeft \subseteq TableBots /\ bbDone \in [TableBots -> Nat] /\ bbArmed \in [TableBots -> Nat]
      /\ LastDealt \in Nat /\ bbRound <= LastDealt /\ bbDenoms \subseteq Chips
      /\ (\A b \in TableBots : bbArmed[b] <= bbRound /\ bbDone[b] <= bbRound)
      /\ \A bet \in bbBets : bet.chip \in Chips /\ bet.key <= bet.round
  BY BotBetsAssumption DEF BbInv, BotTypes, BetBounds
<1>a. ASSUME bbRound' = bbRound, bbDenoms' = bbDenoms, bbBets' = bbBets,
             \A b \in TableBots : bbArmed'[b] \in {bbArmed[b], 0, bbRound} /\ bbDone'[b] \in {bbDone[b], 0, bbRound}
      PROVE  BetBounds'
  BY <1>a, <1>t DEF BetBounds
<1>1. CASE WindowCloses \/ BotDisplaced \/ DelayOver \/ TickCopies \/ UNCHANGED bbVars
  BY <1>1, <1>a DEF WindowCloses, BotDisplaced, DelayOver, TickCopies, bbVars, RoomSame, BotsSame
<1>2. CASE NextDealt
  <2>1. bbRound' = bbRound + 1 /\ bbRound < LastDealt /\ bbDenoms' = bbDenoms /\ bbBets' = bbBets /\ bbArmed' = bbArmed /\ bbDone' = bbDone
    BY <1>2 DEF NextDealt, BotsSame
  <2>2. bbRound' \in 1..LastDealt /\ \A n \in Nat : n <= bbRound => n <= bbRound'
    BY <2>1, <1>t
  <2> QED BY <2>1, <2>2, <1>t DEF BetBounds
<1>3. CASE ChipsChange
  <2>1. bbRound' = bbRound /\ bbDenoms' \subseteq Chips /\ bbBets' = bbBets /\ bbArmed' = bbArmed /\ bbDone' = bbDone
    BY <1>3 DEF ChipsChange, BotsSame
  <2> QED BY <2>1 DEF BetBounds
<1>4. CASE PlacesBet
  <2>1. PICK call : call = bbCall
    OBVIOUS
  <2>2. call.bot \in TableBots /\ call.round \in Nat /\ call.round <= bbRound
    BY <1>4, <2>1, <1>t DEF PlacesBet, BbInv, BotTypes
  <2>3. bbRound' = bbRound /\ bbDenoms' = bbDenoms /\ bbArmed' = bbArmed /\ bbDone' = [bbDone EXCEPT ![call.bot] = call.round]
    BY <1>4, <2>1 DEF PlacesBet, RoomSame
  <2>4. \A b \in TableBots : bbDone'[b] <= bbRound
    BY <2>2, <2>3, <1>t
  <2>5. \A bet \in bbBets' : bet.chip \in Chips /\ bet.key <= bet.round
    <3>1. CASE bbBets' = bbBets
      BY <3>1, <1>t
    <3>2. CASE bbBets' # bbBets
      <4>1. PICK new : new = [bot |-> call.bot, round |-> bbRound, key |-> call.round, position |-> call.position, chip |-> call.chip]
        OBVIOUS
      <4>2. bbBets' = bbBets \cup {new} /\ call.chip \in bbDenoms
        BY <1>4, <2>1, <3>2, <4>1 DEF PlacesBet
      <4>3. new.chip \in Chips /\ new.key <= new.round
        BY <4>1, <4>2, <2>2, <1>t
      <4> QED BY <4>2, <4>3, <1>t
    <3> QED BY <3>1, <3>2
  <2> QED BY <2>3, <2>4, <2>5, <1>t DEF BetBounds
<1>5. ASSUME NEW b \in bbLeft, FindsClosed(b) \/ FindsPlayed(b) \/ NotDueYet(b) \/ Decides(b) PROVE BetBounds'
  <2>1. bbRound' = bbRound /\ bbDenoms' = bbDenoms /\ bbBets' = bbBets /\ bbDone' = bbDone
    BY <1>5 DEF FindsClosed, FindsPlayed, NotDueYet, Decides, Looked, RoomSame
  <2>2. bbArmed' = bbArmed \/ bbArmed' = [bbArmed EXCEPT ![b] = 0]
    BY <1>5 DEF FindsClosed, FindsPlayed, NotDueYet, Decides
  <2> QED BY <2>1, <2>2, <1>a, <1>t
<1>6. ASSUME NEW b \in bbLeft, ArmsBot(b) PROVE BetBounds'
  <2>1. /\ bbRound' = bbRound /\ bbDenoms' = bbDenoms /\ bbBets' = bbBets
        /\ bbArmed' = [bbArmed EXCEPT ![b] = bbRound] /\ bbDone' = [bbDone EXCEPT ![b] = 0]
    BY <1>6 DEF ArmsBot, RoomSame
  <2> QED BY <2>1, <1>a, <1>t
<1> QED BY <1>1, <1>2, <1>3, <1>4, <1>5, <1>6 DEF BbNext

\* The visits of a player who reconnects.
LEMMA VisitsCount == reVisits \in 0..LastVisit /\ [ReNext]_reVars => reVisits' \in 0..LastVisit
<1> SUFFICES ASSUME reVisits \in 0..LastVisit, [ReNext]_reVars PROVE reVisits' \in 0..LastVisit
  OBVIOUS
<1>1. CASE ReadsStatus
  <2>1. reVisits < LastVisit /\ reVisits' = reVisits + 1
    BY <1>1 DEF ReadsStatus
  <2> QED BY <2>1, EventsAssumption
<1>2. CASE reVisits' = reVisits
  BY <1>2
<1>3. CASE DealsRound \/ BetAccepted \/ ParkRefused \/ ResumesRound \/ ReadsVersion \/ ReadsEvents \/ UNCHANGED reVars
  BY <1>2, <1>3 DEF DealsRound, BetAccepted, ParkRefused, ResumesRound, ReadsVersion, ReadsEvents, reVars, ReaderSame
<1>4. CASE Advances \/ ParksRound \/ FailsRound \/ CancelsRound
  BY <1>2, <1>4 DEF Advances, ParksRound, FailsRound, CancelsRound, RoundMoves, ReaderSame
<1> QED BY <1>1, <1>3, <1>4 DEF ReNext

\* Lives begin while there are some left, and credits fail within their bound.
LifeBounds == rlLife \in 0..LastLife /\ rlListed \in BOOLEAN /\ rlLoss \in 0..MaxLoss
LEMMA LifeBoundsBegin == RlInit => LifeBounds
<1> SUFFICES ASSUME RlInit PROVE LifeBounds
  OBVIOUS
<1>1. 0 \in 0..LastLife /\ 0 \in 0..MaxLoss
  BY LivesAssumption
<1>2. rlLife = 0 /\ rlListed = FALSE /\ rlLoss = 0
  BY DEF RlInit
<1> QED BY <1>1, <1>2 DEF LifeBounds
LEMMA LifeBoundsStay == LifeBounds /\ [RlNext]_rlVars => LifeBounds'
<1> SUFFICES ASSUME LifeBounds, [RlNext]_rlVars PROVE LifeBounds'
  OBVIOUS
<1>a. rlLife < LastLife /\ rlLife' = rlLife + 1 => rlLife' \in 0..LastLife
  BY LivesAssumption DEF LifeBounds
<1>b. rlLoss < MaxLoss /\ rlLoss' = rlLoss + 1 => rlLoss' \in 0..MaxLoss
  BY LivesAssumption DEF LifeBounds
<1>1. CASE RoomCreated \/ RoomNamed
  <2>1. rlLoss' = rlLoss /\ (rlListed' = TRUE \/ rlListed' = rlListed) /\ (rlLife' = rlLife \/ (rlLife < LastLife /\ rlLife' = rlLife + 1))
    BY <1>1 DEF RoomCreated, RoomNamed, NewRoom, rlMoney
  <2> QED BY <2>1, <1>a DEF LifeBounds
<1>2. CASE RoomDeleted \/ ProcessRestarts
  <2>1. rlLoss' = rlLoss /\ rlListed' = FALSE /\ rlLife' = rlLife
    BY <1>2 DEF RoomDeleted, ProcessRestarts, rlMoney
  <2> QED BY <2>1 DEF LifeBounds
<1>3. CASE PayFails
  <2>1. rlLoss < MaxLoss /\ rlLoss' = rlLoss + 1 /\ rlListed' = rlListed /\ rlLife' = rlLife
    BY <1>3 DEF PayFails
  <2> QED BY <2>1, <1>b DEF LifeBounds
<1>4. CASE LifeDeals \/ TakesBet \/ WorksOutRows \/ RetriesRows \/ RecordsFirst \/ FindsRow \/ PaysRow \/ MarksRow \/ UNCHANGED rlVars
  <2>1. rlLoss' = rlLoss /\ rlListed' = rlListed /\ rlLife' = rlLife
    BY <1>4 DEF LifeDeals, TakesBet, WorksOutRows, RetriesRows, RecordsFirst, FindsRow, PaysRow, MarksRow, rlVars, rlMoney, rlTable
  <2> QED BY <2>1 DEF LifeBounds
<1> QED BY <1>1, <1>2, <1>3, <1>4 DEF RlNext

-----------------------------------------------------------------------------
(* Any of the services.                                                    *)

\* A step of one service is a step of it, and leaves every other as it is.
LEMMA OneServiceMoves ==
  ASSUME [SvNext]_svVars
  PROVE  /\ [PWNext]_pwVars /\ [PtNext]_ptVars /\ [CSNext]_csVars /\ [ReNext]_reVars /\ [BbNext]_bbVars
         /\ [PlNext]_plVars /\ [PrNext]_prVars /\ [RlNext]_rlVars /\ [RsNext]_rsVars /\ [CrNext]_crVars
BY DEF SvNext, Frozen, svVars

LEMMA EachBegins ==
  SvInit => PWInit /\ PtInit /\ CSInit /\ ReInit /\ BbInit /\ PlInit /\ PrInit /\ RlInit /\ RsInit /\ CrInit
BY DEF SvInit

\* "Idempotent by key" and one refund for a debit (provider/ledger.py): for any requests, keys and
\* references and any number of calls, a debit is rolled back once, and once a call has answered
\* under a key that was not forgotten, the row kept under the key is of the request it answered.
THEOREM ProviderWalletKept == SvSpec => []ProviderMoneySafe
<1>1. PWInv => ProviderMoneySafe
  BY WalletKeeps DEF ProviderMoneySafe
<1> QED BY <1>1, OneServiceMoves, EachBegins, WalletInit, WalletStep, PTL DEF SvSpec

\* A seat that is taken and answered for stays taken, and a table is overfull only where two joins
\* ran at once or a session was opened by hand (provider/sessions.py), for any number of tables,
\* players and requests.
THEOREM ProviderTablesKept == SvSpec => []TablesKeepSeats
BY OneServiceMoves, EachBegins, TablesInit, TablesStep, TablesKeep, PTL DEF SvSpec

\* A bot tries once in a round, and has at most one bet in it under the round's own key
\* (common/bot_manager.py), for any number of bots, chips and rounds.
THEOREM BotBetsKept == SvSpec => []BotBetsSafe
BY OneServiceMoves, EachBegins, BotsInit, BotsStep, BotsKeep, PTL DEF SvSpec

\* Missed-event replay and redaction (engine.py: snapshot, events_since): a player has every event
\* up to the last it was told of, but for visits that spanned two rounds or more events than the
\* cap, and is never shown the hands of a round whose result was not published.  For every cap,
\* any number of rounds and visits.
THEOREM ReconnectTells == SvSpec => []RoundEventsSafe
<1>1. ReInv => RoundEventsSafe
  BY DEF ReInv
<1> QED BY <1>1, OneServiceMoves, EachBegins, EventsInit, EventsStep, PTL DEF SvSpec

\* The wallets without an operator's (common/wallet.py, wallet_demo.py, dearlive_mock.py) and what
\* is paid with them: the balance is the seed, what was funded and the ledger unless two calls of a
\* wallet without a lock overlapped, the payout rows of a round are credited once and as recorded
\* (settlement_store.py), and a bet id is paid once over the lives of a room.  For any number of
\* calls, bets, workers and lives.
THEOREM WalletsKept == SvSpec => []WalletsSafe
<1>1. PlInv => PlayMoneySafe
  BY PlayKeeps
<1>2. PrInv => PayoutRowsSafe
  BY DEF PrInv
<1>3. LivesInv => RoomLivesSafe
  BY DEF LivesInv, RoomLivesSafe, KeysSound, PaidOncePerId
<1>4. PlInv /\ PrInv /\ LivesInv => WalletsSafe
  BY <1>1, <1>2, <1>3 DEF WalletsSafe
<1> QED BY <1>4, OneServiceMoves, EachBegins, PlayBegins, PlayStep, PayoutsBegin, PayoutsStep, InvStarts, InvStays, PTL DEF SvSpec

\* "Single-use: validate + consume" of a launch token (common/session.py) and "Never drops a
\* completed result" of the idempotency store, over Redis (integrations/redis_store.py): for any
\* calls, keys and faults, a token that nobody redeemed without the script is redeemed once, and a
\* key whose holder completed it keeps its result, as long as every reply reached its caller.
THEOREM StoresKept == SvSpec => []StoresKeepPromises
BY OneServiceMoves, EachBegins, StoresBegin, StoresStep, StoresKeep, PTL DEF SvSpec

\* What became of a scheduled change stays as it was saved: APPLIED, FAILED and CANCELLED are
\* final (common/config_scheduler.py), whatever edits, threads, sweepers and crashes there are.
THEOREM ConfigStatusKept == SvSpec => StatusFinal
<1>1. CsInv /\ [CSNext]_csVars => [\A c \in Changes :
       csSaved.status[c] \in {"APPLIED", "FAILED", "CANCELLED"} => csSaved'.status[c] = csSaved.status[c]]_csVars
  BY ConfigStep
<1> QED BY <1>1, OneServiceMoves, EachBegins, ConfigInit, ConfigStep, PTL DEF SvSpec, StatusFinal

\* Every variable of the services keeps its type: statements and rounds within their sequences, a
\* bot's chips within the table's, counters within their bounds; and what the cards' round decides
\* is a seat with a stake.
THEOREM ServiceTypes == SvSpec => []ServicesTypeOK
<1> DEFINE Inv == /\ PWInv /\ PtInv /\ RsInv /\ CsInv /\ ConfigCounts /\ PlInv /\ CardStages /\ PrInv /\ ReInv
                  /\ reVisits \in 0..LastVisit /\ BbInv /\ BetBounds /\ LivesInv /\ LifeBounds
<1>1. SvInit => Inv
  <2>1. ReInit => reVisits \in 0..LastVisit
    BY EventsAssumption DEF ReInit
  <2> QED BY <2>1, EachBegins, WalletInit, TablesInit, StoresBegin, ConfigInit, CountsBegin, PlayBegins, CardsBegin, PayoutsBegin,
             EventsInit, BotsInit, BetBoundsBegin, InvStarts, LifeBoundsBegin
<1>2. Inv /\ [SvNext]_svVars => Inv'
  BY OneServiceMoves, WalletStep, TablesStep, StoresStep, ConfigStep, CountsStay, PlayStep, CardsStay, PayoutsStep,
     EventsStep, VisitsCount, BotsStep, BetBoundsStay, InvStays, LifeBoundsStay
<1>3. Inv => ServicesTypeOK
  <2> SUFFICES ASSUME Inv PROVE ServicesTypeOK
    OBVIOUS
  <2>1. PWTypeOK /\ PtTypeOK /\ RsTypeOK
    <3>1. PWTypeOK
      BY DEF PWInv, Asked
    <3>2. PtTypeOK
      BY DEF PtInv
    <3>3. RsTypeOK
      BY DEF RsInv, RedisTypes
    <3> QED BY <3>1, <3>2, <3>3
  <2>2. CSTypeOK
    BY DEF CsInv, CsTypes, ConfigCounts, CSTypeOK
  <2>3. PlTypeOK
    BY DEF PlInv, PlayTypes, PlTypeOK
  <2>4. CrTypeOK
    BY DEF CardStages, CrTypeOK
  <2>5. PrTypeOK
    <3>1. ASSUME NEW b \in PrBets PROVE prRow[b].state \in {"none", "open", "unpaid", "credited"}
      BY DEF PrInv, PayoutTypes, RowRecord
    <3>2. ASSUME NEW w \in PayWorkers PROVE prWorker[w].place \in DOMAIN RoundBets
      BY DEF PrInv, PayoutTypes, PayWorker
    <3> QED BY <3>1, <3>2 DEF PrTypeOK
  <2>6. ReTypeOK
    <3>1. Now \in Nat /\ LastRound \in Nat
      BY EventsAssumption DEF ReInv, EventTypes, Now
    <3>2. Now \in 0..LastRound /\ reKept \in 0..LastRound
      BY <3>1 DEF ReInv, EventTypes
    <3> QED BY <3>2 DEF ReInv, EventTypes, ReTypeOK
  <2>7. BbTypeOK
    BY DEF BbInv, BotTypes, BetBounds, BbTypeOK
  <2>8. RlTypeOK
    BY DEF LivesInv, RowTypes, LifeBounds, RlTypeOK
  <2> QED BY <2>1, <2>2, <2>3, <2>4, <2>5, <2>6, <2>7, <2>8 DEF ServicesTypeOK
<1> QED
  BY <1>1, <1>2, <1>3, PTL DEF SvSpec

=============================================================================
