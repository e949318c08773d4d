---------------------------- MODULE StagingProofs ----------------------------
(***************************************************************************)
(* The staging deployment.  Its room (StagingRoom): for every number of     *)
(* instances, bets, lapses and stops, each life of a movement's marker is   *)
(* one movement, made, being made or left undone, no bet is held whose      *)
(* debit neither was, and the balance is never overdrawn.  Then what its    *)
(* requests share (StagingShared) and its lists (StagingEconomy), for every *)
(* number of requests.  The rest, who may do what, is in AccessProofs; the  *)
(* theorems of the whole deployment are at the end.  One invariant per      *)
(* part; the parts share no state.                                          *)
(***************************************************************************)
EXTENDS MCStaging, AccessProofs, FoldLemmas, SequenceTheorems

-----------------------------------------------------------------------------
(* Staging: the inductive invariant.                                       *)

Rooms == [bets : SUBSET BetKeys, settled : BOOLEAN]
Stations == {"load", "sweep", "sweeping", "crediting", "incr", "reload", "lock", "bet", "debit", "watch", "exec",
           "create", "leave", "save", "done", "stopped"}
Rowing == [due : SUBSET BetKeys, now : SUBSET BetKeys]

\* An instance at work has its request and a copy to work on.
CopiesHeld ==
  \A i \in Instances :
    /\ stAt[i] # "load" => stKind[i] \in {"get", "put"} \cup BetKeys
    /\ stAt[i] \in {"sweeping", "crediting", "incr"} => stCopy[i] \in Rooms
    /\ stAt[i] = "lock" => stKind[i] # "get" /\ (stKind[i] # "put" => stCopy[i] \in Rooms)
    /\ PlacingBet(i) \/ stAt[i] = "bet" => stKind[i] \in BetKeys /\ stCopy[i] \in Rooms

\* A win is credited between its marker and the next, and no other with it.
RowsHeld ==
  \A i \in Instances : (stRows[i].now # {} <=> stAt[i] = "incr") /\ \A k, l \in stRows[i].now : k = l

\* A bet is placed by the request that holds its claim.
ClaimsHeld ==
  /\ \A i \in Instances : PlacingBet(i) => stClaim[stKind[i]] = "claimed"
  /\ \A i, j \in Instances : PlacingBet(i) /\ PlacingBet(j) /\ stKind[i] = stKind[j] => i = j

\* Who is to make a movement has set its marker, alone.
MoversMarked ==
  /\ \A i \in Instances : Applying(i) \subseteq stMarks
  /\ \A i, j \in Instances : \A m \in Applying(i) : m \in Applying(j) => i = j

\* A debit about to be made was covered by the balance it read.
DebitsCovered == \A i \in Instances : stAt[i] = "exec" => StakeOf(stKind[i]) <= stRead[i]

\* So is a bet about to be made.
Staked(k) == stPaid[<<"debit", k>>] > 0 \/ stLeft[<<"debit", k>>] > 0
StakesTaken == BetsStaked /\ \A i \in Instances : stAt[i] = "create" => Staked(stKind[i])

StInv ==
  /\ StTypeOK /\ CopiesHeld /\ RowsHeld /\ ClaimsHeld /\ MoversMarked /\ DebitsCovered
  /\ AppliedByOneCaller /\ NeverOverdrawn /\ StakesTaken

Instance(i) ==
  \/ LoadAll(i) \/ SweepBegins(i) \/ SweepSkipped(i) \/ SweepSettles(i) \/ CreditMarks(i) \/ CreditIncrs(i)
  \/ SweepSaves(i) \/ Reloads(i) \/ HandlerEnters(i) \/ RoomBusy(i) \/ BetRefused(i) \/ BetClaims(i)
  \/ DebitMarks(i) \/ DebitReads(i) \/ DebitExecs(i) \/ DebitRetries(i) \/ BetCreated(i)
  \/ HandlerLeaves(i) \/ SaveAll(i) \/ InstanceStops(i)
Lapse == (\E l \in Locks : LockLapses(l)) \/ (\E m \in WalletMoves : MarkLapses(m)) \/ \E k \in BetKeys : ClaimLapses(k)

\* A step is one instance's, or a lock, a marker or a claim lapses.
LEMMA StSteps ==
  ASSUME [StNext]_stVars
  PROVE  UNCHANGED stVars \/ (\E i \in Instances : Instance(i)) \/ Lapse
  BY DEF StNext, Instance, Lapse

\* An instance moves alone.
LEMMA InstanceAlone ==
  ASSUME StTypeOK, NEW i \in Instances, Instance(i)
  PROVE  /\ \A j \in Instances \ {i} : /\ stAt'[j] = stAt[j] /\ stKind'[j] = stKind[j] /\ stRows'[j] = stRows[j]
                                       /\ stCopy'[j] = stCopy[j] /\ stRead'[j] = stRead[j]
         /\ LoadAll(i) \/ stKind' = stKind
<1>1. WalletSame => UNCHANGED <<stRead, stRows>>
  BY DEF WalletSame
<1>2. Forgets(i) => \A j \in Instances \ {i} : stCopy'[j] = stCopy[j] /\ stRead'[j] = stRead[j] /\ stRows'[j] = stRows[j]
  BY DEF Forgets, StTypeOK
<1>3. \A j \in Instances \ {i} : stAt'[j] = stAt[j]
  BY ZenonT(60) DEF Instance, StTypeOK, LoadAll, SweepBegins, SweepSkipped, SweepSettles, CreditMarks, CreditIncrs, SweepSaves,
     Reloads, HandlerEnters, RoomBusy, BetRefused, BetClaims, DebitMarks, DebitReads, DebitExecs,
     DebitRetries, BetCreated, HandlerLeaves, SaveAll, InstanceStops, InstanceMoves
<1>4. /\ \A j \in Instances \ {i} : stKind'[j] = stKind[j]
      /\ LoadAll(i) \/ stKind' = stKind
  BY DEF Instance, StTypeOK, LoadAll, SweepBegins, SweepSkipped, SweepSettles, CreditMarks, CreditIncrs, SweepSaves,
     Reloads, HandlerEnters, RoomBusy, BetRefused, BetClaims, DebitMarks, DebitReads, DebitExecs,
     DebitRetries, BetCreated, HandlerLeaves, SaveAll, InstanceStops
<1>5. \A j \in Instances \ {i} : stCopy'[j] = stCopy[j]
  BY <1>2 DEF Instance, StTypeOK, LoadAll, SweepBegins, SweepSkipped, SweepSettles, CreditMarks, CreditIncrs,
     SweepSaves, Reloads, HandlerEnters, RoomBusy, BetRefused, BetClaims, DebitMarks, DebitReads, DebitExecs,
     DebitRetries, BetCreated, HandlerLeaves, SaveAll, InstanceStops
<1>6. \A j \in Instances \ {i} : stRead'[j] = stRead[j] /\ stRows'[j] = stRows[j]
  BY <1>1, <1>2 DEF Instance, StTypeOK, LoadAll, SweepBegins, SweepSkipped, SweepSettles, CreditMarks, CreditIncrs,
     SweepSaves, Reloads, HandlerEnters, RoomBusy, BetRefused, BetClaims, DebitMarks, DebitReads, DebitExecs,
     DebitRetries, BetCreated, HandlerLeaves, SaveAll, InstanceStops
<1> QED
  BY <1>3, <1>4, <1>5, <1>6

\* What lapses leaves the instances where they are.
LEMMA LapseAlone ==
  ASSUME Lapse
  PROVE  UNCHANGED <<stRoom, stKind, stAt, stCopy, stRead, stRows, stBalance, stPaid, stLeft>>
  BY DEF Lapse, LockLapses, MarkLapses, ClaimLapses, WalletSame, MoneySame

-----------------------------------------------------------------------------
(* Staging: types, copies and claims.                                      *)

LEMMA RoomTypeStep ==
  ASSUME StTypeOK, CopiesHeld, NEW i \in Instances, Instance(i)
  PROVE  /\ stRoom' \in Rooms /\ stCopy' \in [Instances -> Rooms \cup {NoRoom}]
         /\ stKind' \in [Instances -> {"new", "get", "put"} \cup BetKeys]
<1>t. /\ stRoom \in Rooms /\ stCopy \in [Instances -> Rooms \cup {NoRoom}]
      /\ stKind \in [Instances -> {"new", "get", "put"} \cup BetKeys]
  BY DEF StTypeOK, Rooms
<1>1. CASE LoadAll(i) \/ Reloads(i)
  BY <1>t, <1>1 DEF LoadAll, Reloads, Loaded
<1>2. CASE SweepBegins(i) \/ SweepSkipped(i) \/ CreditMarks(i) \/ CreditIncrs(i) \/ HandlerEnters(i) \/ HandlerLeaves(i)
  BY <1>t, <1>2 DEF SweepBegins, SweepSkipped, CreditMarks, CreditIncrs, HandlerEnters, HandlerLeaves
<1>3. CASE SweepSettles(i)
  <2>1. stCopy[i] \in Rooms
    BY <1>3 DEF SweepSettles, InstanceMoves, CopiesHeld
  <2> QED
    BY <1>t, <1>3, <2>1 DEF SweepSettles, Rooms
<1>4. CASE SweepSaves(i)
  BY <1>t, <1>4 DEF SweepSaves, CopiesHeld
<1>5. CASE RoomBusy(i) \/ InstanceStops(i)
  BY <1>t, <1>5 DEF RoomBusy, InstanceStops, Forgets
<1>6. CASE SaveAll(i)
  BY <1>t, <1>6 DEF SaveAll, Forgets
<1>7. CASE BetRefused(i) \/ BetClaims(i) \/ DebitMarks(i) \/ DebitReads(i) \/ DebitExecs(i) \/ DebitRetries(i)
  BY <1>t, <1>7 DEF BetRefused, BetClaims, DebitMarks, DebitReads, DebitExecs, DebitRetries
<1>8. CASE BetCreated(i)
  <2>1. stCopy[i] \in Rooms /\ stKind[i] \in BetKeys
    BY <1>8 DEF BetCreated, InstanceMoves, CopiesHeld, PlacingBet
  <2> QED
    BY <1>t, <1>8, <2>1 DEF BetCreated, Rooms
<1> QED
  BY <1>1, <1>2, <1>3, <1>4, <1>5, <1>6, <1>7, <1>8 DEF Instance

LEMMA WalletTypeStep ==
  ASSUME StTypeOK, CopiesHeld, stBalance \in Nat, NEW i \in Instances, Instance(i)
  PROVE  /\ stRead' \in [Instances -> Nat] /\ stMarks' \subseteq WalletMoves
         /\ stRows' \in [Instances -> Rowing]
         /\ stClaim' \in [BetKeys -> {"free", "claimed", "done"}]
         /\ stBalance' \in Int /\ stPaid' \in [WalletMoves -> Nat] /\ stLeft' \in [WalletMoves -> Nat]
         /\ UNCHANGED stForgot
<1>t. /\ stRead \in [Instances -> Nat] /\ stMarks \subseteq WalletMoves /\ stRows \in [Instances -> Rowing]
      /\ stClaim \in [BetKeys -> {"free", "claimed", "done"}] /\ stBalance \in Int
      /\ stPaid \in [WalletMoves -> Nat] /\ stLeft \in [WalletMoves -> Nat]
  BY DEF StTypeOK, Rowing
<1>l. Leaves(i) => stLeft' \in [WalletMoves -> Nat]
  BY <1>t DEF Leaves
<1>r. NoneDue \in Rowing
  BY DEF NoneDue, Rowing
<1>1. CASE WalletSame
  BY <1>t, <1>1 DEF WalletSame, MoneySame
<1>2. CASE Forgets(i)
  BY <1>t, <1>l, <1>r, <1>2 DEF Forgets
<1>3. CASE SweepSettles(i)
  <2>1. stCopy[i] \in Rooms
    BY <1>3 DEF SweepSettles, InstanceMoves, CopiesHeld
  <2>2. Won(i) \subseteq BetKeys
    BY <2>1 DEF Won, Rooms
  <2>3. stRows' \in [Instances -> Rowing]
    BY <1>t, <1>3, <2>2 DEF SweepSettles, Rowing
  <2> QED
    BY <1>t, <1>3, <2>3 DEF SweepSettles, MoneySame
<1>4. CASE CreditMarks(i)
  <2>1. PICK k \in stRows[i].due :
          /\ stRows' = [stRows EXCEPT ![i] = [due |-> @.due \ {k}, now |-> IF Claimed(<<"credit", k>>) THEN {k} ELSE {}]]
          /\ stMarks' = stMarks \cup {<<"credit", k>>}
          /\ UNCHANGED <<stRead, stClaim>> /\ MoneySame
    BY <1>4 DEF CreditMarks
  <2>2. k \in BetKeys /\ stRows[i] \in Rowing
    BY <1>t DEF Rowing
  <2>3. stRows' \in [Instances -> Rowing]
    <3> DEFINE new == [due |-> stRows[i].due \ {k}, now |-> IF Claimed(<<"credit", k>>) THEN {k} ELSE {}]
    <3>1. new \in Rowing
      BY <2>2 DEF Rowing
    <3>2. stRows' = [stRows EXCEPT ![i] = new]
      BY <2>1
    <3> HIDE DEF new
    <3> QED
      BY <1>t, <3>1, <3>2
  <2> QED
    BY <1>t, <2>1, <2>2, <2>3 DEF MoneySame, WalletMoves
<1>5. CASE CreditIncrs(i)
  <2>1. PICK k \in stRows[i].now : stBalance' = stBalance + WinOf(k) /\ stPaid' = [stPaid EXCEPT ![<<"credit", k>>] = @ + 1]
    BY <1>5 DEF CreditIncrs
  <2>2. k \in BetKeys /\ WinOf(k) \in Nat /\ stRows[i] \in Rowing
    BY <1>t, StagingAssumption DEF Rowing
  <2>3. stRows' \in [Instances -> Rowing]
    BY <1>t, <1>5 DEF CreditIncrs, Rowing
  <2>4. stPaid' \in [WalletMoves -> Nat] /\ stBalance' \in Int
    BY <1>t, <2>1, <2>2 DEF WalletMoves
  <2> QED
    BY <1>t, <1>5, <2>3, <2>4 DEF CreditIncrs
<1>6. CASE BetClaims(i) \/ DebitMarks(i) \/ DebitReads(i) \/ DebitExecs(i) \/ BetCreated(i)
  <2>1. stKind[i] \in BetKeys
    BY <1>6 DEF BetClaims, DebitMarks, DebitReads, DebitExecs, BetCreated, InstanceMoves, CopiesHeld, PlacingBet
  <2>2. <<"debit", stKind[i]>> \in WalletMoves /\ StakeOf(stKind[i]) \in Nat
    BY <2>1, StagingAssumption DEF WalletMoves
  <2>3. CASE BetClaims(i) \/ BetCreated(i)
    BY <1>t, <2>1, <2>3 DEF BetClaims, BetCreated, MoneySame
  <2>4. CASE DebitMarks(i)
    BY <1>t, <2>2, <2>4 DEF DebitMarks, MoneySame
  <2>5. CASE DebitReads(i)
    BY <1>t, <1>l, <2>1, <2>5 DEF DebitReads
  <2>6. CASE DebitExecs(i)
    BY <1>t, <2>2, <2>6 DEF DebitExecs
  <2> QED
    BY <1>6, <2>3, <2>4, <2>5, <2>6
<1> QED
  BY <1>1, <1>2, <1>3, <1>4, <1>5, <1>6
  DEF Instance, LoadAll, SweepBegins, SweepSkipped, SweepSaves, Reloads, HandlerEnters, RoomBusy,
      BetRefused, DebitRetries, HandlerLeaves, SaveAll, InstanceStops

LEMMA LockTypeStep ==
  ASSUME StTypeOK, NEW i \in Instances, Instance(i)
  PROVE  /\ stLock' \in [Locks -> Instances \cup {NoInstance}]
         /\ UNCHANGED stLapses
<1>1. \A l \in Locks : (Takes(i, l) \/ Releases(i, l)) => stLock' \in [Locks -> Instances \cup {NoInstance}]
  BY DEF Takes, Releases, StTypeOK
<1>2. "room" \in Locks /\ LockOf(stKind[i]) \in Locks
  BY DEF Locks, LockOf
<1>3. UNCHANGED stLock => stLock' \in [Locks -> Instances \cup {NoInstance}]
  BY DEF StTypeOK
<1> QED
  BY <1>1, <1>2, <1>3
  DEF Instance, LoadAll, SweepBegins, SweepSkipped, SweepSettles, CreditMarks, CreditIncrs, SweepSaves, Reloads,
      HandlerEnters, RoomBusy, BetRefused, BetClaims, DebitMarks, DebitReads, DebitExecs, DebitRetries, BetCreated,
      HandlerLeaves, SaveAll, InstanceStops

LEMMA PlaceTypeStep ==
  ASSUME StTypeOK, NEW i \in Instances, Instance(i)
  PROVE  stAt' \in [Instances -> Stations]
<1> DEFINE To(to) == stAt' = [stAt EXCEPT ![i] = to]
<1>1. stAt \in [Instances -> Stations]
  BY DEF StTypeOK, Stations
<1>2. CASE LoadAll(i) \/ SweepBegins(i) \/ SweepSkipped(i) \/ SweepSettles(i) \/ CreditMarks(i) \/ CreditIncrs(i)
             \/ SweepSaves(i)
  <2>1. To("sweep") \/ To("sweeping") \/ To("crediting") \/ To("incr") \/ To("reload")
    BY <1>2 DEF LoadAll, SweepBegins, SweepSkipped, SweepSettles, CreditMarks, CreditIncrs, SweepSaves, InstanceMoves
  <2> QED
    BY <1>1, <2>1 DEF Stations
<1>3. CASE Reloads(i) \/ HandlerEnters(i) \/ RoomBusy(i) \/ BetRefused(i) \/ HandlerLeaves(i) \/ SaveAll(i)
             \/ InstanceStops(i)
  <2>1. To("save") \/ To("lock") \/ To("leave") \/ To("bet") \/ To("done") \/ To("stopped")
    BY <1>3 DEF Reloads, HandlerEnters, RoomBusy, BetRefused, HandlerLeaves, SaveAll, InstanceStops, InstanceMoves
  <2> QED
    BY <1>1, <2>1 DEF Stations
<1>4. CASE BetClaims(i) \/ DebitMarks(i) \/ DebitReads(i) \/ DebitExecs(i) \/ DebitRetries(i) \/ BetCreated(i)
  <2>1. To("debit") \/ To("watch") \/ To("create") \/ To("leave") \/ To("exec")
    BY <1>4 DEF BetClaims, DebitMarks, DebitReads, DebitExecs, DebitRetries, BetCreated, InstanceMoves
  <2> QED
    BY <1>1, <2>1 DEF Stations
<1> QED
  BY <1>2, <1>3, <1>4 DEF Instance

LEMMA StTypeStep ==
  ASSUME StTypeOK, CopiesHeld, stBalance \in Nat, [StNext]_stVars
  PROVE  StTypeOK'
<1>1. CASE UNCHANGED stVars
  BY <1>1 DEF stVars, StTypeOK
<1>2. ASSUME NEW i \in Instances, Instance(i)
      PROVE  StTypeOK'
  <2>1. stLapses' \in 0..MaxLapses /\ stForgot' \in [WalletMoves -> Nat]
    BY <1>2, LockTypeStep, WalletTypeStep DEF StTypeOK
  <2> QED
    BY <1>2, <2>1, RoomTypeStep, WalletTypeStep, LockTypeStep, PlaceTypeStep DEF StTypeOK, Rooms, Stations, Rowing
<1>3. CASE Lapse
  <2>1. stLapses' \in 0..MaxLapses
    <3>1. stLapses \in 0..MaxLapses /\ MaxLapses \in Nat
      BY StagingAssumption DEF StTypeOK
    <3> QED
      BY <1>3, <3>1 DEF Lapse, LockLapses, MarkLapses, ClaimLapses
  <2>2. stLock' \in [Locks -> Instances \cup {NoInstance}]
    BY <1>3 DEF Lapse, LockLapses, MarkLapses, ClaimLapses, StTypeOK
  <2>3. stMarks' \subseteq WalletMoves /\ stForgot' \in [WalletMoves -> Nat]
    BY <1>3 DEF Lapse, LockLapses, MarkLapses, ClaimLapses, WalletSame, MoneySame, StTypeOK
  <2>4. stClaim' \in [BetKeys -> {"free", "claimed", "done"}]
    BY <1>3 DEF Lapse, LockLapses, MarkLapses, ClaimLapses, WalletSame, StTypeOK
  <2> QED
    BY <1>3, <2>1, <2>2, <2>3, <2>4, LapseAlone DEF StTypeOK
<1> QED
  BY <1>1, <1>2, <1>3, StSteps

LEMMA CopiesStep ==
  ASSUME StTypeOK, CopiesHeld, [StNext]_stVars
  PROVE  CopiesHeld'
<1>1. CASE UNCHANGED stVars \/ Lapse
  <2>1. UNCHANGED <<stKind, stAt, stCopy>>
    BY <1>1, LapseAlone DEF stVars
  <2> QED
    BY <2>1 DEF CopiesHeld, PlacingBet
<1>2. ASSUME NEW i \in Instances, Instance(i)
      PROVE  CopiesHeld'
  <2>t. /\ stAt \in [Instances -> Stations]
        /\ stKind \in [Instances -> {"new", "get", "put"} \cup BetKeys]
        /\ stCopy \in [Instances -> Rooms \cup {NoRoom}] /\ stRoom \in Rooms
    BY DEF StTypeOK, Rooms, Stations
  <2>1. ASSUME NEW j \in Instances, j # i
        PROVE  stAt'[j] = stAt[j] /\ stKind'[j] = stKind[j] /\ stCopy'[j] = stCopy[j]
    BY <1>2, <2>1, InstanceAlone
  <2> DEFINE Held(j) == /\ stAt[j] # "load" => stKind[j] \in {"get", "put"} \cup BetKeys
                        /\ stAt[j] \in {"sweeping", "crediting", "incr"} => stCopy[j] \in Rooms
                        /\ stAt[j] = "lock" => stKind[j] # "get" /\ (stKind[j] # "put" => stCopy[j] \in Rooms)
                        /\ stAt[j] \in {"bet", "debit", "watch", "exec", "create"}
                             => stKind[j] \in BetKeys /\ stCopy[j] \in Rooms
  <2>h. Held(i)
    BY DEF CopiesHeld, PlacingBet
  <2>s. SUFFICES Held(i)'
    BY <2>1 DEF CopiesHeld, PlacingBet
  <2>2. CASE LoadAll(i)
    BY <2>t, <2>2 DEF LoadAll, InstanceMoves
  <2>3. CASE stAt'[i] \in {"sweep", "reload", "leave", "save", "done", "stopped"} /\ stKind' = stKind /\ stAt[i] # "load"
    BY <2>h, <2>3
  <2>4. CASE SweepBegins(i)
    BY <2>t, <2>h, <2>4 DEF SweepBegins, InstanceMoves
  <2>5. CASE SweepSettles(i) \/ CreditMarks(i) \/ CreditIncrs(i)
    <3>1. stCopy[i] \in Rooms /\ stAt'[i] \in {"crediting", "incr"} /\ stKind' = stKind /\ stAt[i] # "load"
      BY <2>t, <2>h, <2>5 DEF SweepSettles, CreditMarks, CreditIncrs, InstanceMoves
    <3>2. stCopy'[i] = stCopy[i] \/ stCopy'[i] = [stCopy[i] EXCEPT !.settled = TRUE]
      BY <2>t, <2>5 DEF SweepSettles, CreditMarks, CreditIncrs
    <3>3. stCopy'[i] \in Rooms
      BY <3>1, <3>2 DEF Rooms
    <3> QED
      BY <2>h, <3>1, <3>3
  <2>6. CASE Reloads(i)
    BY <2>t, <2>h, <2>6 DEF Reloads, InstanceMoves, Loaded
  <2>7. CASE HandlerEnters(i)
    BY <2>t, <2>h, <2>7 DEF HandlerEnters, InstanceMoves
  <2>8. CASE BetClaims(i) \/ DebitMarks(i) \/ DebitReads(i) \/ DebitExecs(i) \/ DebitRetries(i)
    BY <2>t, <2>h, <2>8 DEF BetClaims, DebitMarks, DebitReads, DebitExecs, DebitRetries, InstanceMoves
  <2>9. SweepSkipped(i) \/ SweepSaves(i) \/ RoomBusy(i) \/ BetRefused(i) \/ BetCreated(i) \/ HandlerLeaves(i)
          \/ SaveAll(i) \/ InstanceStops(i)
        => stAt'[i] \in {"sweep", "reload", "leave", "save", "done", "stopped"} /\ stKind' = stKind /\ stAt[i] # "load"
    BY <2>t DEF SweepSkipped, SweepSaves, RoomBusy, BetRefused, BetCreated, HandlerLeaves, SaveAll,
       InstanceStops, InstanceMoves
  <2> HIDE DEF Held
  <2> QED
    BY <1>2, <2>2, <2>3, <2>4, <2>5, <2>6, <2>7, <2>8, <2>9 DEF Instance
<1> QED
  BY <1>1, <1>2, StSteps

LEMMA RowsStep ==
  ASSUME StTypeOK, RowsHeld, [StNext]_stVars
  PROVE  RowsHeld'
<1>1. CASE UNCHANGED stVars \/ Lapse
  <2>1. UNCHANGED <<stAt, stRows>>
    BY <1>1, LapseAlone DEF stVars
  <2> QED
    BY <2>1 DEF RowsHeld
<1>2. ASSUME NEW i \in Instances, Instance(i)
      PROVE  RowsHeld'
  <2>t. stAt \in [Instances -> Stations] /\ stRows \in [Instances -> Rowing]
    BY DEF StTypeOK, Stations, Rowing
  <2>1. \A j \in Instances \ {i} : stAt'[j] = stAt[j] /\ stRows'[j] = stRows[j]
    BY <1>2, InstanceAlone
  <2> SUFFICES (stRows'[i].now # {} <=> stAt'[i] = "incr") /\ \A k, l \in stRows'[i].now : k = l
    BY <2>1 DEF RowsHeld
  <2>2. CASE CreditMarks(i)
    <3>1. PICK k \in stRows[i].due :
            /\ stRows' = [stRows EXCEPT ![i] = [due |-> @.due \ {k}, now |-> IF Claimed(<<"credit", k>>) THEN {k} ELSE {}]]
            /\ stAt' = [stAt EXCEPT ![i] = IF Claimed(<<"credit", k>>) THEN "incr" ELSE "crediting"]
      BY <2>2 DEF CreditMarks, InstanceMoves
    <3>2. stRows'[i].now = IF Claimed(<<"credit", k>>) THEN {k} ELSE {}
      BY <2>t, <3>1
    <3>3. stAt'[i] = IF Claimed(<<"credit", k>>) THEN "incr" ELSE "crediting"
      BY <2>t, <3>1
    <3> QED
      BY <3>2, <3>3
  <2>3. CASE CreditIncrs(i)
    <3>1. stRows'[i].now = {} /\ stAt'[i] = "crediting"
      BY <2>t, <2>3 DEF CreditIncrs, InstanceMoves, Rowing
    <3> QED
      BY <3>1
  <2>4. CASE Forgets(i) /\ stAt'[i] \in {"done", "stopped"}
    <3>1. stRows'[i].now = {}
      BY <2>t, <2>4 DEF Forgets, NoneDue
    <3> QED
      BY <2>4, <3>1
  <2>5. CASE stRows'[i].now = stRows[i].now /\ stAt[i] # "incr" /\ stAt'[i] # "incr"
    BY <2>5 DEF RowsHeld
  <2>6. Instance(i) /\ ~CreditMarks(i) /\ ~CreditIncrs(i)
          => \/ Forgets(i) /\ stAt'[i] \in {"done", "stopped"}
             \/ stRows'[i].now = stRows[i].now /\ stAt[i] # "incr" /\ stAt'[i] # "incr"
    BY <2>t DEF Instance, LoadAll, SweepBegins, SweepSkipped, SweepSettles, SweepSaves, Reloads, HandlerEnters,
       RoomBusy, BetRefused, BetClaims, DebitMarks, DebitReads, DebitExecs, DebitRetries, BetCreated, HandlerLeaves,
       SaveAll, InstanceStops, InstanceMoves, WalletSame, Rowing
  <2> QED
    BY <1>2, <2>2, <2>3, <2>4, <2>5, <2>6
<1> QED
  BY <1>1, <1>2, StSteps

LEMMA ClaimsStep ==
  ASSUME StTypeOK, CopiesHeld, ClaimsHeld, [StNext]_stVars
  PROVE  ClaimsHeld'
<1>1. CASE UNCHANGED stVars
  BY <1>1 DEF stVars, ClaimsHeld, PlacingBet
<1>2. CASE Lapse
  <2>1. UNCHANGED <<stKind, stAt>>
    BY <1>2, LapseAlone
  <2>2. ASSUME NEW i \in Instances, PlacingBet(i) PROVE stClaim'[stKind[i]] = stClaim[stKind[i]]
    <3>1. CASE \E k \in BetKeys : ClaimLapses(k)
      <4>1. stKind[i] \in BetKeys
        BY <2>2 DEF CopiesHeld
      <4> QED
        BY <2>2, <3>1, <4>1 DEF ClaimLapses, StTypeOK
    <3> QED
      BY <1>2, <3>1 DEF Lapse, LockLapses, MarkLapses, WalletSame
  <2> QED
    BY <2>1, <2>2 DEF ClaimsHeld, PlacingBet
<1>3. ASSUME NEW i \in Instances, Instance(i)
      PROVE  ClaimsHeld'
  <2>t. /\ stAt \in [Instances -> Stations] /\ stClaim \in [BetKeys -> {"free", "claimed", "done"}]
        /\ \A j \in Instances : PlacingBet(j) => stKind[j] \in BetKeys
    BY DEF StTypeOK, Stations, CopiesHeld
  <2>1. \A j \in Instances \ {i} : (PlacingBet(j)' <=> PlacingBet(j)) /\ stKind'[j] = stKind[j]
    BY <1>3, InstanceAlone DEF PlacingBet
  <2>2. CASE BetClaims(i)
    <3>1. stKind[i] \in BetKeys /\ stKind' = stKind /\ stClaim[stKind[i]] = "free"
      BY <2>2 DEF BetClaims, InstanceMoves, CopiesHeld
    <3>2. stClaim' = [stClaim EXCEPT ![stKind[i]] = "claimed"]
      BY <2>2 DEF BetClaims
    <3>3. \A j \in Instances \ {i} : PlacingBet(j) => stKind[j] # stKind[i]
      BY <3>1 DEF ClaimsHeld
    <3> QED
      BY <2>t, <2>1, <3>1, <3>2, <3>3 DEF ClaimsHeld
  <2>3. CASE ~PlacingBet(i)' /\ \A j \in Instances \ {i} : PlacingBet(j) => stClaim'[stKind[j]] = stClaim[stKind[j]]
    BY <2>1, <2>3 DEF ClaimsHeld
  <2>4. CASE stClaim' = stClaim /\ stKind' = stKind /\ (PlacingBet(i)' => PlacingBet(i))
    BY <2>1, <2>4 DEF ClaimsHeld
  <2>5. CASE BetCreated(i) \/ DebitReads(i)
    <3>1. PlacingBet(i) /\ stKind[i] \in BetKeys /\ stKind' = stKind
      BY <2>t, <2>5 DEF BetCreated, DebitReads, InstanceMoves, PlacingBet
    <3>2. \A k \in BetKeys : k # stKind[i] => stClaim'[k] = stClaim[k]
      BY <2>t, <2>5 DEF BetCreated, DebitReads
    <3>3. \A j \in Instances \ {i} : PlacingBet(j) => stClaim'[stKind[j]] = stClaim[stKind[j]]
      BY <2>t, <3>1, <3>2 DEF ClaimsHeld
    <3>4. ~PlacingBet(i)' \/ stClaim' = stClaim
      BY <2>t, <2>5 DEF BetCreated, DebitReads, InstanceMoves, PlacingBet
    <3> QED
      BY <2>3, <2>4, <3>1, <3>3, <3>4
  <2>6. Instance(i) /\ ~BetClaims(i) /\ ~BetCreated(i) /\ ~DebitReads(i)
          => stClaim' = stClaim /\ (~PlacingBet(i)' \/ (stKind' = stKind /\ (PlacingBet(i)' => PlacingBet(i))))
    BY <2>t DEF Instance, LoadAll, SweepBegins, SweepSkipped, SweepSettles, CreditMarks, CreditIncrs, SweepSaves,
       Reloads, HandlerEnters, RoomBusy, BetRefused, DebitMarks, DebitExecs, DebitRetries, HandlerLeaves, SaveAll,
       InstanceStops, InstanceMoves, WalletSame, Forgets, PlacingBet
  <2> QED
    BY <1>3, <2>2, <2>3, <2>4, <2>5, <2>6
<1> QED
  BY <1>1, <1>2, <1>3, StSteps

-----------------------------------------------------------------------------
(* Staging: the movements.                                                 *)

\* What an instance's step is to the movements: a marker is set, its movement made or dropped, or
\* neither.
SetsMark(i, m) ==
  /\ m \in WalletMoves /\ m \notin stMarks /\ stMarks' = stMarks \cup {m}
  /\ Applying(i) = {} /\ Applying(i)' = {m} /\ UNCHANGED <<stPaid, stLeft>>
MakesMove(i, m) ==
  /\ m \in WalletMoves /\ stPaid' = [stPaid EXCEPT ![m] = @ + 1]
  /\ Applying(i) = {m} /\ Applying(i)' = {} /\ UNCHANGED <<stMarks, stLeft>>
DropsMove(i) == Leaves(i) /\ Applying(i)' = {} /\ UNCHANGED <<stMarks, stPaid>>
MoveStays(i) == Applying(i)' = Applying(i) /\ UNCHANGED <<stMarks, stPaid, stLeft>>

LEMMA Movements ==
  ASSUME StTypeOK, CopiesHeld, RowsHeld, NEW i \in Instances, Instance(i)
  PROVE  (\E m : SetsMark(i, m)) \/ (\E m : MakesMove(i, m)) \/ DropsMove(i) \/ MoveStays(i)
<1>t. /\ stAt \in [Instances -> Stations] /\ stRows \in [Instances -> Rowing] /\ stMarks \subseteq WalletMoves
      /\ stKind \in [Instances -> {"new", "get", "put"} \cup BetKeys]
  BY DEF StTypeOK, Stations, Rowing
<1>n. /\ stAt[i] # "incr" => stRows[i].now = {}
      /\ stAt[i] \notin {"watch", "exec", "incr"} => Applying(i) = {}
      /\ stAt[i] \in {"watch", "exec"} => Applying(i) = {<<"debit", stKind[i]>>}
  BY DEF RowsHeld, Applying
\* A step between two places where nothing is to be moved.
<1>s. ASSUME stAt[i] \notin {"watch", "exec", "incr"}, stAt'[i] \notin {"watch", "exec"}, stRows'[i].now = stRows[i].now,
             UNCHANGED <<stMarks, stPaid, stLeft>>
      PROVE  MoveStays(i)
  BY <1>s DEF MoveStays, Applying
<1>f. ASSUME Forgets(i), stAt'[i] \in {"done", "stopped"} PROVE DropsMove(i)
  <2>1. stRows'[i].now = {}
    BY <1>t, <1>f DEF Forgets, NoneDue
  <2> QED
    BY <1>f, <2>1 DEF DropsMove, Forgets, Applying
<1>1. CASE CreditMarks(i)
  <2>1. PICK k \in stRows[i].due :
          /\ stAt[i] = "crediting" /\ stAt' = [stAt EXCEPT ![i] = IF Claimed(<<"credit", k>>) THEN "incr" ELSE "crediting"]
          /\ stRows' = [stRows EXCEPT ![i] = [due |-> @.due \ {k}, now |-> IF Claimed(<<"credit", k>>) THEN {k} ELSE {}]]
          /\ stMarks' = stMarks \cup {<<"credit", k>>} /\ UNCHANGED <<stPaid, stLeft>>
    BY <1>1 DEF CreditMarks, InstanceMoves, MoneySame
  <2>2. k \in BetKeys /\ <<"credit", k>> \in WalletMoves
    BY <1>t DEF Rowing, WalletMoves
  <2>3. stRows'[i].now = IF Claimed(<<"credit", k>>) THEN {k} ELSE {}
    BY <1>t, <2>1
  <2>4. stAt'[i] \notin {"watch", "exec"}
    BY <1>t, <2>1
  <2>5. CASE <<"credit", k>> \in stMarks
    <3>1. stRows'[i].now = {} /\ stMarks' = stMarks
      BY <2>1, <2>3, <2>5 DEF Claimed
    <3> QED
      BY <2>1, <2>4, <3>1, <1>n, <1>s
  <2>6. CASE <<"credit", k>> \notin stMarks
    <3>1. stRows'[i].now = {k}
      BY <2>3, <2>6 DEF Claimed
    <3>2. Applying(i)' = {<<"credit", k>>}
      BY <2>4, <3>1 DEF Applying
    <3> QED
      BY <2>1, <2>2, <2>6, <3>2, <1>n DEF SetsMark
  <2> QED
    BY <2>5, <2>6
<1>2. CASE CreditIncrs(i)
  <2>1. PICK k \in stRows[i].now : stPaid' = [stPaid EXCEPT ![<<"credit", k>>] = @ + 1]
    BY <1>2 DEF CreditIncrs
  <2>2. /\ stAt[i] = "incr" /\ stAt'[i] = "crediting" /\ stRows'[i].now = {} /\ stRows[i].now = {k} /\ k \in BetKeys
        /\ UNCHANGED <<stMarks, stLeft>>
    BY <1>t, <1>2 DEF CreditIncrs, InstanceMoves, RowsHeld, Rowing
  <2>3. Applying(i) = {<<"credit", k>>} /\ Applying(i)' = {}
    BY <2>2 DEF Applying
  <2>4. <<"credit", k>> \in WalletMoves
    BY <2>2 DEF WalletMoves
  <2> QED
    BY <2>1, <2>2, <2>3, <2>4 DEF MakesMove
<1>3. CASE DebitMarks(i)
  <2>1. /\ stAt[i] = "debit" /\ stAt'[i] = IF Claimed(<<"debit", stKind[i]>>) THEN "watch" ELSE "create"
        /\ stMarks' = stMarks \cup {<<"debit", stKind[i]>>} /\ UNCHANGED <<stPaid, stLeft, stRows, stKind>>
    BY <1>t, <1>3 DEF DebitMarks, InstanceMoves, MoneySame
  <2>2. <<"debit", stKind[i]>> \in WalletMoves
    BY <2>1 DEF CopiesHeld, PlacingBet, WalletMoves
  <2>3. CASE <<"debit", stKind[i]>> \in stMarks
    <3>1. stAt'[i] = "create" /\ stMarks' = stMarks
      BY <2>1, <2>3 DEF Claimed
    <3> QED
      BY <2>1, <3>1, <1>s
  <2>4. CASE <<"debit", stKind[i]>> \notin stMarks
    <3>1. stAt'[i] = "watch" /\ stRows'[i].now = {}
      BY <2>1, <2>4, <1>n DEF Claimed
    <3>2. Applying(i)' = {<<"debit", stKind[i]>>}
      BY <2>1, <3>1 DEF Applying
    <3> QED
      BY <2>1, <2>2, <2>4, <3>2, <1>n DEF SetsMark
  <2> QED
    BY <2>3, <2>4
<1>4. CASE DebitExecs(i)
  <2>1. /\ stAt[i] = "exec" /\ stAt'[i] = "create" /\ stPaid' = [stPaid EXCEPT ![<<"debit", stKind[i]>>] = @ + 1]
        /\ UNCHANGED <<stMarks, stLeft, stRows>>
    BY <1>t, <1>4 DEF DebitExecs, InstanceMoves
  <2>2. <<"debit", stKind[i]>> \in WalletMoves
    BY <2>1 DEF CopiesHeld, PlacingBet, WalletMoves
  <2>3. Applying(i)' = {}
    BY <2>1, <1>n DEF Applying
  <2> QED
    BY <2>1, <2>2, <2>3, <1>n DEF MakesMove
<1>5. CASE DebitReads(i)
  <2>1. /\ stAt[i] = "watch" /\ stAt'[i] = IF stBalance < StakeOf(stKind[i]) THEN "leave" ELSE "exec"
        /\ IF stBalance < StakeOf(stKind[i]) THEN Leaves(i) ELSE UNCHANGED stLeft
        /\ UNCHANGED <<stMarks, stPaid, stRows, stKind>>
    BY <1>t, <1>5 DEF DebitReads, InstanceMoves
  <2>2. CASE stBalance < StakeOf(stKind[i])
    <3>1. stAt'[i] = "leave" /\ Leaves(i)
      BY <2>1, <2>2
    <3>2. Applying(i)' = {}
      BY <2>1, <3>1, <1>n DEF Applying
    <3> QED
      BY <2>1, <3>1, <3>2 DEF DropsMove
  <2>3. CASE ~(stBalance < StakeOf(stKind[i]))
    <3>1. stAt'[i] = "exec" /\ UNCHANGED stLeft
      BY <2>1, <2>3
    <3>2. Applying(i)' = Applying(i)
      BY <2>1, <3>1, <1>n DEF Applying
    <3> QED
      BY <2>1, <3>1, <3>2 DEF MoveStays
  <2> QED
    BY <2>2, <2>3
<1>6. CASE DebitRetries(i)
  <2>1. stAt[i] = "exec" /\ stAt'[i] = "watch" /\ UNCHANGED <<stMarks, stPaid, stLeft, stRows, stKind>>
    BY <1>t, <1>6 DEF DebitRetries, InstanceMoves, WalletSame, MoneySame
  <2>2. Applying(i)' = Applying(i)
    BY <2>1, <1>n DEF Applying
  <2> QED
    BY <2>1, <2>2 DEF MoveStays
<1>7. CASE RoomBusy(i) \/ SaveAll(i) \/ InstanceStops(i)
  BY <1>t, <1>7, <1>f DEF RoomBusy, SaveAll, InstanceStops, InstanceMoves
<1>8. CASE SweepSettles(i) \/ SweepSaves(i)
  <2>1. stRows'[i].now = stRows[i].now
    BY <1>t, <1>8 DEF SweepSettles, SweepSaves, WalletSame, Rowing
  <2>2. UNCHANGED <<stMarks, stPaid, stLeft>>
    BY <1>8 DEF SweepSettles, SweepSaves, WalletSame, MoneySame
  <2>3. stAt[i] \notin {"watch", "exec", "incr"} /\ stAt'[i] \notin {"watch", "exec"}
    BY <1>t, <1>8 DEF SweepSettles, SweepSaves, InstanceMoves
  <2> QED
    BY <2>1, <2>2, <2>3, <1>s
<1>9. CASE LoadAll(i) \/ SweepBegins(i) \/ SweepSkipped(i) \/ Reloads(i) \/ HandlerEnters(i) \/ BetRefused(i)
             \/ BetClaims(i) \/ BetCreated(i) \/ HandlerLeaves(i)
  <2>1. UNCHANGED <<stMarks, stPaid, stLeft, stRows>>
    BY <1>9 DEF LoadAll, SweepBegins, SweepSkipped, Reloads, HandlerEnters, BetRefused, BetClaims, BetCreated,
       HandlerLeaves, WalletSame, MoneySame
  <2>2. stAt[i] \notin {"watch", "exec", "incr"} /\ stAt'[i] \notin {"watch", "exec"}
    BY <1>t, <1>9 DEF LoadAll, SweepBegins, SweepSkipped, Reloads, HandlerEnters, BetRefused, BetClaims, BetCreated,
       HandlerLeaves, InstanceMoves
  <2> QED
    BY <2>1, <2>2, <1>s
<1> QED
  BY <1>1, <1>2, <1>3, <1>4, <1>5, <1>6, <1>7, <1>8, <1>9 DEF Instance

\* A movement that nobody takes up or puts down is under way as it was.
LEMMA UnderwaySame ==
  ASSUME NEW m, \A j \in Instances : m \in Applying(j)' <=> m \in Applying(j)
  PROVE  Underway(m)' = Underway(m)
BY DEF Underway

LEMMA MoversStep ==
  ASSUME StTypeOK, CopiesHeld, RowsHeld, MoversMarked, AppliedByOneCaller, NEW i \in Instances, Instance(i)
  PROVE  MoversMarked' /\ AppliedByOneCaller'
<1>t. /\ stMarks \subseteq WalletMoves /\ stPaid \in [WalletMoves -> Nat] /\ stLeft \in [WalletMoves -> Nat]
      /\ stForgot \in [WalletMoves -> Nat]
  BY DEF StTypeOK
<1>a. \A j \in Instances \ {i} : Applying(j)' = Applying(j)
  BY InstanceAlone DEF Applying
<1>g. stForgot' = stForgot
  <2>1. WalletSame \/ Forgets(i) => stForgot' = stForgot
    BY DEF WalletSame, MoneySame, Forgets
  <2> QED
    BY <2>1 DEF Instance, LoadAll, SweepBegins, SweepSkipped, SweepSettles, CreditMarks, CreditIncrs, SweepSaves,
       Reloads, HandlerEnters, RoomBusy, BetRefused, BetClaims, DebitMarks, DebitReads, DebitExecs, DebitRetries,
       BetCreated, HandlerLeaves, SaveAll, InstanceStops, MoneySame
<1>u. \A m : Underway(m) \in {0, 1} /\ Standing(m) \in {0, 1}
  BY DEF Underway, Standing
<1>1. ASSUME NEW m, SetsMark(i, m) PROVE MoversMarked' /\ AppliedByOneCaller'
  <2>1. \A j \in Instances : m \notin Applying(j)
    BY <1>1 DEF SetsMark, MoversMarked
  <2>2. MoversMarked'
    BY <1>1, <1>a, <2>1 DEF SetsMark, MoversMarked
  <2>3. ASSUME NEW n \in WalletMoves
        PROVE  (stPaid[n] + stLeft[n] + Underway(n) = stForgot[n] + Standing(n))'
    <3>1. stPaid[n] + stLeft[n] + Underway(n) = stForgot[n] + Standing(n)
      BY DEF AppliedByOneCaller
    <3>2. stPaid'[n] = stPaid[n] /\ stLeft'[n] = stLeft[n]
      BY <1>1 DEF SetsMark
    <3>3. CASE n = m
      <4>1. Underway(n) = 0 /\ Underway(n)' = 1
        BY <1>1, <2>1, <3>3 DEF SetsMark, Underway
      <4>2. Standing(n) = 0 /\ Standing(n)' = 1
        BY <1>1, <3>3 DEF SetsMark, Standing
      <4> QED
        BY <1>t, <1>g, <3>1, <3>2, <4>1, <4>2
    <3>4. CASE n # m
      <4>1. Underway(n)' = Underway(n)
        <5>1. \A j \in Instances : n \in Applying(j)' <=> n \in Applying(j)
          BY <1>1, <1>a, <3>4 DEF SetsMark
        <5> QED
          BY <5>1, UnderwaySame
      <4>2. Standing(n)' = Standing(n)
        BY <1>1, <3>4 DEF SetsMark, Standing
      <4> QED
        BY <1>g, <3>1, <3>2, <4>1, <4>2
    <3> QED
      BY <3>3, <3>4
  <2> QED
    BY <2>2, <2>3 DEF AppliedByOneCaller
<1>2. ASSUME NEW m, MakesMove(i, m) PROVE MoversMarked' /\ AppliedByOneCaller'
  <2>1. \A j \in Instances : Applying(j)' \subseteq Applying(j)
    BY <1>2, <1>a DEF MakesMove
  <2>2. MoversMarked'
    BY <1>2, <2>1 DEF MakesMove, MoversMarked
  <2>3. ASSUME NEW n \in WalletMoves
        PROVE  (stPaid[n] + stLeft[n] + Underway(n) = stForgot[n] + Standing(n))'
    <3>1. stPaid[n] + stLeft[n] + Underway(n) = stForgot[n] + Standing(n)
      BY DEF AppliedByOneCaller
    <3>2. stLeft'[n] = stLeft[n] /\ Standing(n)' = Standing(n)
      BY <1>2 DEF MakesMove, Standing
    <3>3. CASE n = m
      <4>1. \A j \in Instances : m \notin Applying(j)'
        BY <1>2, <1>a DEF MakesMove, MoversMarked
      <4>2. Underway(n) = 1 /\ Underway(n)' = 0
        BY <1>2, <3>3, <4>1 DEF MakesMove, Underway
      <4>3. stPaid'[n] = stPaid[n] + 1
        BY <1>t, <1>2, <3>3 DEF MakesMove
      <4> QED
        BY <1>t, <1>g, <1>u, <3>1, <3>2, <4>2, <4>3
    <3>4. CASE n # m
      <4>1. Underway(n)' = Underway(n)
        <5>1. \A j \in Instances : n \in Applying(j)' <=> n \in Applying(j)
          BY <1>2, <1>a, <3>4 DEF MakesMove
        <5> QED
          BY <5>1, UnderwaySame
      <4>2. stPaid'[n] = stPaid[n]
        BY <1>t, <1>2, <3>4 DEF MakesMove
      <4> QED
        BY <1>g, <3>1, <3>2, <4>1, <4>2
    <3> QED
      BY <3>3, <3>4
  <2> QED
    BY <2>2, <2>3 DEF AppliedByOneCaller
<1>3. CASE DropsMove(i)
  <2>1. \A j \in Instances : Applying(j)' \subseteq Applying(j)
    BY <1>3, <1>a DEF DropsMove
  <2>2. MoversMarked'
    BY <1>3, <2>1 DEF DropsMove, MoversMarked
  <2>3. ASSUME NEW n \in WalletMoves
        PROVE  (stPaid[n] + stLeft[n] + Underway(n) = stForgot[n] + Standing(n))'
    <3>1. stPaid[n] + stLeft[n] + Underway(n) = stForgot[n] + Standing(n)
      BY DEF AppliedByOneCaller
    <3>2. stPaid'[n] = stPaid[n] /\ Standing(n)' = Standing(n)
      BY <1>3 DEF DropsMove, Standing
    <3>3. CASE n \in Applying(i)
      <4>1. \A j \in Instances : n \notin Applying(j)'
        BY <1>3, <1>a, <3>3 DEF DropsMove, MoversMarked
      <4>2. Underway(n) = 1 /\ Underway(n)' = 0
        BY <3>3, <4>1 DEF Underway
      <4>3. stLeft'[n] = stLeft[n] + 1
        BY <1>3, <3>3 DEF DropsMove, Leaves
      <4> QED
        BY <1>t, <1>g, <1>u, <3>1, <3>2, <4>2, <4>3
    <3>4. CASE n \notin Applying(i)
      <4>1. Underway(n)' = Underway(n)
        <5>1. \A j \in Instances : n \in Applying(j)' <=> n \in Applying(j)
          BY <1>3, <1>a, <3>4 DEF DropsMove
        <5> QED
          BY <5>1, UnderwaySame
      <4>2. stLeft'[n] = stLeft[n]
        BY <1>3, <3>4 DEF DropsMove, Leaves
      <4> QED
        BY <1>g, <3>1, <3>2, <4>1, <4>2
    <3> QED
      BY <3>3, <3>4
  <2> QED
    BY <2>2, <2>3 DEF AppliedByOneCaller
<1>4. CASE MoveStays(i)
  <2>1. \A j \in Instances : Applying(j)' = Applying(j)
    BY <1>4, <1>a DEF MoveStays
  <2>2. MoversMarked'
    BY <1>4, <2>1 DEF MoveStays, MoversMarked
  <2>3. ASSUME NEW n \in WalletMoves
        PROVE  (stPaid[n] + stLeft[n] + Underway(n) = stForgot[n] + Standing(n))'
    <3>1. Underway(n)' = Underway(n)
      BY <2>1, UnderwaySame
    <3>2. stPaid'[n] = stPaid[n] /\ stLeft'[n] = stLeft[n] /\ Standing(n)' = Standing(n)
      BY <1>4 DEF MoveStays, Standing
    <3> QED
      BY <1>g, <3>1, <3>2 DEF AppliedByOneCaller
  <2> QED
    BY <2>2, <2>3 DEF AppliedByOneCaller
<1> QED
  BY <1>1, <1>2, <1>3, <1>4, Movements

\* What lapses is under way no more.
LEMMA MarkersLapse ==
  ASSUME StTypeOK, MoversMarked, AppliedByOneCaller, Lapse
  PROVE  MoversMarked' /\ AppliedByOneCaller'
<1>1. /\ UNCHANGED <<stPaid, stLeft>> /\ \A j \in Instances : Applying(j)' = Applying(j)
      /\ \A n : Underway(n)' = Underway(n)
  BY LapseAlone DEF Applying, Underway
<1>2. CASE UNCHANGED <<stMarks, stForgot>>
  BY <1>1, <1>2 DEF MoversMarked, AppliedByOneCaller, Standing
<1>3. ASSUME NEW m \in WalletMoves, MarkLapses(m) PROVE MoversMarked' /\ AppliedByOneCaller'
  <2>1. /\ m \in stMarks /\ stMarks' = stMarks \ {m} /\ stForgot' = [stForgot EXCEPT ![m] = @ + 1]
        /\ \A j \in Instances : m \notin Applying(j)
    BY <1>3 DEF MarkLapses
  <2>2. MoversMarked'
    BY <1>1, <2>1 DEF MoversMarked
  <2>3. ASSUME NEW n \in WalletMoves
        PROVE  (stPaid[n] + stLeft[n] + Underway(n) = stForgot[n] + Standing(n))'
    <3>1. stPaid[n] + stLeft[n] + Underway(n) = stForgot[n] + Standing(n) /\ stForgot \in [WalletMoves -> Nat]
      BY DEF AppliedByOneCaller, StTypeOK
    <3>2. CASE n = m
      <4>1. Standing(n) = 1 /\ Standing(n)' = 0 /\ stForgot'[n] = stForgot[n] + 1
        BY <2>1, <3>1, <3>2 DEF Standing
      <4> QED
        BY <1>1, <3>1, <4>1
    <3>3. CASE n # m
      <4>1. Standing(n)' = Standing(n) /\ stForgot'[n] = stForgot[n]
        BY <2>1, <3>1, <3>3 DEF Standing
      <4> QED
        BY <1>1, <3>1, <4>1
    <3> QED
      BY <3>2, <3>3
  <2> QED
    BY <2>2, <2>3 DEF AppliedByOneCaller
<1> QED
  BY <1>2, <1>3 DEF Lapse, LockLapses, ClaimLapses, WalletSame, MoneySame

\* A debit is covered when it is made, and a win is no debit.
LEMMA BalanceStep ==
  ASSUME StTypeOK, CopiesHeld, NeverOverdrawn, DebitsCovered, [StNext]_stVars
  PROVE  NeverOverdrawn' /\ DebitsCovered'
<1>1. CASE UNCHANGED stVars \/ Lapse
  <2>1. UNCHANGED <<stAt, stKind, stRead, stBalance>>
    BY <1>1, LapseAlone DEF stVars
  <2> QED
    BY <2>1 DEF NeverOverdrawn, DebitsCovered
<1>2. ASSUME NEW i \in Instances, Instance(i)
      PROVE  NeverOverdrawn' /\ DebitsCovered'
  <2>t. /\ stAt \in [Instances -> Stations] /\ stBalance \in Int /\ stRead \in [Instances -> Nat]
        /\ stRows \in [Instances -> Rowing]
    BY DEF StTypeOK, Stations, Rowing
  <2>1. ASSUME NEW j \in Instances, j # i
        PROVE  stAt'[j] = stAt[j] /\ stKind'[j] = stKind[j] /\ stRead'[j] = stRead[j]
    BY <1>2, <2>1, InstanceAlone
  <2>2. DebitsCovered'
    <3>1. CASE DebitReads(i)
      <4>1. StakeOf(stKind[i]) \in Nat /\ stRead'[i] = stBalance /\ stKind'[i] = stKind[i]
        BY <2>t, <3>1, StagingAssumption DEF DebitReads, InstanceMoves, CopiesHeld, PlacingBet
      <4>2. stAt'[i] = "exec" => StakeOf(stKind'[i]) <= stRead'[i]
        BY <2>t, <3>1, <4>1 DEF DebitReads, InstanceMoves
      <4> QED
        BY <2>1, <4>2 DEF DebitsCovered
    <3>2. Instance(i) /\ ~DebitReads(i) => stAt'[i] # "exec"
      BY <2>t DEF Instance, LoadAll, SweepBegins, SweepSkipped, SweepSettles, CreditMarks, CreditIncrs, SweepSaves,
         Reloads, HandlerEnters, RoomBusy, BetRefused, BetClaims, DebitMarks, DebitExecs, DebitRetries, BetCreated,
         HandlerLeaves, SaveAll, InstanceStops, InstanceMoves
    <3> QED
      BY <1>2, <2>1, <3>1, <3>2 DEF DebitsCovered
  <2>3. NeverOverdrawn'
    <3>1. CASE DebitExecs(i)
      <4>1. stKind[i] \in BetKeys /\ stAt[i] = "exec" /\ stBalance = stRead[i]
        BY <3>1 DEF DebitExecs, InstanceMoves, CopiesHeld, PlacingBet, ExecRuns
      <4>2. StakeOf(stKind[i]) \in Nat /\ StakeOf(stKind[i]) <= stBalance
        BY <4>1, StagingAssumption DEF DebitsCovered
      <4> QED
        BY <2>t, <3>1, <4>2 DEF DebitExecs, NeverOverdrawn
    <3>2. CASE CreditIncrs(i)
      <4>1. PICK k \in stRows[i].now : stBalance' = stBalance + WinOf(k)
        BY <3>2 DEF CreditIncrs
      <4>2. WinOf(k) \in Nat
        BY <2>t, StagingAssumption DEF Rowing
      <4> QED
        BY <2>t, <4>1, <4>2 DEF NeverOverdrawn
    <3>3. Instance(i) /\ ~CreditIncrs(i) /\ ~DebitExecs(i) => stBalance' = stBalance
      BY DEF Instance, LoadAll, SweepBegins, SweepSkipped, SweepSettles, CreditMarks, SweepSaves, Reloads,
         HandlerEnters, RoomBusy, BetRefused, BetClaims, DebitMarks, DebitReads, DebitRetries, BetCreated,
         HandlerLeaves, SaveAll, InstanceStops, WalletSame, MoneySame, Forgets
    <3> QED
      BY <1>2, <3>1, <3>2, <3>3 DEF NeverOverdrawn
  <2> QED
    BY <2>2, <2>3
<1> QED
  BY <1>1, <1>2, StSteps

\* The bets of the rooms are those there were, and the one that is made.
LEMMA BetsMove ==
  ASSUME StTypeOK, CopiesHeld, NEW i \in Instances, Instance(i), NEW k \in BetsHeld'
  PROVE  k \in BetsHeld \/ (BetCreated(i) /\ k = stKind[i])
<1>t. /\ stRoom \in Rooms /\ stCopy \in [Instances -> Rooms \cup {NoRoom}] /\ stAt \in [Instances -> Stations]
  BY DEF StTypeOK, Rooms, Stations
<1>n. NoRoom \notin Rooms
  BY StagingAssumption DEF Rooms
<1>1. \A j \in Instances \ {i} : stCopy'[j] = stCopy[j]
  BY InstanceAlone
<1>2. \A j \in Instances : stCopy[j] # NoRoom => stCopy[j].bets \subseteq BetsHeld
  BY DEF BetsHeld
<1>3. stRoom.bets \subseteq BetsHeld
  BY DEF BetsHeld
<1>4. k \in stRoom'.bets \/ \E j \in Instances : stCopy'[j] # NoRoom /\ k \in stCopy'[j].bets
  BY DEF BetsHeld
<1>5. stRoom' = stRoom \/ (stCopy[i] # NoRoom /\ stRoom' = stCopy[i])
  <2>1. SweepSaves(i) => stRoom' = stCopy[i] /\ stCopy[i] # NoRoom
    BY <1>n DEF SweepSaves, CopiesHeld
  <2> QED
    BY <2>1 DEF Instance, LoadAll, SweepBegins, SweepSkipped, SweepSettles, CreditMarks, CreditIncrs, Reloads,
       HandlerEnters, RoomBusy, BetRefused, BetClaims, DebitMarks, DebitReads, DebitExecs, DebitRetries, BetCreated,
       HandlerLeaves, SaveAll, InstanceStops
<1>6. CASE k \in stRoom'.bets
  BY <1>2, <1>3, <1>5, <1>6
<1>7. ASSUME NEW j \in Instances, stCopy'[j] # NoRoom, k \in stCopy'[j].bets
      PROVE  k \in BetsHeld \/ (BetCreated(i) /\ k = stKind[i])
  <2>1. CASE j # i
    BY <1>1, <1>2, <1>7, <2>1
  <2>2. CASE j = i /\ SweepSettles(i)
    <3>1. stCopy[i] \in Rooms /\ stCopy'[i] = [stCopy[i] EXCEPT !.settled = TRUE]
      BY <1>t, <2>2 DEF SweepSettles, InstanceMoves, CopiesHeld
    <3>2. stCopy'[i].bets = stCopy[i].bets
      BY <3>1 DEF Rooms
    <3> QED
      BY <1>2, <1>7, <1>n, <2>2, <3>1, <3>2
  <2>3. CASE j = i /\ BetCreated(i)
    <3>1. stCopy[i] \in Rooms /\ stCopy'[i] = [stCopy[i] EXCEPT !.bets = @ \cup {stKind[i]}]
      BY <1>t, <2>3 DEF BetCreated, InstanceMoves, CopiesHeld, PlacingBet
    <3>2. stCopy'[i].bets = stCopy[i].bets \cup {stKind[i]}
      BY <3>1 DEF Rooms
    <3> QED
      BY <1>2, <1>7, <1>n, <2>3, <3>1, <3>2
  <2>4. CASE j = i /\ ~SweepSettles(i) /\ ~BetCreated(i)
    <3>1. stCopy'[i] \in {NoRoom, stCopy[i], stRoom}
      BY <1>t, <2>4 DEF Instance, LoadAll, SweepBegins, SweepSkipped, CreditMarks, CreditIncrs, SweepSaves, Reloads,
         HandlerEnters, RoomBusy, BetRefused, BetClaims, DebitMarks, DebitReads, DebitExecs, DebitRetries,
         HandlerLeaves, SaveAll, InstanceStops, Forgets, Loaded
    <3> QED
      BY <1>2, <1>3, <1>7, <2>4, <3>1
  <2> QED
    BY <2>1, <2>2, <2>3, <2>4
<1> QED
  BY <1>4, <1>6, <1>7

\* Movements and what was left undone are not taken back.
LEMMA StakedStays ==
  ASSUME StTypeOK, CopiesHeld, RowsHeld, NEW i \in Instances, Instance(i), NEW k \in BetKeys, Staked(k)
  PROVE  Staked(k)'
<1> DEFINE m == <<"debit", k>>
<1>t. m \in WalletMoves /\ stPaid \in [WalletMoves -> Nat] /\ stLeft \in [WalletMoves -> Nat]
  BY DEF StTypeOK, WalletMoves
<1>1. ASSUME NEW n, SetsMark(i, n) PROVE Staked(k)'
  BY <1>1 DEF SetsMark, Staked
<1>2. ASSUME NEW n, MakesMove(i, n) PROVE Staked(k)'
  <2>1. stPaid'[m] \in Nat /\ stPaid'[m] >= stPaid[m] /\ stLeft' = stLeft
    BY <1>t, <1>2 DEF MakesMove
  <2> QED
    BY <1>t, <2>1 DEF Staked
<1>3. CASE DropsMove(i)
  <2>1. stLeft'[m] \in Nat /\ stLeft'[m] >= stLeft[m] /\ stPaid' = stPaid
    BY <1>t, <1>3 DEF DropsMove, Leaves
  <2> QED
    BY <1>t, <2>1 DEF Staked
<1>4. CASE MoveStays(i)
  BY <1>4 DEF MoveStays, Staked
<1> QED
  BY <1>1, <1>2, <1>3, <1>4, Movements

\* A debit that finds its marker set, and nobody about to make it, was made or left undone before.
LEMMA LoserStaked ==
  ASSUME StTypeOK, CopiesHeld, ClaimsHeld, MoversMarked, AppliedByOneCaller, NEW i \in Instances,
         DebitMarks(i), ~Claimed(<<"debit", stKind[i]>>)
  PROVE  Staked(stKind[i])
<1> DEFINE m == <<"debit", stKind[i]>>
<1>1. stAt[i] = "debit" /\ stKind[i] \in BetKeys /\ m \in stMarks /\ m \in WalletMoves
  BY DEF DebitMarks, InstanceMoves, CopiesHeld, PlacingBet, Claimed, WalletMoves
<1>2. ASSUME NEW j \in Instances, m \in Applying(j)
      PROVE  FALSE
  <2>1. stAt[j] \in {"watch", "exec"} /\ stKind[j] = stKind[i]
    <3>1. m \notin {"credit"} \X stRows[j].now
      OBVIOUS
    <3> QED
      BY <1>2, <3>1 DEF Applying
  <2>2. j = i
    BY <1>1, <2>1 DEF ClaimsHeld, PlacingBet
  <2> QED
    BY <1>1, <2>1, <2>2
<1>3. Underway(m) = 0 /\ Standing(m) = 1
  BY <1>1, <1>2 DEF Underway, Standing
<1>4. stPaid[m] + stLeft[m] + Underway(m) = stForgot[m] + Standing(m)
  BY <1>1 DEF AppliedByOneCaller
<1>5. stPaid[m] \in Nat /\ stLeft[m] \in Nat /\ stForgot[m] \in Nat
  BY <1>1 DEF StTypeOK
<1>6. stPaid[m] > 0 \/ stLeft[m] > 0
  BY <1>3, <1>4, <1>5
<1> QED
  BY <1>6 DEF Staked

LEMMA StakesStep ==
  ASSUME StTypeOK, CopiesHeld, RowsHeld, ClaimsHeld, MoversMarked, AppliedByOneCaller, StakesTaken,
         [StNext]_stVars
  PROVE  StakesTaken'
<1>1. CASE UNCHANGED stVars \/ Lapse
  <2>1. UNCHANGED <<stRoom, stCopy, stAt, stKind, stPaid, stLeft>>
    BY <1>1, LapseAlone DEF stVars
  <2> QED
    BY <2>1 DEF StakesTaken, BetsStaked, BetsHeld, Staked
<1>2. ASSUME NEW i \in Instances, Instance(i)
      PROVE  StakesTaken'
  <2>t. /\ stAt \in [Instances -> Stations] /\ stPaid \in [WalletMoves -> Nat] /\ stLeft \in [WalletMoves -> Nat]
        /\ stRoom \in Rooms /\ stCopy \in [Instances -> Rooms \cup {NoRoom}]
    BY DEF StTypeOK, Stations, Rooms
  <2>b. BetsHeld \subseteq BetKeys
    BY <2>t DEF BetsHeld, Rooms
  <2>1. ASSUME NEW k \in BetsHeld'
        PROVE  Staked(k)'
    <3>1. CASE k \in BetsHeld
      <4>1. k \in BetKeys /\ Staked(k)
        BY <2>b, <3>1 DEF StakesTaken, BetsStaked, Staked
      <4> QED
        BY <1>2, <4>1, StakedStays
    <3>2. CASE BetCreated(i) /\ k = stKind[i]
      <4>1. k \in BetKeys /\ Staked(k)
        BY <3>2 DEF BetCreated, InstanceMoves, CopiesHeld, PlacingBet, StakesTaken
      <4> QED
        BY <1>2, <4>1, StakedStays
    <3> QED
      BY <1>2, <3>1, <3>2, BetsMove
  <2>2. ASSUME NEW j \in Instances, stAt'[j] = "create", NEW k \in BetKeys, k = stKind'[j]
        PROVE  Staked(k)'
    <3>a. DebitMarks(i) \/ DebitExecs(i) => stKind' = stKind
      BY DEF DebitMarks, DebitExecs
    <3>1. CASE stAt[j] = "create" /\ stKind'[j] = stKind[j]
      <4>1. Staked(k)
        BY <2>2, <3>1 DEF StakesTaken
      <4> QED
        BY <1>2, <4>1, StakedStays
    <3>2. CASE j = i /\ DebitMarks(i)
      <4>1. ~Claimed(<<"debit", stKind[i]>>) /\ k = stKind[i]
        BY <2>t, <2>2, <3>a, <3>2 DEF DebitMarks, InstanceMoves
      <4>2. Staked(stKind[i])
        BY <3>2, <4>1, LoserStaked
      <4>3. Staked(k)
        BY <4>1, <4>2
      <4> QED
        BY <1>2, <4>3, StakedStays
    <3>3. CASE j = i /\ DebitExecs(i)
      <4>1. k = stKind[i] /\ <<"debit", k>> \in WalletMoves
        BY <2>2, <3>a, <3>3 DEF WalletMoves
      <4>2. stPaid' = [stPaid EXCEPT ![<<"debit", k>>] = @ + 1]
        BY <3>3, <4>1 DEF DebitExecs
      <4>3. stPaid'[<<"debit", k>>] > 0
        BY <2>t, <4>1, <4>2
      <4> QED
        BY <4>3 DEF Staked
    <3>4. CASE j # i
      <4>1. stAt[j] = "create" /\ stKind'[j] = stKind[j]
        BY <1>2, <2>2, <3>4, InstanceAlone
      <4> QED
        BY <3>1, <4>1
    <3>5. Instance(i) /\ ~DebitMarks(i) /\ ~DebitExecs(i) => stAt'[i] # "create"
      BY <2>t DEF Instance, LoadAll, SweepBegins, SweepSkipped, SweepSettles, CreditMarks, CreditIncrs, SweepSaves,
         Reloads, HandlerEnters, RoomBusy, BetRefused, BetClaims, DebitReads, DebitRetries, BetCreated,
         HandlerLeaves, SaveAll, InstanceStops, InstanceMoves
    <3> QED
      BY <1>2, <2>2, <3>2, <3>3, <3>4, <3>5
  <2>3. ASSUME NEW j \in Instances, stAt'[j] = "create"
        PROVE  Staked(stKind[j])'
    <3>1. stKind'[j] \in BetKeys
      BY <2>3, CopiesStep DEF CopiesHeld, PlacingBet
    <3>2. PICK k \in BetKeys : k = stKind'[j]
      BY <3>1
    <3>3. Staked(k)'
      BY <2>2, <2>3, <3>2
    <3> QED
      BY <3>2, <3>3 DEF Staked
  <2> QED
    BY <2>1, <2>3 DEF StakesTaken, BetsStaked, Staked
<1> QED
  BY <1>1, <1>2, StSteps

LEMMA StInitial == StInit => StInv
<1> SUFFICES ASSUME StInit PROVE StInv
  OBVIOUS
<1>1. StTypeOK
  <2>1. stLapses \in 0..MaxLapses /\ stBalance \in Int
    BY StagingAssumption DEF StInit
  <2>2. stRoom \in [bets : SUBSET BetKeys, settled : BOOLEAN] /\ stMarks \subseteq WalletMoves
    BY DEF StInit
  <2>3. stRows \in [Instances -> [due : SUBSET BetKeys, now : SUBSET BetKeys]]
    BY DEF StInit, NoneDue
  <2> QED
    BY <2>1, <2>2, <2>3 DEF StInit, StTypeOK
<1>2. \A i \in Instances : stAt[i] = "load" /\ stRows[i].now = {} /\ Applying(i) = {}
  BY DEF StInit, NoneDue, Applying
<1>3. RowsHeld
  BY <1>2 DEF RowsHeld
<1>4. AppliedByOneCaller
  <2>1. ASSUME NEW m \in WalletMoves
        PROVE  stPaid[m] + stLeft[m] + Underway(m) = stForgot[m] + Standing(m)
    <3>1. stPaid[m] = 0 /\ stLeft[m] = 0 /\ stForgot[m] = 0
      BY DEF StInit
    <3>2. Underway(m) = 0
      BY <1>2 DEF Underway
    <3>3. Standing(m) = 0
      BY DEF StInit, Standing
    <3> QED
      BY <3>1, <3>2, <3>3
  <2> QED
    BY <2>1 DEF AppliedByOneCaller
<1>5. NeverOverdrawn
  BY StagingAssumption DEF StInit, NeverOverdrawn
<1>6. BetsHeld = {}
  BY DEF StInit, BetsHeld
<1>7. CopiesHeld /\ ClaimsHeld /\ DebitsCovered /\ MoversMarked
  BY <1>2 DEF CopiesHeld, ClaimsHeld, DebitsCovered, PlacingBet, MoversMarked
<1>8. StakesTaken
  BY <1>2, <1>6 DEF StakesTaken, BetsStaked
<1> QED
  BY <1>1, <1>3, <1>4, <1>5, <1>7, <1>8 DEF StInv

LEMMA StStep == StInv /\ [StNext]_stVars => StInv'
<1> SUFFICES ASSUME StInv, [StNext]_stVars PROVE StInv'
  OBVIOUS
<1>1. /\ StTypeOK /\ CopiesHeld /\ RowsHeld /\ ClaimsHeld /\ MoversMarked /\ DebitsCovered
      /\ AppliedByOneCaller /\ NeverOverdrawn /\ StakesTaken /\ stBalance \in Nat
  BY DEF StInv, StTypeOK, NeverOverdrawn
<1>2. MoversMarked' /\ AppliedByOneCaller'
  <2>1. CASE UNCHANGED stVars
    BY <1>1, <2>1 DEF stVars, MoversMarked, AppliedByOneCaller, Applying, Underway, Standing
  <2> QED
    BY <1>1, <2>1, StSteps, MoversStep, MarkersLapse
<1> QED
  BY <1>1, <1>2, StTypeStep, CopiesStep, RowsStep, ClaimsStep, BalanceStep, StakesStep DEF StInv

-----------------------------------------------------------------------------
(* What staging's requests share (staging/wsgi.py, state.py).              *)

Points == {"load", "sweep", "handler", "settings", "rules", "check", "push", "note", "hookaudit",
           "mark", "credit", "fund", "done", "refused", "broken"}
Unsaved == {"load", "sweep", "handler", "settings", "rules"}
Spilling == {"check", "push", "note"}
TrailRows == [log : Logs, by : Visits, n : Nat, to : Setter]
RequestRecords ==
  [op : {"look", "edit", "hook", "login", "grant"}, at : Points, field : Fields, settings : [Fields -> Setter],
   rules : Builds, hooks : Setter, rows : [Logs -> Seq(TrailRows)], log : Logs, next : Nat, saving : BOOLEAN]
SgTypes ==
  /\ Begun \subseteq Visits /\ sgReq \in [Begun -> RequestRecords]
  /\ sgSettings \in [Fields -> Setter] /\ sgRules \in Builds \cup {Nothing} /\ sgHooks \in Setter
  /\ sgLogs \in [Logs -> Seq(TrailRows)] /\ \A l \in Logs : \A m \in DOMAIN sgLogs[l] : sgLogs[l][m].log = l
  /\ sgFunded \in BOOLEAN /\ sgMarks \subseteq Coins /\ sgCredits \in [Coins -> Nat]
  /\ sgBefore \in [Visits -> SUBSET Visits] /\ sgTorn \subseteq Visits /\ sgLapsed \subseteq Coins

\* Where a request is says what it has done.
SoundVisit(i, r) ==
  /\ r.at \in Unsaved => ~r.saving /\ r.log = "audit" /\ r.next = 1
  /\ r.at \in Spilling /\ ~r.saving => r.log = "audit"
  /\ r.next >= 1 /\ (r.at \in {"push", "note"} => r.next \in DOMAIN r.rows[r.log])
  /\ r.saving => r.at \in Spilling \cup {"done", "broken"}
  /\ r.saving \/ r.at \in {"settings", "rules"} => r.op \in {"look", "edit"}
  /\ r.at = "done" /\ r.op \in {"look", "edit"} => r.saving
  /\ r.at = "hookaudit" => r.op = "hook"
  /\ r.at \in {"mark", "credit", "fund"} => r.op \in {"login", "grant"} /\ (r.at = "fund" => r.op = "login")
  /\ r.at \in {"load", "sweep"} => \A l \in Logs : r.rows[l] = <<>>
  /\ \A l \in Logs : \A k \in DOMAIN r.rows[l] :
       r.rows[l][k] = [log |-> l, by |-> i, n |-> k, to |-> IF l = "audit" THEN Nothing ELSE r.hooks]
VisitSound(i) == SoundVisit(i, sgReq[i])

\* Who came before a request was over by then.
BeforeIsOver ==
  /\ \A k \in Visits : sgBefore[k] \subseteq Over \ {k}
  /\ \A k \in Visits \ Begun : sgBefore[k] = {}

Apart(i) == \A j \in Begun : ~Overlapped(i, j)

\* An edit that no other overlapped is in the settings and in what later requests loaded.
EditHolds(i) ==
  LET r == sgReq[i] IN
  /\ r.op = "edit" /\ r.at \in {"settings", "rules"} => r.settings[r.field] = i
  /\ r.op = "edit" /\ (r.at = "rules" \/ r.saving) /\ Apart(i)
        /\ (\A j \in Begun : i \in sgBefore[j] => sgReq[j].op # "edit" \/ sgReq[j].field # r.field)
     => /\ sgSettings[r.field] = i
        /\ \A j \in Begun : i \in sgBefore[j] => sgReq[j].settings[r.field] = i

\* And its rules are.
RulesHold(i) ==
  sgReq[i].saving /\ Apart(i) =>
    /\ sgRules = sgReq[i].rules
    /\ \A j \in Begun : i \in sgBefore[j] /\ sgReq[j].at \notin {"load", "broken"} => sgReq[j].rules = sgReq[i].rules

\* A stored row is one of its request's; one that broke off aside, it is noted or about to be.
StoredRow(l, m) ==
  LET row == sgLogs[l][m] IN
  /\ row.by \in Begun /\ row.n \in DOMAIN sgReq[row.by].rows[l] /\ row = sgReq[row.by].rows[l][row.n]
  /\ row.by \notin sgTorn =>
       IdOf(row) \in sgSeen \/ (sgReq[row.by].at = "note" /\ row = RowDue(row.by))

Full(l) == Len(sgLogs[l]) >= RowCap
Stored(row) == \E m \in DOMAIN sgLogs[row.log] : sgLogs[row.log][m] = row
Noted(id) == id.log \in Logs /\ (Full(id.log) \/ \E m \in DOMAIN sgLogs[id.log] : IdOf(sgLogs[id.log][m]) = id)

\* What a request is about to push is not there, and what it is about to note is.
SpillSound(i) ==
  /\ sgReq[i].at = "push" /\ i \notin sgTorn => ~Stored(RowDue(i))
  /\ sgReq[i].at = "note" => Full(sgReq[i].log) \/ Stored(RowDue(i))

\* The rows a save has passed are kept.
Passed(i, l, k) ==
  LET r == sgReq[i] IN
  r.saving /\ (r.at = "done" \/ (l = r.log /\ k < r.next) \/ (l = "audit" /\ r.log = "deliveries"))
RowKept(i, l, k) ==
  Full(l) \/ \E m \in DOMAIN sgLogs[l] : sgLogs[l][m] = sgReq[i].rows[l][k] \/ (l = "audit" /\ sgLogs[l][m].n = k)
PassedKept(i) ==
  i \notin sgTorn => \A l \in Logs : \A k \in DOMAIN sgReq[i].rows[l] : Passed(i, l, k) => RowKept(i, l, k)

\* The webhook settings are the last that were put, as far as a request that came after can tell.
Since(hooks, j) == hooks # Nothing /\ (hooks = j \/ hooks \notin sgBefore[j])
HooksSound == \A j \in Begun : sgReq[j].op = "hook" /\ sgReq[j].at \in {"hookaudit", "done"} => Since(sgHooks, j)
HooksLoaded(i) ==
  sgReq[i].at \notin {"load", "broken"} \/ sgReq[i].rows["deliveries"] # <<>> =>
    \A j \in sgBefore[i] : sgReq[j].op = "hook" /\ sgReq[j].at = "done" => Since(sgReq[i].hooks, j)

\* A key is taken by one request, and once more when its mark has run out.
Crediting(k) == {i \in Begun : sgReq[i].at = "credit" /\ CoinOf(i) = k}
Worth(S, k) == IF k \in S THEN 1 ELSE 0
Welcomed == sgCredits["welcome"] > 0 \/ \E i \in Begun : sgReq[i].op = "login" /\ (sgReq[i].at = "credit" \/ i \in sgTorn)
CoinsSound ==
  /\ \A k \in Coins :
       /\ \A i, j \in Crediting(k) : i = j
       /\ sgCredits[k] <= Worth(sgMarks, k) + Worth(sgLapsed, k)
       /\ Crediting(k) # {} => k \in sgMarks /\ sgCredits[k] + 1 <= 1 + Worth(sgLapsed, k)
  /\ sgFunded \/ "welcome" \in sgMarks \/ (\E i \in Begun : sgReq[i].op = "login" /\ sgReq[i].at = "fund") => Welcomed

SgInv ==
  /\ SgTypes /\ BeforeIsOver /\ RowsOnce /\ HooksSound /\ CoinsSound
  /\ \A i \in Begun :
       VisitSound(i) /\ EditHolds(i) /\ RulesHold(i) /\ SpillSound(i) /\ PassedKept(i) /\ HooksLoaded(i)
  /\ \A l \in Logs : \A m \in DOMAIN sgLogs[l] : StoredRow(l, m)
  /\ \A id \in sgSeen : Noted(id)

-----------------------------------------------------------------------------
(* What staging's requests share: one request moves.                       *)

\* A record of a request with one part changed.
LEMMA RequestAt ==
  ASSUME NEW r \in RequestRecords, NEW a \in Points
  PROVE  LET e == [r EXCEPT !.at = a] IN
         /\ e \in RequestRecords /\ e.op = r.op /\ e.field = r.field /\ e.at = a /\ e.settings = r.settings /\ e.rules = r.rules
         /\ e.hooks = r.hooks /\ e.rows = r.rows /\ e.log = r.log /\ e.next = r.next /\ e.saving = r.saving
  BY DEF RequestRecords
LEMMA RequestSettings ==
  ASSUME NEW r \in RequestRecords, NEW s \in [Fields -> Setter]
  PROVE  LET e == [r EXCEPT !.settings = s] IN
         /\ e \in RequestRecords /\ e.op = r.op /\ e.field = r.field /\ e.at = r.at /\ e.settings = s /\ e.rules = r.rules
         /\ e.hooks = r.hooks /\ e.rows = r.rows /\ e.log = r.log /\ e.next = r.next /\ e.saving = r.saving
  BY DEF RequestRecords
LEMMA RequestHooks ==
  ASSUME NEW r \in RequestRecords, NEW h \in Setter
  PROVE  LET e == [r EXCEPT !.hooks = h] IN
         /\ e \in RequestRecords /\ e.op = r.op /\ e.field = r.field /\ e.at = r.at /\ e.settings = r.settings /\ e.rules = r.rules
         /\ e.hooks = h /\ e.rows = r.rows /\ e.log = r.log /\ e.next = r.next /\ e.saving = r.saving
  BY DEF RequestRecords
LEMMA RequestRules ==
  ASSUME NEW r \in RequestRecords, NEW b \in Builds
  PROVE  LET e == [r EXCEPT !.rules = b] IN
         /\ e \in RequestRecords /\ e.op = r.op /\ e.field = r.field /\ e.at = r.at /\ e.settings = r.settings /\ e.rules = b
         /\ e.hooks = r.hooks /\ e.rows = r.rows /\ e.log = r.log /\ e.next = r.next /\ e.saving = r.saving
  BY DEF RequestRecords
LEMMA RequestRows ==
  ASSUME NEW r \in RequestRecords, NEW w \in [Logs -> Seq(TrailRows)]
  PROVE  LET e == [r EXCEPT !.rows = w] IN
         /\ e \in RequestRecords /\ e.op = r.op /\ e.field = r.field /\ e.at = r.at /\ e.settings = r.settings /\ e.rules = r.rules
         /\ e.hooks = r.hooks /\ e.rows = w /\ e.log = r.log /\ e.next = r.next /\ e.saving = r.saving
  BY DEF RequestRecords
LEMMA RequestLog ==
  ASSUME NEW r \in RequestRecords, NEW l \in Logs
  PROVE  LET e == [r EXCEPT !.log = l] IN
         /\ e \in RequestRecords /\ e.op = r.op /\ e.field = r.field /\ e.at = r.at /\ e.settings = r.settings /\ e.rules = r.rules
         /\ e.hooks = r.hooks /\ e.rows = r.rows /\ e.log = l /\ e.next = r.next /\ e.saving = r.saving
  BY DEF RequestRecords
LEMMA RequestNext ==
  ASSUME NEW r \in RequestRecords, NEW n \in Nat
  PROVE  LET e == [r EXCEPT !.next = n] IN
         /\ e \in RequestRecords /\ e.op = r.op /\ e.field = r.field /\ e.at = r.at /\ e.settings = r.settings /\ e.rules = r.rules
         /\ e.hooks = r.hooks /\ e.rows = r.rows /\ e.log = r.log /\ e.next = n /\ e.saving = r.saving
  BY DEF RequestRecords
LEMMA RequestSaving ==
  ASSUME NEW r \in RequestRecords, NEW v \in BOOLEAN
  PROVE  LET e == [r EXCEPT !.saving = v] IN
         /\ e \in RequestRecords /\ e.op = r.op /\ e.field = r.field /\ e.at = r.at /\ e.settings = r.settings /\ e.rules = r.rules
         /\ e.hooks = r.hooks /\ e.rows = r.rows /\ e.log = r.log /\ e.next = r.next /\ e.saving = v
  BY DEF RequestRecords

\* What is the same of every step a request makes: e is what the step makes of it.
Turns(i, e) ==
  /\ i \in Begun \ Over /\ e \in RequestRecords /\ sgReq' = [sgReq EXCEPT ![i] = e]
  /\ e.op = sgReq[i].op /\ e.field = sgReq[i].field /\ SoundVisit(i, e)
  /\ sgBefore' = sgBefore /\ sgLapsed' = sgLapsed /\ sgTorn \subseteq sgTorn' /\ sgTorn' \subseteq sgTorn \cup {i}
  /\ e.at = "broken" => i \in sgTorn'

\* What it does to the settings and the rules.
TurnsSettings(i, e) ==
  LET r == sgReq[i] IN
  /\ sgSettings' = IF r.at = "settings" /\ e.at = "rules" THEN r.settings ELSE sgSettings
  /\ e.settings = IF r.at = "load" /\ e.at = "sweep" THEN sgSettings
                  ELSE IF r.op = "edit" /\ e.at = "settings" THEN [r.settings EXCEPT ![r.field] = i]
                  ELSE r.settings
  /\ e.at = "rules" => r.at = "settings"
  /\ e.at = "settings" => r.at = "handler"
  /\ (e.saving => r.saving \/ r.at = "rules") /\ (r.saving => e.saving)
  /\ sgRules' = IF r.at = "rules" /\ e.saving THEN r.rules ELSE sgRules
  /\ e.rules = IF r.at = "load" /\ e.at = "sweep" /\ sgRules # Nothing THEN sgRules ELSE r.rules
  /\ r.at = "load" => e.at \in {"sweep", "broken"}
  /\ r.at # "broken" /\ e.at # "load"

\* To the webhook settings.
TurnsHooks(i, e) ==
  LET r == sgReq[i] IN
  /\ sgHooks' = IF e.at = "hookaudit" THEN i ELSE sgHooks
  /\ e.hooks = IF r.at = "load" /\ e.at = "sweep" THEN sgHooks ELSE r.hooks
  /\ r.at = "load" => e.rows = r.rows
  /\ e.op = "hook" /\ e.at = "done" => r.at = "hookaudit"

\* To the coins.
TurnsCoins(i, e) ==
  LET r == sgReq[i] IN
  /\ sgMarks' = IF r.at = "mark" /\ e.at # "broken" THEN sgMarks \cup {CoinOf(i)} ELSE sgMarks
  /\ e.at = "credit" => r.at = "mark" /\ CoinOf(i) \notin sgMarks
  /\ r.at = "mark" /\ e.at # "broken" /\ CoinOf(i) \notin sgMarks => e.at = "credit"
  /\ sgCredits' = IF r.at = "credit" /\ e.at # "broken" THEN [sgCredits EXCEPT ![CoinOf(i)] = @ + 1] ELSE sgCredits
  /\ sgFunded' = (sgFunded \/ (r.at = "fund" /\ e.at = "done"))
  /\ e.at = "fund" => r.op = "login" /\ (r.at = "credit" \/ (r.at = "mark" /\ CoinOf(i) \in sgMarks))

\* And to the log and the ids of its rows.
Grown(i, e) ==
  \A l \in Logs : \A k \in DOMAIN sgReq[i].rows[l] : k \in DOMAIN e.rows[l] /\ e.rows[l][k] = sgReq[i].rows[l][k]
SameSpill(i, e) == LET r == sgReq[i] IN e.rows = r.rows /\ e.log = r.log /\ e.saving = r.saving /\ sgTorn' = sgTorn
LeavesLogs(i, e) ==
  /\ UNCHANGED <<sgLogs, sgSeen>> /\ Grown(i, e) /\ e.at \notin {"push", "note"}
  /\ sgReq[i].at = "note" => i \in sgTorn'
  /\ e.saving => i \in sgTorn' \/ (e.at = "check" /\ e.log = "audit" /\ e.next = 1)
SkipsRow(i, e) ==
  /\ UNCHANGED <<sgLogs, sgSeen>> /\ SameSpill(i, e) /\ sgReq[i].at = "check" /\ e.at = "check"
  /\ e.next = sgReq[i].next + 1 /\ sgReq[i].next \in DOMAIN ToSpill(i) /\ IdOf(RowDue(i)) \in sgSeen
AimsAtRow(i, e) ==
  /\ UNCHANGED <<sgLogs, sgSeen>> /\ SameSpill(i, e) /\ sgReq[i].at = "check" /\ e.at = "push"
  /\ e.next = sgReq[i].next /\ IdOf(RowDue(i)) \notin sgSeen
PushesRow(i, e) ==
  /\ sgLogs' = [sgLogs EXCEPT ![sgReq[i].log] = <<RowDue(i)>> \o @] /\ sgSeen' = sgSeen
  /\ SameSpill(i, e) /\ sgReq[i].at = "push" /\ e.at = "note" /\ e.next = sgReq[i].next
NotesRow(i, e) ==
  /\ sgLogs' = sgLogs /\ sgSeen' = sgSeen \cup {IdOf(RowDue(i))}
  /\ SameSpill(i, e) /\ sgReq[i].at = "note" /\ e.at = "check" /\ e.next = sgReq[i].next + 1
TrimsLog(i, e) ==
  LET r == sgReq[i] IN
  /\ sgLogs' = sgLogs \/ sgLogs' = [sgLogs EXCEPT ![r.log] = Capped(@)]
  /\ sgSeen' = sgSeen /\ e.rows = r.rows /\ e.saving = r.saving /\ sgTorn' = sgTorn
  /\ r.at = "check" /\ r.next > Len(ToSpill(i)) /\ e.next = 1 /\ e.at \notin {"push", "note"}
  /\ r.saving => e.log = "deliveries" /\ (e.at = "done" => r.log = "deliveries")
TurnsLogs(i, e) ==
  LeavesLogs(i, e) \/ SkipsRow(i, e) \/ AimsAtRow(i, e) \/ PushesRow(i, e) \/ NotesRow(i, e) \/ TrimsLog(i, e)

Moves(i, e) == Turns(i, e) /\ TurnsSettings(i, e) /\ TurnsHooks(i, e) /\ TurnsCoins(i, e) /\ TurnsLogs(i, e)
VisitSteps(i) ==
  \/ SgLoads(i) \/ SgSweeps(i) \/ SgChecks(i) \/ SgPushes(i) \/ SgNotes(i) \/ SgTrims(i)
  \/ SgLooks(i) \/ SgEdits(i) \/ SgBusy(i) \/ SgHooksSet(i) \/ SgHooksAudited(i)
  \/ SgLooksUp(i) \/ SgTakesKey(i) \/ SgPays(i) \/ SgFunds(i)
  \/ SgSavesSettings(i) \/ SgSavesRules(i) \/ SgSweepRaises(i) \/ SgBreaksOff(i)

LEMMA VisitMoves ==
  ASSUME SgInv, NEW i \in Visits, VisitSteps(i)
  PROVE  \E e \in RequestRecords : Moves(i, e)
<1> DEFINE r == sgReq[i]
<1>b. i \in Begun \ Over /\ r \in RequestRecords /\ SoundVisit(i, r)
  <2>1. i \in Begun /\ i \notin Over
    BY DEF VisitSteps, SgAt, Sweeping, Mishap, Over, SgLoads, SgSweeps, SgChecks, SgPushes, SgNotes, SgTrims, SgLooks, SgEdits, SgBusy,
           SgHooksSet, SgHooksAudited, SgLooksUp, SgTakesKey, SgPays, SgFunds, SgSavesSettings, SgSavesRules, SgSweepRaises, SgBreaksOff
  <2> QED BY SMTT(60), <2>1 DEF SgInv, SgTypes, VisitSound
<1>t. /\ r.at \in Points /\ r.settings \in [Fields -> Setter] /\ r.field \in Fields /\ r.rules \in Builds /\ r.hooks \in Setter
      /\ r.rows \in [Logs -> Seq(TrailRows)] /\ r.log \in Logs /\ r.next \in Nat /\ r.saving \in BOOLEAN
      /\ r.at \notin {"done", "refused", "broken"} /\ r.op \in {"look", "edit", "hook", "login", "grant"}
      /\ sgSettings \in [Fields -> Setter] /\ sgHooks \in Setter /\ sgRules \in Builds \cup {Nothing}
      /\ Nothing \notin Builds /\ sgTorn \subseteq Visits /\ sgFunded \in BOOLEAN
  BY <1>b, SharedAssumption DEF RequestRecords, SgInv, SgTypes, Over
<1> HIDE DEF r
<1>g. \A e : e.rows = r.rows => Grown(i, e)
  BY DEF Grown, r
<1>1. CASE SgLoads(i)
  <2> DEFINE b == IF sgRules = Nothing THEN r.rules ELSE sgRules
             e1 == [r EXCEPT !.at = "sweep"]
             e2 == [e1 EXCEPT !.settings = sgSettings]
             e3 == [e2 EXCEPT !.hooks = sgHooks]
             e == [e3 EXCEPT !.rules = b]
  <2>1. r.at = "load" /\ UNCHANGED <<sgSettings, sgRules, sgHooks, sgLogs, sgSeen, sgFunded, sgMarks, sgCredits, sgBefore, sgTorn, sgLapsed>>
    BY <1>1 DEF SgLoads, SgAt, SgKept, r
  <2>2. sgReq' = [sgReq EXCEPT ![i] = e]
    BY <1>1, <1>b DEF SgLoads, r
  <2>3. b \in Builds /\ "sweep" \in Points
    BY <1>t DEF Points
  <2>4. /\ e \in RequestRecords /\ e.op = r.op /\ e.field = r.field /\ e.at = "sweep" /\ e.settings = sgSettings /\ e.rules = b
        /\ e.hooks = sgHooks /\ e.rows = r.rows /\ e.log = r.log /\ e.next = r.next /\ e.saving = r.saving
    <3>1. /\ e1 \in RequestRecords /\ e1.op = r.op /\ e1.field = r.field /\ e1.at = "sweep" /\ e1.settings = r.settings /\ e1.rules = r.rules
          /\ e1.hooks = r.hooks /\ e1.rows = r.rows /\ e1.log = r.log /\ e1.next = r.next /\ e1.saving = r.saving
      BY <1>b, <2>3, RequestAt
    <3> HIDE DEF e1
    <3>2. /\ e2 \in RequestRecords /\ e2.op = r.op /\ e2.field = r.field /\ e2.at = "sweep" /\ e2.settings = sgSettings /\ e2.rules = r.rules
          /\ e2.hooks = r.hooks /\ e2.rows = r.rows /\ e2.log = r.log /\ e2.next = r.next /\ e2.saving = r.saving
      BY <3>1, <1>t, RequestSettings
    <3> HIDE DEF e2
    <3>3. /\ e3 \in RequestRecords /\ e3.op = r.op /\ e3.field = r.field /\ e3.at = "sweep" /\ e3.settings = sgSettings /\ e3.rules = r.rules
          /\ e3.hooks = sgHooks /\ e3.rows = r.rows /\ e3.log = r.log /\ e3.next = r.next /\ e3.saving = r.saving
      BY <3>2, <1>t, RequestHooks
    <3> HIDE DEF e3, b
    <3> QED BY <3>3, <2>3, RequestRules
  <2>5. (sgRules # Nothing => b = sgRules) /\ (sgRules = Nothing => b = r.rules)
    OBVIOUS
  <2> HIDE DEF e, b
  <2>6. SoundVisit(i, e)
    BY <1>b, <2>1, <2>4 DEF SoundVisit, Unsaved, Spilling
  <2>7. Turns(i, e)
    BY <1>b, <2>1, <2>2, <2>4, <2>6 DEF Turns, r
  <2>8. TurnsSettings(i, e)
    BY <2>1, <2>4, <2>5 DEF TurnsSettings, r
  <2>9. TurnsHooks(i, e) /\ TurnsCoins(i, e)
    <3>1. TurnsHooks(i, e)
      BY <2>1, <2>4 DEF TurnsHooks, r
    <3>2. TurnsCoins(i, e)
      BY <1>t, <2>1, <2>4 DEF TurnsCoins, r
    <3> QED BY <3>1, <3>2
  <2>10. LeavesLogs(i, e)
    BY <2>1, <2>4, <1>b, <1>g DEF LeavesLogs, SoundVisit, Unsaved, r
  <2> QED BY <2>4, <2>7, <2>8, <2>9, <2>10 DEF Moves, TurnsLogs
<1>2. CASE SgLooks(i)
  <2> DEFINE e == [r EXCEPT !.at = "settings"]
  <2>1. r.at = "handler" /\ r.op = "look" /\ UNCHANGED <<sgSettings, sgRules, sgHooks, sgLogs, sgSeen, sgFunded, sgMarks, sgCredits, sgBefore, sgTorn, sgLapsed>>
    BY <1>2, <1>t DEF SgLooks, SgAt, SgKept, r
  <2>2. sgReq' = [sgReq EXCEPT ![i] = e]
    BY <1>2, <1>b DEF SgLooks, SgGoes, r
  <2>3. "settings" \in Points
    BY <1>t, <1>b, <2>1 DEF Points, Logs, r
  <2>4. /\ e \in RequestRecords /\ e.op = r.op /\ e.field = r.field /\ e.at = "settings" /\ e.settings = r.settings /\ e.rules = r.rules
        /\ e.hooks = r.hooks /\ e.rows = r.rows /\ e.log = r.log /\ e.next = r.next /\ e.saving = r.saving
    BY <1>b, <2>3, RequestAt
  <2> HIDE DEF e
  <2>5. SoundVisit(i, e)
    BY <1>b, <2>1, <2>3, <2>4 DEF SoundVisit, Unsaved, Spilling
  <2>6. Turns(i, e)
    BY <1>b, <1>t, <2>1, <2>2, <2>3, <2>4, <2>5 DEF Turns, r
  <2>7. TurnsSettings(i, e)
    BY <1>b, <1>t, <2>1, <2>3, <2>4 DEF TurnsSettings, SoundVisit, Unsaved, Spilling, r
  <2>8. TurnsHooks(i, e)
    BY <1>b, <1>t, <2>1, <2>3, <2>4 DEF TurnsHooks, SoundVisit, r
  <2>9. TurnsCoins(i, e)
    BY <1>t, <2>1, <2>3, <2>4 DEF TurnsCoins, CoinOf, r
  <2>10. LeavesLogs(i, e)
    BY <1>b, <1>t, <1>g, <2>1, <2>3, <2>4 DEF LeavesLogs, SameSpill, SoundVisit, Unsaved, Spilling, ToSpill, RowDue, r
  <2> QED BY <2>4, <2>6, <2>7, <2>8, <2>9, <2>10 DEF Moves, TurnsLogs
<1>3. CASE SgBusy(i)
  <2> DEFINE e == [r EXCEPT !.at = "refused"]
  <2>1. r.at = "handler" /\ r.op = "edit" /\ UNCHANGED <<sgSettings, sgRules, sgHooks, sgLogs, sgSeen, sgFunded, sgMarks, sgCredits, sgBefore, sgTorn, sgLapsed>>
    BY <1>3, <1>t DEF SgBusy, SgAt, SgKept, r
  <2>2. sgReq' = [sgReq EXCEPT ![i] = e]
    BY <1>3, <1>b DEF SgBusy, SgGoes, r
  <2>3. "refused" \in Points
    BY <1>t, <1>b, <2>1 DEF Points, Logs, r
  <2>4. /\ e \in RequestRecords /\ e.op = r.op /\ e.field = r.field /\ e.at = "refused" /\ e.settings = r.settings /\ e.rules = r.rules
        /\ e.hooks = r.hooks /\ e.rows = r.rows /\ e.log = r.log /\ e.next = r.next /\ e.saving = r.saving
    BY <1>b, <2>3, RequestAt
  <2> HIDE DEF e
  <2>5. SoundVisit(i, e)
    BY <1>b, <2>1, <2>3, <2>4 DEF SoundVisit, Unsaved, Spilling
  <2>6. Turns(i, e)
    BY <1>b, <1>t, <2>1, <2>2, <2>3, <2>4, <2>5 DEF Turns, r
  <2>7. TurnsSettings(i, e)
    BY <1>b, <1>t, <2>1, <2>3, <2>4 DEF TurnsSettings, SoundVisit, Unsaved, Spilling, r
  <2>8. TurnsHooks(i, e)
    BY <1>b, <1>t, <2>1, <2>3, <2>4 DEF TurnsHooks, SoundVisit, r
  <2>9. TurnsCoins(i, e)
    BY <1>t, <2>1, <2>3, <2>4 DEF TurnsCoins, CoinOf, r
  <2>10. LeavesLogs(i, e)
    BY <1>b, <1>t, <1>g, <2>1, <2>3, <2>4 DEF LeavesLogs, SameSpill, SoundVisit, Unsaved, Spilling, ToSpill, RowDue, r
  <2> QED BY <2>4, <2>6, <2>7, <2>8, <2>9, <2>10 DEF Moves, TurnsLogs
<1>4. CASE SgHooksSet(i)
  <2> DEFINE e == [r EXCEPT !.at = "hookaudit"]
  <2>1. r.at = "handler" /\ r.op = "hook" /\ sgHooks' = i /\ UNCHANGED <<sgSettings, sgRules, sgLogs, sgSeen, sgFunded, sgMarks, sgCredits, sgBefore, sgTorn, sgLapsed>>
    BY <1>4, <1>t DEF SgHooksSet, SgAt, SgKept, r
  <2>2. sgReq' = [sgReq EXCEPT ![i] = e]
    BY <1>4, <1>b DEF SgHooksSet, SgGoes, r
  <2>3. "hookaudit" \in Points
    BY <1>t, <1>b, <2>1 DEF Points, Logs, r
  <2>4. /\ e \in RequestRecords /\ e.op = r.op /\ e.field = r.field /\ e.at = "hookaudit" /\ e.settings = r.settings /\ e.rules = r.rules
        /\ e.hooks = r.hooks /\ e.rows = r.rows /\ e.log = r.log /\ e.next = r.next /\ e.saving = r.saving
    BY <1>b, <2>3, RequestAt
  <2> HIDE DEF e
  <2>5. SoundVisit(i, e)
    BY <1>b, <2>1, <2>3, <2>4 DEF SoundVisit, Unsaved, Spilling
  <2>6. Turns(i, e)
    BY <1>b, <1>t, <2>1, <2>2, <2>3, <2>4, <2>5 DEF Turns, r
  <2>7. TurnsSettings(i, e)
    BY <1>b, <1>t, <2>1, <2>3, <2>4 DEF TurnsSettings, SoundVisit, Unsaved, Spilling, r
  <2>8. TurnsHooks(i, e)
    BY <1>b, <1>t, <2>1, <2>3, <2>4 DEF TurnsHooks, SoundVisit, r
  <2>9. TurnsCoins(i, e)
    BY <1>t, <2>1, <2>3, <2>4 DEF TurnsCoins, CoinOf, r
  <2>10. LeavesLogs(i, e)
    BY <1>b, <1>t, <1>g, <2>1, <2>3, <2>4 DEF LeavesLogs, SameSpill, SoundVisit, Unsaved, Spilling, ToSpill, RowDue, r
  <2> QED BY <2>4, <2>6, <2>7, <2>8, <2>9, <2>10 DEF Moves, TurnsLogs
<1>5. CASE SgHooksAudited(i)
  <2> DEFINE e == [r EXCEPT !.at = "done"]
  <2>1. r.at = "hookaudit" /\ UNCHANGED <<sgSettings, sgRules, sgHooks, sgLogs, sgSeen, sgFunded, sgMarks, sgCredits, sgBefore, sgTorn, sgLapsed>>
    BY <1>5, <1>t DEF SgHooksAudited, SgAt, SgKept, r
  <2>2. sgReq' = [sgReq EXCEPT ![i] = e]
    BY <1>5, <1>b DEF SgHooksAudited, SgGoes, r
  <2>3. "done" \in Points
    BY <1>t, <1>b, <2>1 DEF Points, Logs, r
  <2>4. /\ e \in RequestRecords /\ e.op = r.op /\ e.field = r.field /\ e.at = "done" /\ e.settings = r.settings /\ e.rules = r.rules
        /\ e.hooks = r.hooks /\ e.rows = r.rows /\ e.log = r.log /\ e.next = r.next /\ e.saving = r.saving
    BY <1>b, <2>3, RequestAt
  <2> HIDE DEF e
  <2>5. SoundVisit(i, e)
    BY <1>b, <2>1, <2>3, <2>4 DEF SoundVisit, Unsaved, Spilling
  <2>6. Turns(i, e)
    BY <1>b, <1>t, <2>1, <2>2, <2>3, <2>4, <2>5 DEF Turns, r
  <2>7. TurnsSettings(i, e)
    BY <1>b, <1>t, <2>1, <2>3, <2>4 DEF TurnsSettings, SoundVisit, Unsaved, Spilling, r
  <2>8. TurnsHooks(i, e)
    BY <1>b, <1>t, <2>1, <2>3, <2>4 DEF TurnsHooks, SoundVisit, r
  <2>9. TurnsCoins(i, e)
    BY <1>t, <2>1, <2>3, <2>4 DEF TurnsCoins, CoinOf, r
  <2>10. LeavesLogs(i, e)
    BY <1>b, <1>t, <1>g, <2>1, <2>3, <2>4 DEF LeavesLogs, SameSpill, SoundVisit, Unsaved, Spilling, ToSpill, RowDue, r
  <2> QED BY <2>4, <2>6, <2>7, <2>8, <2>9, <2>10 DEF Moves, TurnsLogs
<1>6. CASE SgLooksUp(i)
  <2> DEFINE a == IF sgReq[i].op = "login" /\ sgFunded THEN "done" ELSE "mark"
             e == [r EXCEPT !.at = a]
  <2>1. r.at = "handler" /\ r.op \in {"login", "grant"} /\ UNCHANGED <<sgSettings, sgRules, sgHooks, sgLogs, sgSeen, sgFunded, sgMarks, sgCredits, sgBefore, sgTorn, sgLapsed>>
    BY <1>6, <1>t DEF SgLooksUp, SgAt, SgKept, r
  <2>2. sgReq' = [sgReq EXCEPT ![i] = e]
    BY <1>6, <1>b DEF SgLooksUp, SgGoes, r
  <2>3. a \in {"done", "mark"} /\ a \in Points
    BY <1>t, <1>b, <2>1 DEF Points, Logs, r
  <2> HIDE DEF a
  <2>4. /\ e \in RequestRecords /\ e.op = r.op /\ e.field = r.field /\ e.at = a /\ e.settings = r.settings /\ e.rules = r.rules
        /\ e.hooks = r.hooks /\ e.rows = r.rows /\ e.log = r.log /\ e.next = r.next /\ e.saving = r.saving
    BY <1>b, <2>3, RequestAt
  <2> HIDE DEF e
  <2>5. SoundVisit(i, e)
    BY <1>b, <2>1, <2>3, <2>4 DEF SoundVisit, Unsaved, Spilling
  <2>6. Turns(i, e)
    BY <1>b, <1>t, <2>1, <2>2, <2>3, <2>4, <2>5 DEF Turns, r
  <2>7. TurnsSettings(i, e)
    BY <1>b, <1>t, <2>1, <2>3, <2>4 DEF TurnsSettings, SoundVisit, Unsaved, Spilling, r
  <2>8. TurnsHooks(i, e)
    BY <1>b, <1>t, <2>1, <2>3, <2>4 DEF TurnsHooks, SoundVisit, r
  <2>9. TurnsCoins(i, e)
    BY <1>t, <2>1, <2>3, <2>4 DEF TurnsCoins, CoinOf, r
  <2>10. LeavesLogs(i, e)
    BY <1>b, <1>t, <1>g, <2>1, <2>3, <2>4 DEF LeavesLogs, SameSpill, SoundVisit, Unsaved, Spilling, ToSpill, RowDue, r
  <2> QED BY <2>4, <2>6, <2>7, <2>8, <2>9, <2>10 DEF Moves, TurnsLogs
<1>7. CASE SgTakesKey(i)
  <2> DEFINE a == IF CoinOf(i) \in sgMarks THEN AfterCredit(i) ELSE "credit"
             e == [r EXCEPT !.at = a]
  <2>1. r.at = "mark" /\ sgMarks' = sgMarks \cup {CoinOf(i)} /\ UNCHANGED <<sgSettings, sgRules, sgHooks, sgLogs, sgSeen, sgFunded, sgCredits, sgBefore, sgTorn, sgLapsed>>
    BY <1>7, <1>t DEF SgTakesKey, SgAt, SgKept, r
  <2>2. sgReq' = [sgReq EXCEPT ![i] = e]
    BY <1>7, <1>b DEF SgTakesKey, SgGoes, r
  <2>3. a \in Points /\ a \in {"fund", "done", "credit"} /\ (a = "credit" <=> CoinOf(i) \notin sgMarks)
        /\ (a = "fund" => r.op = "login" /\ CoinOf(i) \in sgMarks)
    BY <1>t, <1>b, <2>1 DEF AfterCredit, Points, Logs, r
  <2> HIDE DEF a
  <2>4. /\ e \in RequestRecords /\ e.op = r.op /\ e.field = r.field /\ e.at = a /\ e.settings = r.settings /\ e.rules = r.rules
        /\ e.hooks = r.hooks /\ e.rows = r.rows /\ e.log = r.log /\ e.next = r.next /\ e.saving = r.saving
    BY <1>b, <2>3, RequestAt
  <2> HIDE DEF e
  <2>5. SoundVisit(i, e)
    BY <1>b, <2>1, <2>3, <2>4 DEF SoundVisit, Unsaved, Spilling
  <2>6. Turns(i, e)
    BY <1>b, <1>t, <2>1, <2>2, <2>3, <2>4, <2>5 DEF Turns, r
  <2>7. TurnsSettings(i, e)
    BY <1>b, <1>t, <2>1, <2>3, <2>4 DEF TurnsSettings, SoundVisit, Unsaved, Spilling, r
  <2>8. TurnsHooks(i, e)
    BY <1>b, <1>t, <2>1, <2>3, <2>4 DEF TurnsHooks, SoundVisit, r
  <2>9. TurnsCoins(i, e)
    BY <1>t, <2>1, <2>3, <2>4 DEF TurnsCoins, CoinOf, r
  <2>10. LeavesLogs(i, e)
    BY <1>b, <1>t, <1>g, <2>1, <2>3, <2>4 DEF LeavesLogs, SameSpill, SoundVisit, Unsaved, Spilling, ToSpill, RowDue, r
  <2> QED BY <2>4, <2>6, <2>7, <2>8, <2>9, <2>10 DEF Moves, TurnsLogs
<1>8. CASE SgPays(i)
  <2> DEFINE a == AfterCredit(i)
             e == [r EXCEPT !.at = a]
  <2>1. r.at = "credit" /\ sgCredits' = [sgCredits EXCEPT ![CoinOf(i)] = @ + 1] /\ UNCHANGED <<sgSettings, sgRules, sgHooks, sgLogs, sgSeen, sgFunded, sgMarks, sgBefore, sgTorn, sgLapsed>>
    BY <1>8, <1>t DEF SgPays, SgAt, SgKept, r
  <2>2. sgReq' = [sgReq EXCEPT ![i] = e]
    BY <1>8, <1>b DEF SgPays, SgGoes, r
  <2>3. a \in Points /\ a \in {"fund", "done"} /\ (a = "fund" => r.op = "login")
    BY <1>t, <1>b, <2>1 DEF AfterCredit, Points, Logs, r
  <2> HIDE DEF a
  <2>4. /\ e \in RequestRecords /\ e.op = r.op /\ e.field = r.field /\ e.at = a /\ e.settings = r.settings /\ e.rules = r.rules
        /\ e.hooks = r.hooks /\ e.rows = r.rows /\ e.log = r.log /\ e.next = r.next /\ e.saving = r.saving
    BY <1>b, <2>3, RequestAt
  <2> HIDE DEF e
  <2>5. SoundVisit(i, e)
    BY <1>b, <2>1, <2>3, <2>4 DEF SoundVisit, Unsaved, Spilling
  <2>6. Turns(i, e)
    BY <1>b, <1>t, <2>1, <2>2, <2>3, <2>4, <2>5 DEF Turns, r
  <2>7. TurnsSettings(i, e)
    BY <1>b, <1>t, <2>1, <2>3, <2>4 DEF TurnsSettings, SoundVisit, Unsaved, Spilling, r
  <2>8. TurnsHooks(i, e)
    BY <1>b, <1>t, <2>1, <2>3, <2>4 DEF TurnsHooks, SoundVisit, r
  <2>9. TurnsCoins(i, e)
    BY <1>t, <2>1, <2>3, <2>4 DEF TurnsCoins, CoinOf, r
  <2>10. LeavesLogs(i, e)
    BY <1>b, <1>t, <1>g, <2>1, <2>3, <2>4 DEF LeavesLogs, SameSpill, SoundVisit, Unsaved, Spilling, ToSpill, RowDue, r
  <2> QED BY <2>4, <2>6, <2>7, <2>8, <2>9, <2>10 DEF Moves, TurnsLogs
<1>9. CASE SgFunds(i)
  <2> DEFINE e == [r EXCEPT !.at = "done"]
  <2>1. r.at = "fund" /\ sgFunded' = TRUE /\ UNCHANGED <<sgSettings, sgRules, sgHooks, sgLogs, sgSeen, sgMarks, sgCredits, sgBefore, sgTorn, sgLapsed>>
    BY <1>9, <1>t DEF SgFunds, SgAt, SgKept, r
  <2>2. sgReq' = [sgReq EXCEPT ![i] = e]
    BY <1>9, <1>b DEF SgFunds, SgGoes, r
  <2>3. "done" \in Points
    BY <1>t, <1>b, <2>1 DEF Points, Logs, r
  <2>4. /\ e \in RequestRecords /\ e.op = r.op /\ e.field = r.field /\ e.at = "done" /\ e.settings = r.settings /\ e.rules = r.rules
        /\ e.hooks = r.hooks /\ e.rows = r.rows /\ e.log = r.log /\ e.next = r.next /\ e.saving = r.saving
    BY <1>b, <2>3, RequestAt
  <2> HIDE DEF e
  <2>5. SoundVisit(i, e)
    BY <1>b, <2>1, <2>3, <2>4 DEF SoundVisit, Unsaved, Spilling
  <2>6. Turns(i, e)
    BY <1>b, <1>t, <2>1, <2>2, <2>3, <2>4, <2>5 DEF Turns, r
  <2>7. TurnsSettings(i, e)
    BY <1>b, <1>t, <2>1, <2>3, <2>4 DEF TurnsSettings, SoundVisit, Unsaved, Spilling, r
  <2>8. TurnsHooks(i, e)
    BY <1>b, <1>t, <2>1, <2>3, <2>4 DEF TurnsHooks, SoundVisit, r
  <2>9. TurnsCoins(i, e)
    BY <1>t, <2>1, <2>3, <2>4 DEF TurnsCoins, CoinOf, r
  <2>10. LeavesLogs(i, e)
    BY <1>b, <1>t, <1>g, <2>1, <2>3, <2>4 DEF LeavesLogs, SameSpill, SoundVisit, Unsaved, Spilling, ToSpill, RowDue, r
  <2> QED BY <2>4, <2>6, <2>7, <2>8, <2>9, <2>10 DEF Moves, TurnsLogs
<1>10. CASE SgSavesSettings(i)
  <2> DEFINE e == [r EXCEPT !.at = "rules"]
  <2>1. r.at = "settings" /\ sgSettings' = r.settings /\ UNCHANGED <<sgRules, sgHooks, sgLogs, sgSeen, sgFunded, sgMarks, sgCredits, sgBefore, sgTorn, sgLapsed>>
    BY <1>10, <1>t DEF SgSavesSettings, SgAt, SgKept, r
  <2>2. sgReq' = [sgReq EXCEPT ![i] = e]
    BY <1>10, <1>b DEF SgSavesSettings, SgGoes, r
  <2>3. "rules" \in Points
    BY <1>t, <1>b, <2>1 DEF Points, Logs, r
  <2>4. /\ e \in RequestRecords /\ e.op = r.op /\ e.field = r.field /\ e.at = "rules" /\ e.settings = r.settings /\ e.rules = r.rules
        /\ e.hooks = r.hooks /\ e.rows = r.rows /\ e.log = r.log /\ e.next = r.next /\ e.saving = r.saving
    BY <1>b, <2>3, RequestAt
  <2> HIDE DEF e
  <2>5. SoundVisit(i, e)
    BY <1>b, <2>1, <2>3, <2>4 DEF SoundVisit, Unsaved, Spilling
  <2>6. Turns(i, e)
    BY <1>b, <1>t, <2>1, <2>2, <2>3, <2>4, <2>5 DEF Turns, r
  <2>7. TurnsSettings(i, e)
    BY <1>b, <1>t, <2>1, <2>3, <2>4 DEF TurnsSettings, SoundVisit, Unsaved, Spilling, r
  <2>8. TurnsHooks(i, e)
    BY <1>b, <1>t, <2>1, <2>3, <2>4 DEF TurnsHooks, SoundVisit, r
  <2>9. TurnsCoins(i, e)
    BY <1>t, <2>1, <2>3, <2>4 DEF TurnsCoins, CoinOf, r
  <2>10. LeavesLogs(i, e)
    BY <1>b, <1>t, <1>g, <2>1, <2>3, <2>4 DEF LeavesLogs, SameSpill, SoundVisit, Unsaved, Spilling, ToSpill, RowDue, r
  <2> QED BY <2>4, <2>6, <2>7, <2>8, <2>9, <2>10 DEF Moves, TurnsLogs
<1>11. CASE SgSavesRules(i)
  <2> DEFINE e1 == [r EXCEPT !.at = "check"]
             e == [e1 EXCEPT !.saving = TRUE]
  <2>1. r.at = "rules" /\ sgRules' = r.rules /\ UNCHANGED <<sgSettings, sgHooks, sgLogs, sgSeen, sgFunded, sgMarks, sgCredits, sgBefore, sgTorn, sgLapsed>>
    BY <1>11, <1>t DEF SgSavesRules, SgAt, SgKept, r
  <2>2. sgReq' = [sgReq EXCEPT ![i] = e]
    BY <1>11, <1>b DEF SgSavesRules, SgGoes, r
  <2>3. "check" \in Points /\ TRUE \in BOOLEAN
    BY <1>t, <1>b, <2>1 DEF Points, Logs, r
  <2>4. /\ e \in RequestRecords /\ e.op = r.op /\ e.field = r.field /\ e.at = "check" /\ e.settings = r.settings /\ e.rules = r.rules
        /\ e.hooks = r.hooks /\ e.rows = r.rows /\ e.log = r.log /\ e.next = r.next /\ e.saving = TRUE
    <3>1. /\ e1 \in RequestRecords /\ e1.op = r.op /\ e1.field = r.field /\ e1.at = "check" /\ e1.settings = r.settings /\ e1.rules = r.rules
          /\ e1.hooks = r.hooks /\ e1.rows = r.rows /\ e1.log = r.log /\ e1.next = r.next /\ e1.saving = r.saving
      BY <1>b, <1>t, <2>3, RequestAt
    <3> HIDE DEF e1
    <3> QED BY <1>t, <2>3, <3>1, RequestSaving
  <2> HIDE DEF e
  <2>5. SoundVisit(i, e)
    BY <1>b, <2>1, <2>3, <2>4 DEF SoundVisit, Unsaved, Spilling
  <2>6. Turns(i, e)
    BY <1>b, <1>t, <2>1, <2>2, <2>3, <2>4, <2>5 DEF Turns, r
  <2>7. TurnsSettings(i, e)
    BY <1>b, <1>t, <2>1, <2>3, <2>4 DEF TurnsSettings, SoundVisit, Unsaved, Spilling, r
  <2>8. TurnsHooks(i, e)
    BY <1>b, <1>t, <2>1, <2>3, <2>4 DEF TurnsHooks, SoundVisit, r
  <2>9. TurnsCoins(i, e)
    BY <1>t, <2>1, <2>3, <2>4 DEF TurnsCoins, CoinOf, r
  <2>10. LeavesLogs(i, e)
    BY <1>b, <1>t, <1>g, <2>1, <2>3, <2>4 DEF LeavesLogs, SameSpill, SoundVisit, Unsaved, Spilling, ToSpill, RowDue, r
  <2> QED BY <2>4, <2>6, <2>7, <2>8, <2>9, <2>10 DEF Moves, TurnsLogs
<1>12. CASE SgBreaksOff(i)
  <2> DEFINE e == [r EXCEPT !.at = "broken"]
  <2>1. sgTorn' = sgTorn \cup {i} /\ UNCHANGED <<sgSettings, sgRules, sgHooks, sgLogs, sgSeen, sgFunded, sgMarks, sgCredits, sgBefore, sgLapsed>>
    BY <1>12, <1>t DEF SgBreaksOff, Mishap, sgStored, SgAt, SgKept, r
  <2>2. sgReq' = [sgReq EXCEPT ![i] = e]
    BY <1>12, <1>b DEF SgBreaksOff, Mishap, sgStored, SgGoes, r
  <2>3. "broken" \in Points
    BY <1>t, <1>b, <2>1 DEF Points, Logs, r
  <2>4. /\ e \in RequestRecords /\ e.op = r.op /\ e.field = r.field /\ e.at = "broken" /\ e.settings = r.settings /\ e.rules = r.rules
        /\ e.hooks = r.hooks /\ e.rows = r.rows /\ e.log = r.log /\ e.next = r.next /\ e.saving = r.saving
    BY <1>b, <2>3, RequestAt
  <2> HIDE DEF e
  <2>5. SoundVisit(i, e)
    BY <1>b, <2>1, <2>3, <2>4 DEF SoundVisit, Unsaved, Spilling
  <2>6. Turns(i, e)
    BY <1>b, <1>t, <2>1, <2>2, <2>3, <2>4, <2>5 DEF Turns, r
  <2>7. TurnsSettings(i, e)
    BY <1>b, <1>t, <2>1, <2>3, <2>4 DEF TurnsSettings, SoundVisit, Unsaved, Spilling, r
  <2>8. TurnsHooks(i, e)
    BY <1>b, <1>t, <2>1, <2>3, <2>4 DEF TurnsHooks, SoundVisit, r
  <2>9. TurnsCoins(i, e)
    BY <1>t, <2>1, <2>3, <2>4 DEF TurnsCoins, CoinOf, r
  <2>10. LeavesLogs(i, e)
    BY <1>b, <1>t, <1>g, <2>1, <2>3, <2>4 DEF LeavesLogs, SameSpill, SoundVisit, Unsaved, Spilling, ToSpill, RowDue, r
  <2> QED BY <2>4, <2>6, <2>7, <2>8, <2>9, <2>10 DEF Moves, TurnsLogs
<1>13. CASE SgSweepRaises(i)
  <2> DEFINE e1 == [r EXCEPT !.next = 1]
             e == [e1 EXCEPT !.at = "handler"]
  <2>1. r.at \in {"check", "push", "note"} /\ ~r.saving /\ sgTorn' = sgTorn \cup {i} /\ UNCHANGED <<sgSettings, sgRules, sgHooks, sgLogs, sgSeen, sgFunded, sgMarks, sgCredits, sgBefore, sgLapsed>>
    BY <1>13, <1>t DEF SgSweepRaises, Mishap, Sweeping, sgStored, SgAt, SgKept, r
  <2>2. sgReq' = [sgReq EXCEPT ![i] = e]
    BY <1>13, <1>b DEF SgSweepRaises, Mishap, Sweeping, sgStored, SgGoes, r
  <2>3. "handler" \in Points /\ 1 \in Nat
    BY <1>t, <1>b, <2>1 DEF Points, Logs, r
  <2>4. /\ e \in RequestRecords /\ e.op = r.op /\ e.field = r.field /\ e.at = "handler" /\ e.settings = r.settings /\ e.rules = r.rules
        /\ e.hooks = r.hooks /\ e.rows = r.rows /\ e.log = r.log /\ e.next = 1 /\ e.saving = r.saving
    <3>1. /\ e1 \in RequestRecords /\ e1.op = r.op /\ e1.field = r.field /\ e1.at = r.at /\ e1.settings = r.settings /\ e1.rules = r.rules
          /\ e1.hooks = r.hooks /\ e1.rows = r.rows /\ e1.log = r.log /\ e1.next = 1 /\ e1.saving = r.saving
      BY <1>b, <1>t, <2>3, RequestNext
    <3> HIDE DEF e1
    <3> QED BY <1>t, <2>3, <3>1, RequestAt
  <2> HIDE DEF e
  <2>5. SoundVisit(i, e)
    BY <1>b, <2>1, <2>3, <2>4 DEF SoundVisit, Unsaved, Spilling
  <2>6. Turns(i, e)
    BY <1>b, <1>t, <2>1, <2>2, <2>3, <2>4, <2>5 DEF Turns, r
  <2>7. TurnsSettings(i, e)
    BY <1>b, <1>t, <2>1, <2>3, <2>4 DEF TurnsSettings, SoundVisit, Unsaved, Spilling, r
  <2>8. TurnsHooks(i, e)
    BY <1>b, <1>t, <2>1, <2>3, <2>4 DEF TurnsHooks, SoundVisit, r
  <2>9. TurnsCoins(i, e)
    BY <1>t, <2>1, <2>3, <2>4 DEF TurnsCoins, CoinOf, r
  <2>10. LeavesLogs(i, e)
    BY <1>b, <1>t, <1>g, <2>1, <2>3, <2>4 DEF LeavesLogs, SameSpill, SoundVisit, Unsaved, Spilling, ToSpill, RowDue, r
  <2> QED BY <2>4, <2>6, <2>7, <2>8, <2>9, <2>10 DEF Moves, TurnsLogs
<1>14. CASE SgSweeps(i) /\ sgReq' = [sgReq EXCEPT ![i].at = "handler"]
  <2> DEFINE e == [r EXCEPT !.at = "handler"]
  <2>1. r.at = "sweep" /\ UNCHANGED <<sgSettings, sgRules, sgHooks, sgLogs, sgSeen, sgFunded, sgMarks, sgCredits, sgBefore, sgTorn, sgLapsed>>
    BY <1>14, <1>t DEF SgSweeps, SgAt, SgKept, r
  <2>2. sgReq' = [sgReq EXCEPT ![i] = e]
    BY <1>14, <1>b DEF SgSweeps, SgGoes, r
  <2>3. "handler" \in Points
    BY <1>t, <1>b, <2>1 DEF Points, Logs, r
  <2>4. /\ e \in RequestRecords /\ e.op = r.op /\ e.field = r.field /\ e.at = "handler" /\ e.settings = r.settings /\ e.rules = r.rules
        /\ e.hooks = r.hooks /\ e.rows = r.rows /\ e.log = r.log /\ e.next = r.next /\ e.saving = r.saving
    BY <1>b, <2>3, RequestAt
  <2> HIDE DEF e
  <2>5. SoundVisit(i, e)
    BY <1>b, <2>1, <2>3, <2>4 DEF SoundVisit, Unsaved, Spilling
  <2>6. Turns(i, e)
    BY <1>b, <1>t, <2>1, <2>2, <2>3, <2>4, <2>5 DEF Turns, r
  <2>7. TurnsSettings(i, e)
    BY <1>b, <1>t, <2>1, <2>3, <2>4 DEF TurnsSettings, SoundVisit, Unsaved, Spilling, r
  <2>8. TurnsHooks(i, e)
    BY <1>b, <1>t, <2>1, <2>3, <2>4 DEF TurnsHooks, SoundVisit, r
  <2>9. TurnsCoins(i, e)
    BY <1>t, <2>1, <2>3, <2>4 DEF TurnsCoins, CoinOf, r
  <2>10. LeavesLogs(i, e)
    BY <1>b, <1>t, <1>g, <2>1, <2>3, <2>4 DEF LeavesLogs, SameSpill, SoundVisit, Unsaved, Spilling, ToSpill, RowDue, r
  <2> QED BY <2>4, <2>6, <2>7, <2>8, <2>9, <2>10 DEF Moves, TurnsLogs
<1>15. CASE SgSweeps(i) /\ sgReq' # [sgReq EXCEPT ![i].at = "handler"]
  <2> DEFINE w == SweptRows(i)
             e1 == [r EXCEPT !.at = "check"]
             e == [e1 EXCEPT !.rows = w]
  <2>1. r.at = "sweep" /\ UNCHANGED <<sgSettings, sgRules, sgHooks, sgLogs, sgSeen, sgFunded, sgMarks, sgCredits, sgBefore, sgTorn, sgLapsed>>
    BY <1>15, <1>t DEF SgSweeps, SgAt, SgKept, r
  <2>2. sgReq' = [sgReq EXCEPT ![i] = e]
    BY <1>15, <1>b DEF SgSweeps, SgGoes, r
  <2>3. /\ "check" \in Points /\ w \in [Logs -> Seq(TrailRows)] /\ \A l \in Logs : r.rows[l] = <<>> /\ DOMAIN r.rows[l] = {}
        /\ \A l \in Logs : \A k \in DOMAIN w[l] : w[l][k] = [log |-> l, by |-> i, n |-> k, to |-> IF l = "audit" THEN Nothing ELSE r.hooks]
    <3>1. \A l \in Logs : r.rows[l] = <<>> /\ DOMAIN r.rows[l] = {}
      BY <2>1, <1>b DEF SoundVisit
    <3>2. ASSUME NEW l \in Logs
          PROVE  /\ w[l] \in Seq(TrailRows)
                 /\ \A k \in DOMAIN w[l] : w[l][k] = [log |-> l, by |-> i, n |-> k, to |-> IF l = "audit" THEN Nothing ELSE r.hooks]
      <4> DEFINE row == [log |-> l, by |-> i, n |-> 1, to |-> IF l = "audit" THEN Nothing ELSE r.hooks]
      <4>1. Row(i, l) = row
        BY <3>1 DEF Row, r
      <4>2. row \in TrailRows
        BY <1>t DEF TrailRows, Setter
      <4>3. w[l] = <<row>> \/ w[l] = <<>>
        BY <4>1 DEF SweptRows
      <4> HIDE DEF w
      <4>4. CASE w[l] = <<row>>
        <5>1. DOMAIN w[l] = {1} /\ w[l][1] = row /\ w[l] \in Seq(TrailRows)
          <6> HIDE DEF row
          <6> QED BY <4>4, <4>2
        <5> QED BY <5>1
      <4>5. CASE w[l] = <<>>
        BY <4>5
      <4> QED BY <4>3, <4>4, <4>5
    <3>3. w = [l \in Logs |-> w[l]]
      BY DEF SweptRows
    <3> HIDE DEF w
    <3> QED BY <3>1, <3>2, <3>3 DEF Points
  <2> HIDE DEF w
  <2>4. /\ e \in RequestRecords /\ e.op = r.op /\ e.field = r.field /\ e.at = "check" /\ e.settings = r.settings /\ e.rules = r.rules
        /\ e.hooks = r.hooks /\ e.rows = w /\ e.log = r.log /\ e.next = r.next /\ e.saving = r.saving
    <3>1. /\ e1 \in RequestRecords /\ e1.op = r.op /\ e1.field = r.field /\ e1.at = "check" /\ e1.settings = r.settings /\ e1.rules = r.rules
          /\ e1.hooks = r.hooks /\ e1.rows = r.rows /\ e1.log = r.log /\ e1.next = r.next /\ e1.saving = r.saving
      BY <1>b, <1>t, <2>3, RequestAt
    <3> HIDE DEF e1
    <3> QED BY <1>t, <2>3, <3>1, RequestRows
  <2> HIDE DEF e
  <2>5. SoundVisit(i, e)
    BY <1>b, <2>1, <2>3, <2>4 DEF SoundVisit, Unsaved, Spilling
  <2>6. Turns(i, e)
    BY <1>b, <1>t, <2>1, <2>2, <2>3, <2>4, <2>5 DEF Turns, r
  <2>7. TurnsSettings(i, e)
    BY <1>b, <1>t, <2>1, <2>3, <2>4 DEF TurnsSettings, SoundVisit, Unsaved, Spilling, r
  <2>8. TurnsHooks(i, e)
    BY <1>b, <1>t, <2>1, <2>3, <2>4 DEF TurnsHooks, SoundVisit, r
  <2>9. TurnsCoins(i, e)
    BY <1>t, <2>1, <2>3, <2>4 DEF TurnsCoins, CoinOf, r
  <2>10. LeavesLogs(i, e)
    BY <1>b, <1>t, <1>g, <2>1, <2>3, <2>4 DEF LeavesLogs, SameSpill, SoundVisit, Unsaved, Spilling, ToSpill, RowDue, Grown, r
  <2> QED BY <2>4, <2>6, <2>7, <2>8, <2>9, <2>10 DEF Moves, TurnsLogs
<1>16. CASE SgChecks(i) /\ IdOf(RowDue(i)) \in sgSeen
  <2> DEFINE e == [r EXCEPT !.next = r.next + 1]
  <2>1. r.at = "check" /\ r.next <= Len(ToSpill(i)) /\ IdOf(RowDue(i)) \in sgSeen /\ UNCHANGED <<sgSettings, sgRules, sgHooks, sgLogs, sgSeen, sgFunded, sgMarks, sgCredits, sgBefore, sgTorn, sgLapsed>>
    BY <1>16, <1>t DEF SgChecks, SgAt, SgKept, r
  <2>2. sgReq' = [sgReq EXCEPT ![i] = e]
    BY <1>16, <1>b DEF SgChecks, SgGoes, r
  <2>3. r.next + 1 \in Nat /\ r.next \in DOMAIN ToSpill(i) /\ r.next >= 1
    <3>1. r.next >= 1
      BY <1>b DEF SoundVisit
    <3>2. r.rows[r.log] \in Seq(TrailRows)
      BY <1>t
    <3>3. DOMAIN r.rows[r.log] = 1..Len(r.rows[r.log]) /\ Len(r.rows[r.log]) \in Nat
      BY <3>2
    <3> QED BY <3>1, <3>3, <2>1, <1>t DEF Points, ToSpill, r
  <2>4. /\ e \in RequestRecords /\ e.op = r.op /\ e.field = r.field /\ e.at = r.at /\ e.settings = r.settings /\ e.rules = r.rules
        /\ e.hooks = r.hooks /\ e.rows = r.rows /\ e.log = r.log /\ e.next = r.next + 1 /\ e.saving = r.saving
    BY <1>b, <2>3, RequestNext
  <2> HIDE DEF e
  <2>5. SoundVisit(i, e)
    BY <1>b, <2>1, <2>3, <2>4 DEF SoundVisit, Unsaved, Spilling
  <2>6. Turns(i, e)
    BY <1>b, <1>t, <2>1, <2>2, <2>3, <2>4, <2>5 DEF Turns, r
  <2>7. TurnsSettings(i, e)
    BY <1>b, <1>t, <2>1, <2>3, <2>4 DEF TurnsSettings, SoundVisit, Unsaved, Spilling, r
  <2>8. TurnsHooks(i, e)
    BY <1>b, <1>t, <2>1, <2>3, <2>4 DEF TurnsHooks, SoundVisit, r
  <2>9. TurnsCoins(i, e)
    BY <1>t, <2>1, <2>3, <2>4 DEF TurnsCoins, CoinOf, r
  <2>10. SkipsRow(i, e)
    BY <1>b, <1>t, <1>g, <2>1, <2>3, <2>4 DEF SkipsRow, SameSpill, SoundVisit, Unsaved, Spilling, ToSpill, RowDue, r
  <2> QED BY <2>4, <2>6, <2>7, <2>8, <2>9, <2>10 DEF Moves, TurnsLogs
<1>17. CASE SgChecks(i) /\ IdOf(RowDue(i)) \notin sgSeen
  <2> DEFINE e == [r EXCEPT !.at = "push"]
  <2>1. r.at = "check" /\ r.next <= Len(ToSpill(i)) /\ IdOf(RowDue(i)) \notin sgSeen /\ UNCHANGED <<sgSettings, sgRules, sgHooks, sgLogs, sgSeen, sgFunded, sgMarks, sgCredits, sgBefore, sgTorn, sgLapsed>>
    BY <1>17, <1>t DEF SgChecks, SgAt, SgKept, r
  <2>2. sgReq' = [sgReq EXCEPT ![i] = e]
    BY <1>17, <1>b DEF SgChecks, SgGoes, r
  <2>3. "push" \in Points /\ r.next \in DOMAIN r.rows[r.log]
    <3>1. r.next >= 1
      BY <1>b DEF SoundVisit
    <3>2. r.rows[r.log] \in Seq(TrailRows)
      BY <1>t
    <3>3. DOMAIN r.rows[r.log] = 1..Len(r.rows[r.log]) /\ Len(r.rows[r.log]) \in Nat
      BY <3>2
    <3> QED BY <3>1, <3>3, <2>1, <1>t DEF Points, ToSpill, r
  <2>4. /\ e \in RequestRecords /\ e.op = r.op /\ e.field = r.field /\ e.at = "push" /\ e.settings = r.settings /\ e.rules = r.rules
        /\ e.hooks = r.hooks /\ e.rows = r.rows /\ e.log = r.log /\ e.next = r.next /\ e.saving = r.saving
    BY <1>b, <2>3, RequestAt
  <2> HIDE DEF e
  <2>5. SoundVisit(i, e)
    BY <1>b, <2>1, <2>3, <2>4 DEF SoundVisit, Unsaved, Spilling
  <2>6. Turns(i, e)
    BY <1>b, <1>t, <2>1, <2>2, <2>3, <2>4, <2>5 DEF Turns, r
  <2>7. TurnsSettings(i, e)
    BY <1>b, <1>t, <2>1, <2>3, <2>4 DEF TurnsSettings, SoundVisit, Unsaved, Spilling, r
  <2>8. TurnsHooks(i, e)
    BY <1>b, <1>t, <2>1, <2>3, <2>4 DEF TurnsHooks, SoundVisit, r
  <2>9. TurnsCoins(i, e)
    BY <1>t, <2>1, <2>3, <2>4 DEF TurnsCoins, CoinOf, r
  <2>10. AimsAtRow(i, e)
    BY <1>b, <1>t, <1>g, <2>1, <2>3, <2>4 DEF AimsAtRow, SameSpill, SoundVisit, Unsaved, Spilling, ToSpill, RowDue, r
  <2> QED BY <2>4, <2>6, <2>7, <2>8, <2>9, <2>10 DEF Moves, TurnsLogs
<1>18. CASE SgPushes(i)
  <2> DEFINE e == [r EXCEPT !.at = "note"]
  <2>1. r.at = "push" /\ sgLogs' = [sgLogs EXCEPT ![r.log] = <<RowDue(i)>> \o @] /\ UNCHANGED <<sgSettings, sgRules, sgHooks, sgSeen, sgFunded, sgMarks, sgCredits, sgBefore, sgTorn, sgLapsed>>
    BY <1>18, <1>t DEF SgPushes, SgAt, SgKept, r
  <2>2. sgReq' = [sgReq EXCEPT ![i] = e]
    BY <1>18, <1>b DEF SgPushes, SgGoes, r
  <2>3. "note" \in Points
    BY <1>t, <1>b, <2>1 DEF Points, Logs, r
  <2>4. /\ e \in RequestRecords /\ e.op = r.op /\ e.field = r.field /\ e.at = "note" /\ e.settings = r.settings /\ e.rules = r.rules
        /\ e.hooks = r.hooks /\ e.rows = r.rows /\ e.log = r.log /\ e.next = r.next /\ e.saving = r.saving
    BY <1>b, <2>3, RequestAt
  <2> HIDE DEF e
  <2>5. SoundVisit(i, e)
    BY <1>b, <2>1, <2>3, <2>4 DEF SoundVisit, Unsaved, Spilling
  <2>6. Turns(i, e)
    BY <1>b, <1>t, <2>1, <2>2, <2>3, <2>4, <2>5 DEF Turns, r
  <2>7. TurnsSettings(i, e)
    BY <1>b, <1>t, <2>1, <2>3, <2>4 DEF TurnsSettings, SoundVisit, Unsaved, Spilling, r
  <2>8. TurnsHooks(i, e)
    BY <1>b, <1>t, <2>1, <2>3, <2>4 DEF TurnsHooks, SoundVisit, r
  <2>9. TurnsCoins(i, e)
    BY <1>t, <2>1, <2>3, <2>4 DEF TurnsCoins, CoinOf, r
  <2>10. PushesRow(i, e)
    BY <1>b, <1>t, <1>g, <2>1, <2>3, <2>4 DEF PushesRow, SameSpill, SoundVisit, Unsaved, Spilling, ToSpill, RowDue, r
  <2> QED BY <2>4, <2>6, <2>7, <2>8, <2>9, <2>10 DEF Moves, TurnsLogs
<1>19. CASE SgNotes(i)
  <2> DEFINE e1 == [r EXCEPT !.at = "check"]
             e == [e1 EXCEPT !.next = r.next + 1]
  <2>1. r.at = "note" /\ sgSeen' = sgSeen \cup {IdOf(RowDue(i))} /\ UNCHANGED <<sgSettings, sgRules, sgHooks, sgLogs, sgFunded, sgMarks, sgCredits, sgBefore, sgTorn, sgLapsed>>
    BY <1>19, <1>t DEF SgNotes, SgAt, SgKept, r
  <2>2. sgReq' = [sgReq EXCEPT ![i] = e]
    BY <1>19, <1>b DEF SgNotes, SgGoes, r
  <2>3. "check" \in Points /\ r.next + 1 \in Nat /\ r.next >= 1 /\ r.next + 1 >= 1
    <3>1. r.next >= 1
      BY <1>b DEF SoundVisit
    <3> QED BY <3>1, <1>t DEF Points
  <2>4. /\ e \in RequestRecords /\ e.op = r.op /\ e.field = r.field /\ e.at = "check" /\ e.settings = r.settings /\ e.rules = r.rules
        /\ e.hooks = r.hooks /\ e.rows = r.rows /\ e.log = r.log /\ e.next = r.next + 1 /\ e.saving = r.saving
    <3>1. /\ e1 \in RequestRecords /\ e1.op = r.op /\ e1.field = r.field /\ e1.at = "check" /\ e1.settings = r.settings /\ e1.rules = r.rules
          /\ e1.hooks = r.hooks /\ e1.rows = r.rows /\ e1.log = r.log /\ e1.next = r.next /\ e1.saving = r.saving
      BY <1>b, <1>t, <2>3, RequestAt
    <3> HIDE DEF e1
    <3> QED BY <1>t, <2>3, <3>1, RequestNext
  <2> HIDE DEF e
  <2>5. SoundVisit(i, e)
    BY <1>b, <2>1, <2>3, <2>4 DEF SoundVisit, Unsaved, Spilling
  <2>6. Turns(i, e)
    BY <1>b, <1>t, <2>1, <2>2, <2>3, <2>4, <2>5 DEF Turns, r
  <2>7. TurnsSettings(i, e)
    BY <1>b, <1>t, <2>1, <2>3, <2>4 DEF TurnsSettings, SoundVisit, Unsaved, Spilling, r
  <2>8. TurnsHooks(i, e)
    BY <1>b, <1>t, <2>1, <2>3, <2>4 DEF TurnsHooks, SoundVisit, r
  <2>9. TurnsCoins(i, e)
    BY <1>t, <2>1, <2>3, <2>4 DEF TurnsCoins, CoinOf, r
  <2>10. NotesRow(i, e)
    BY <1>b, <1>t, <1>g, <2>1, <2>3, <2>4 DEF NotesRow, SameSpill, SoundVisit, Unsaved, Spilling, ToSpill, RowDue, r
  <2> QED BY <2>4, <2>6, <2>7, <2>8, <2>9, <2>10 DEF Moves, TurnsLogs
<1>20. CASE SgTrims(i)
  <2> DEFINE g == IF r.saving THEN "deliveries" ELSE "audit"
             a == CASE ~r.saving -> "handler" [] r.saving /\ r.log = "audit" -> "check" [] OTHER -> "done"
             e1 == [r EXCEPT !.next = 1]
             e2 == [e1 EXCEPT !.log = g]
             e == [e2 EXCEPT !.at = a]
  <2>1. r.at = "check" /\ r.next > Len(ToSpill(i)) /\ (sgLogs' = sgLogs \/ sgLogs' = [sgLogs EXCEPT ![r.log] = Capped(@)]) /\ UNCHANGED <<sgSettings, sgRules, sgHooks, sgSeen, sgFunded, sgMarks, sgCredits, sgBefore, sgTorn, sgLapsed>>
    BY <1>20, <1>t DEF SgTrims, SgAt, SgKept, r
  <2>2. sgReq' = [sgReq EXCEPT ![i] = e]
    <3>1. sgReq' = [sgReq EXCEPT ![i].next = 1, ![i].log = g, ![i].at = a]
      <4>1. /\ g = IF sgReq[i].saving THEN "deliveries" ELSE "audit"
            /\ a = CASE ~sgReq[i].saving -> "handler" [] sgReq[i].saving /\ sgReq[i].log = "audit" -> "check" [] OTHER -> "done"
        BY DEF r
      <4> HIDE DEF g, a
      <4> QED BY <1>20, <4>1 DEF SgTrims
    <3> HIDE DEF g, a
    <3> QED BY <3>1, <1>b DEF r
  <2>3. /\ 1 \in Nat /\ g \in Logs /\ a \in Points /\ (r.saving => g = "deliveries" /\ r.op \in {"look", "edit"}) /\ (~r.saving => g = "audit" /\ a = "handler")
        /\ r.saving => a \in {"check", "done"} /\ (a = "done" => r.log = "deliveries")
    <3>1. r.saving => r.op \in {"look", "edit"}
      BY <1>b DEF SoundVisit
    <3>2. CASE ~r.saving
      <4>1. a = "handler" /\ g = "audit"
        BY <3>2
      <4> HIDE DEF a, g
      <4> QED BY <4>1, <3>2 DEF Points, Logs
    <3>3. CASE r.saving /\ r.log = "audit"
      BY <3>1, <3>3 DEF Points, Logs
    <3>4. CASE r.saving /\ r.log # "audit"
      <4>1. a = "done" /\ g = "deliveries" /\ r.log = "deliveries"
        BY <3>4, <1>t DEF Logs
      <4> HIDE DEF a, g
      <4> QED BY <4>1, <3>1, <3>4 DEF Points, Logs
    <3> QED BY <3>2, <3>3, <3>4, <1>t
  <2> HIDE DEF g, a
  <2>4. /\ e \in RequestRecords /\ e.op = r.op /\ e.field = r.field /\ e.at = a /\ e.settings = r.settings /\ e.rules = r.rules
        /\ e.hooks = r.hooks /\ e.rows = r.rows /\ e.log = g /\ e.next = 1 /\ e.saving = r.saving
    <3>1. /\ e1 \in RequestRecords /\ e1.op = r.op /\ e1.field = r.field /\ e1.at = r.at /\ e1.settings = r.settings /\ e1.rules = r.rules
          /\ e1.hooks = r.hooks /\ e1.rows = r.rows /\ e1.log = r.log /\ e1.next = 1 /\ e1.saving = r.saving
      BY <1>b, <1>t, <2>3, RequestNext
    <3> HIDE DEF e1
    <3>2. /\ e2 \in RequestRecords /\ e2.op = r.op /\ e2.field = r.field /\ e2.at = r.at /\ e2.settings = r.settings /\ e2.rules = r.rules
          /\ e2.hooks = r.hooks /\ e2.rows = r.rows /\ e2.log = g /\ e2.next = 1 /\ e2.saving = r.saving
      BY <1>b, <1>t, <2>3, <3>1, RequestLog
    <3> HIDE DEF e2
    <3> QED BY <1>t, <2>3, <3>2, RequestAt
  <2> HIDE DEF e
  <2>5. SoundVisit(i, e)
    BY <1>b, <2>1, <2>3, <2>4 DEF SoundVisit, Unsaved, Spilling
  <2>6. Turns(i, e)
    BY <1>b, <1>t, <2>1, <2>2, <2>3, <2>4, <2>5 DEF Turns, r
  <2>7. TurnsSettings(i, e)
    BY <1>b, <1>t, <2>1, <2>3, <2>4 DEF TurnsSettings, SoundVisit, Unsaved, Spilling, r
  <2>8. TurnsHooks(i, e)
    BY <1>b, <1>t, <2>1, <2>3, <2>4 DEF TurnsHooks, SoundVisit, r
  <2>9. TurnsCoins(i, e)
    BY <1>t, <2>1, <2>3, <2>4 DEF TurnsCoins, CoinOf, r
  <2>10. TrimsLog(i, e)
    BY <1>b, <1>t, <1>g, <2>1, <2>3, <2>4 DEF TrimsLog, SameSpill, SoundVisit, Unsaved, Spilling, ToSpill, RowDue, r
  <2> QED BY <2>4, <2>6, <2>7, <2>8, <2>9, <2>10 DEF Moves, TurnsLogs
<1>21. CASE SgEdits(i)
  <2> DEFINE s == [r.settings EXCEPT ![r.field] = i]
             w == WithRow(i, "audit")
             e1 == [r EXCEPT !.at = "settings"]
             e2 == [e1 EXCEPT !.settings = s]
             e == [e2 EXCEPT !.rows = w]
  <2>1. r.at = "handler" /\ r.op = "edit" /\ UNCHANGED <<sgSettings, sgRules, sgHooks, sgLogs, sgSeen, sgFunded, sgMarks, sgCredits, sgBefore, sgTorn, sgLapsed>>
    BY <1>21, <1>t DEF SgEdits, SgAt, SgKept, r
  <2>2. sgReq' = [sgReq EXCEPT ![i] = e]
    BY <1>21, <1>b DEF SgEdits, SgGoes, r
  <2>3. /\ "settings" \in Points /\ s \in [Fields -> Setter] /\ s = [r.settings EXCEPT ![r.field] = i] /\ w \in [Logs -> Seq(TrailRows)] /\ w["deliveries"] = r.rows["deliveries"]
        /\ \A l \in Logs : \A k \in DOMAIN w[l] : w[l][k] = [log |-> l, by |-> i, n |-> k, to |-> IF l = "audit" THEN Nothing ELSE r.hooks]
        /\ \A l \in Logs : \A k \in DOMAIN r.rows[l] : k \in DOMAIN w[l] /\ w[l][k] = r.rows[l][k]
        /\ r.settings[r.field] \in Setter /\ s[r.field] = i
    <3> DEFINE R == r.rows["audit"]
               row == [log |-> "audit", by |-> i, n |-> Len(R) + 1, to |-> Nothing]
    <3>0. "audit" \in Logs /\ "deliveries" \in Logs
      BY DEF Logs
    <3>1. R \in Seq(TrailRows) /\ Len(R) \in Nat /\ DOMAIN R = 1..Len(R)
      BY <1>t, <3>0
    <3>2. Row(i, "audit") = row
      BY DEF Row, r
    <3>3. row \in TrailRows
      BY <3>0, <3>1 DEF TrailRows, Setter
    <3>4. w = [r.rows EXCEPT !["audit"] = Append(R, row)]
      BY <3>2 DEF WithRow, r
    <3> DEFINE A == Append(R, row)
    <3>5. A \in Seq(TrailRows) /\ DOMAIN A = 1..(Len(R) + 1) /\ A[Len(R) + 1] = row /\ \A k \in 1..Len(R) : A[k] = R[k]
      <4> HIDE DEF R, row
      <4> QED BY <3>1, <3>3
    <3>6. \A k \in 1..(Len(R) + 1) : k \in 1..Len(R) \/ k = Len(R) + 1
      BY <3>1
    <3>7. w \in [Logs -> Seq(TrailRows)] /\ w["audit"] = A /\ \A l \in Logs : l # "audit" => w[l] = r.rows[l]
      <4> HIDE DEF w, A
      <4>1. w = [r.rows EXCEPT !["audit"] = A]
        BY <3>4 DEF A
      <4> HIDE DEF R, row
      <4> QED BY <4>1, <3>0, <3>5, <1>t
    <3>8. \A l \in Logs : \A k \in DOMAIN r.rows[l] :
             r.rows[l][k] = [log |-> l, by |-> i, n |-> k, to |-> IF l = "audit" THEN Nothing ELSE r.hooks]
      BY <1>b DEF SoundVisit
    <3> HIDE DEF w, A
    <3>9. ASSUME NEW k \in DOMAIN A PROVE A[k] = [log |-> "audit", by |-> i, n |-> k, to |-> Nothing]
      <4>1. CASE k \in 1..Len(R)
        BY <4>1, <3>0, <3>1, <3>5, <3>8
      <4>2. CASE k = Len(R) + 1
        BY <4>2, <3>5
      <4> QED BY <4>1, <4>2, <3>5, <3>6
    <3>10. \A l \in Logs : \A k \in DOMAIN w[l] : w[l][k] = [log |-> l, by |-> i, n |-> k, to |-> IF l = "audit" THEN Nothing ELSE r.hooks]
      <4> SUFFICES ASSUME NEW l \in Logs, NEW k \in DOMAIN w[l]
                   PROVE  w[l][k] = [log |-> l, by |-> i, n |-> k, to |-> IF l = "audit" THEN Nothing ELSE r.hooks]
        OBVIOUS
      <4>1. CASE l = "audit"
        <5> HIDE DEF R, row
        <5> QED BY <4>1, <3>7, <3>9
      <4>2. CASE l # "audit"
        BY <4>2, <3>7, <3>8
      <4> QED BY <4>1, <4>2
    <3>11. \A l \in Logs : \A k \in DOMAIN r.rows[l] : k \in DOMAIN w[l] /\ w[l][k] = r.rows[l][k]
      <4> SUFFICES ASSUME NEW l \in Logs, NEW k \in DOMAIN r.rows[l] PROVE k \in DOMAIN w[l] /\ w[l][k] = r.rows[l][k]
        OBVIOUS
      <4>1. CASE l = "audit"
        BY <4>1, <3>1, <3>5, <3>7
      <4>2. CASE l # "audit"
        BY <4>2, <3>7
      <4> QED BY <4>1, <4>2
    <3>12. s \in [Fields -> Setter] /\ s[r.field] = i /\ r.settings[r.field] \in Setter
      BY <1>t DEF Setter
    <3>13. w["deliveries"] = r.rows["deliveries"]
      BY <3>0, <3>7
    <3> HIDE DEF R, row, s
    <3>14. s = [r.settings EXCEPT ![r.field] = i]
      BY DEF s
    <3> QED BY <3>7, <3>10, <3>11, <3>12, <3>13, <3>14 DEF Points
  <2> HIDE DEF s, w
  <2>4. /\ e \in RequestRecords /\ e.op = r.op /\ e.field = r.field /\ e.at = "settings" /\ e.settings = s /\ e.rules = r.rules
        /\ e.hooks = r.hooks /\ e.rows = w /\ e.log = r.log /\ e.next = r.next /\ e.saving = r.saving
    <3>1. /\ e1 \in RequestRecords /\ e1.op = r.op /\ e1.field = r.field /\ e1.at = "settings" /\ e1.settings = r.settings /\ e1.rules = r.rules
          /\ e1.hooks = r.hooks /\ e1.rows = r.rows /\ e1.log = r.log /\ e1.next = r.next /\ e1.saving = r.saving
      BY <1>b, <1>t, <2>3, RequestAt
    <3> HIDE DEF e1
    <3>2. /\ e2 \in RequestRecords /\ e2.op = r.op /\ e2.field = r.field /\ e2.at = "settings" /\ e2.settings = s /\ e2.rules = r.rules
          /\ e2.hooks = r.hooks /\ e2.rows = r.rows /\ e2.log = r.log /\ e2.next = r.next /\ e2.saving = r.saving
      <4>1. s \in [Fields -> Setter]
        BY <2>3
      <4> QED BY <3>1, <4>1, RequestSettings
    <3> HIDE DEF e2
    <3> QED BY <1>t, <2>3, <3>2, RequestRows
  <2> HIDE DEF e
  <2>5. SoundVisit(i, e)
    BY <1>b, <2>1, <2>3, <2>4 DEF SoundVisit, Unsaved, Spilling
  <2>6. Turns(i, e)
    BY <1>b, <1>t, <2>1, <2>2, <2>3, <2>4, <2>5 DEF Turns, r
  <2>7. TurnsSettings(i, e)
    BY <1>b, <1>t, <2>1, <2>3, <2>4 DEF TurnsSettings, SoundVisit, Unsaved, Spilling, r
  <2>8. TurnsHooks(i, e)
    BY <1>b, <1>t, <2>1, <2>3, <2>4 DEF TurnsHooks, SoundVisit, r
  <2>9. TurnsCoins(i, e)
    BY <1>t, <2>1, <2>3, <2>4 DEF TurnsCoins, CoinOf, r
  <2>10. LeavesLogs(i, e)
    BY <1>b, <1>t, <1>g, <2>1, <2>3, <2>4 DEF LeavesLogs, SameSpill, SoundVisit, Unsaved, Spilling, ToSpill, RowDue, Grown, r
  <2> QED BY <2>4, <2>6, <2>7, <2>8, <2>9, <2>10 DEF Moves, TurnsLogs
<1> QED BY <1>1, <1>2, <1>3, <1>4, <1>5, <1>6, <1>7, <1>8, <1>9, <1>10, <1>11, <1>12, <1>13, <1>14, <1>15, <1>16, <1>17, <1>18, <1>19, <1>20, <1>21 DEF VisitSteps, SgChecks

\* What a step of request i leaves of the others.
LEMMA OthersStay ==
  ASSUME SgInv, NEW i, NEW e, Turns(i, e)
  PROVE  /\ i \in Begun /\ i \in Visits /\ Begun' = Begun /\ Over \subseteq Over' /\ i \notin Over
         /\ sgReq'[i] = e /\ \A j \in Begun : j # i => sgReq'[j] = sgReq[j]
         /\ sgReq[i] \in RequestRecords /\ sgReq' \in [Begun -> RequestRecords]
         /\ \A j \in Begun : sgReq'[j].op = sgReq[j].op /\ sgReq'[j].field = sgReq[j].field
         /\ \A j \in Visits : i \notin sgBefore[j]
         /\ \A j : Apart(j)' = Apart(j)
<1>1. i \in Begun /\ i \in Visits /\ i \notin Over /\ sgReq[i] \in RequestRecords
  BY DEF Turns, SgInv, SgTypes
<1>2. sgReq' \in [Begun -> RequestRecords] /\ sgReq'[i] = e /\ \A j \in Begun : j # i => sgReq'[j] = sgReq[j]
  BY <1>1 DEF Turns, SgInv, SgTypes
<1>3. Begun' = Begun
  BY <1>2 DEF Begun
<1>4. \A j \in Begun : sgReq'[j].op = sgReq[j].op /\ sgReq'[j].field = sgReq[j].field
  BY <1>2 DEF Turns
<1>5. Over \subseteq Over'
  BY <1>1, <1>2, <1>3 DEF Over
<1>6. \A j \in Visits : i \notin sgBefore[j]
  BY <1>1 DEF SgInv, BeforeIsOver
<1>7. \A j : Apart(j)' = Apart(j)
  BY <1>3 DEF Apart, Overlapped, Turns
<1> QED BY <1>1, <1>2, <1>3, <1>4, <1>5, <1>6, <1>7

LEMMA BeforeStep ==
  ASSUME SgInv, NEW i, NEW e, Moves(i, e)
  PROVE  BeforeIsOver' /\ \A j \in Begun' : VisitSound(j)'
<1>m. Turns(i, e)
  BY DEF Moves
<1>1. BeforeIsOver'
  BY <1>m, OthersStay DEF SgInv, BeforeIsOver, Turns
<1>2. ASSUME NEW j \in Begun' PROVE VisitSound(j)'
  <2>1. CASE j = i
    BY <2>1, <1>m, OthersStay DEF VisitSound, Turns
  <2>2. CASE j # i
    BY <2>2, <1>m, OthersStay DEF SgInv, VisitSound
  <2> QED BY <2>1, <2>2
<1> QED BY <1>1, <1>2

\* An edit that no other overlapped was loaded by whoever saves after it, and so were the rules.
LEMMA SettingsStep ==
  ASSUME SgInv, NEW i, NEW e, Moves(i, e)
  PROVE  \A j \in Begun' : EditHolds(j)' /\ RulesHold(j)'
<1> DEFINE r == sgReq[i]
<1>m. Turns(i, e) /\ TurnsSettings(i, e) /\ SoundVisit(i, r)
  BY OthersStay DEF Moves, SgInv, VisitSound
<1>o. /\ i \in Begun /\ i \in Visits /\ Begun' = Begun /\ i \notin Over
      /\ sgReq'[i] = e /\ \A j \in Begun : j # i => sgReq'[j] = sgReq[j]
      /\ r \in RequestRecords /\ e \in RequestRecords
      /\ \A j \in Begun : sgReq'[j].op = sgReq[j].op /\ sgReq'[j].field = sgReq[j].field
      /\ \A j \in Begun : i \notin sgBefore[j] /\ j \in Visits
      /\ \A j : Apart(j)' = Apart(j)
      /\ sgBefore' = sgBefore /\ e.op = r.op /\ e.field = r.field
  BY <1>m, OthersStay DEF Turns, SgInv, SgTypes
<1>t. r.settings \in [Fields -> Setter] /\ r.field \in Fields /\ r.rules \in Builds /\ Nothing \notin Builds /\ sgSettings \in [Fields -> Setter]
  BY <1>o, SharedAssumption DEF RequestRecords, SgInv, SgTypes
<1>s. /\ sgSettings' = IF r.at = "settings" /\ e.at = "rules" THEN r.settings ELSE sgSettings
      /\ e.settings = IF r.at = "load" /\ e.at = "sweep" THEN sgSettings
                      ELSE IF r.op = "edit" /\ e.at = "settings" THEN [r.settings EXCEPT ![r.field] = i]
                      ELSE r.settings
      /\ e.at = "rules" => r.at = "settings"
      /\ e.at = "settings" => r.at = "handler"
      /\ (e.saving => r.saving \/ r.at = "rules") /\ (r.saving => e.saving)
      /\ sgRules' = IF r.at = "rules" /\ e.saving THEN r.rules ELSE sgRules
      /\ e.rules = IF r.at = "load" /\ e.at = "sweep" /\ sgRules # Nothing THEN sgRules ELSE r.rules
      /\ r.at = "load" => e.at \in {"sweep", "broken"}
      /\ r.at # "broken" /\ e.at # "load"
  BY <1>m DEF TurnsSettings
<1>v. /\ r.at \in Unsaved => ~r.saving
      /\ r.saving => r.at \in Spilling \cup {"done", "broken"}
  BY <1>m DEF SoundVisit
<1> HIDE DEF r
<1>1. ASSUME NEW j \in Begun PROVE EditHolds(j)'
  <2> DEFINE q == sgReq[j]
             Later == \E x \in Begun : j \in sgBefore[x] /\ sgReq[x].op = "edit" /\ sgReq[x].field = q.field
             Holds2 == sgSettings[q.field] = j /\ \A x \in Begun : j \in sgBefore[x] => sgReq[x].settings[q.field] = j
  <2>h. /\ q.op = "edit" /\ q.at \in {"settings", "rules"} => q.settings[q.field] = j
        /\ q.op = "edit" /\ (q.at = "rules" \/ q.saving) /\ Apart(j) /\ ~Later => Holds2
    BY DEF SgInv, EditHolds
  <2>1. ASSUME q.op = "edit", sgReq'[j].at \in {"settings", "rules"} PROVE sgReq'[j].settings[q.field] = j
    <3>1. CASE j = i
      BY <3>1, <2>1, <2>h, <1>o, <1>s, <1>t DEF r
    <3>2. CASE j # i
      BY <3>2, <2>1, <2>h, <1>o
    <3> QED BY <3>1, <3>2
  <2>2. ASSUME q.op = "edit", sgReq'[j].at = "rules" \/ sgReq'[j].saving, Apart(j), ~Later
        PROVE  sgSettings'[q.field] = j /\ \A x \in Begun : j \in sgBefore[x] => sgReq'[x].settings[q.field] = j
    <3>1. CASE j = i
      <4>1. \A x \in Begun : j \notin sgBefore[x]
        BY <3>1, <1>o
      <4>2. CASE r.at = "settings" /\ e.at = "rules"
        <5>1. q.settings[q.field] = j
          BY <4>2, <3>1, <2>2, <2>h DEF r
        <5> QED BY <5>1, <4>1, <4>2, <3>1, <1>s DEF r
      <4>3. CASE ~(r.at = "settings" /\ e.at = "rules")
        <5>1. r.at = "rules" \/ r.saving
          BY <4>3, <3>1, <2>2, <1>o, <1>s
        <5> QED BY <5>1, <4>1, <4>3, <3>1, <2>2, <2>h, <1>s DEF r
      <4> QED BY <4>2, <4>3
    <3>2. CASE j # i
      <4>1. Holds2
        BY <3>2, <2>2, <2>h, <1>o
      <4>2. sgSettings'[q.field] = j
        <5>1. CASE r.at = "settings" /\ e.at = "rules"
          <6>1. j \in sgBefore[i]
            BY <3>2, <2>2, <1>o DEF Apart, Overlapped
          <6> QED BY <6>1, <5>1, <4>1, <1>o, <1>s DEF r
        <5>2. CASE ~(r.at = "settings" /\ e.at = "rules")
          BY <5>2, <4>1, <1>s
        <5> QED BY <5>1, <5>2
      <4>3. ASSUME NEW x \in Begun, j \in sgBefore[x] PROVE sgReq'[x].settings[q.field] = j
        <5>1. CASE x # i
          BY <5>1, <4>3, <4>1, <1>o
        <5>2. CASE x = i
          <6>1. r.settings[q.field] = j /\ sgSettings[q.field] = j
            BY <5>2, <4>1, <4>3 DEF r
          <6>2. ~(r.op = "edit" /\ r.field = q.field)
            BY <5>2, <4>3, <2>2 DEF r
          <6>3. r.op = "edit" => [r.settings EXCEPT ![r.field] = i][q.field] = j
            BY <6>1, <6>2, <1>t
          <6> QED BY <6>1, <6>3, <5>2, <1>o, <1>s
        <5> QED BY <5>1, <5>2
      <4> QED BY <4>2, <4>3
    <3> QED BY <3>1, <3>2
  <2> QED BY <2>1, <2>2, <1>o DEF EditHolds
<1>2. ASSUME NEW j \in Begun PROVE RulesHold(j)'
  <2>h. sgReq[j].saving /\ Apart(j) =>
           /\ sgRules = sgReq[j].rules
           /\ \A x \in Begun : j \in sgBefore[x] /\ sgReq[x].at \notin {"load", "broken"} => sgReq[x].rules = sgReq[j].rules
    BY DEF SgInv, RulesHold
  <2>b. sgReq[j].rules \in Builds
    BY DEF SgInv, SgTypes, RequestRecords
  <2> SUFFICES ASSUME sgReq'[j].saving, Apart(j)
               PROVE  /\ sgRules' = sgReq'[j].rules
                      /\ \A x \in Begun : j \in sgBefore[x] /\ sgReq'[x].at \notin {"load", "broken"} => sgReq'[x].rules = sgReq'[j].rules
    BY <1>o DEF RulesHold
  <2>1. CASE j = i
    <3>1. \A x \in Begun : j \notin sgBefore[x]
      BY <2>1, <1>o
    <3>2. e.saving /\ r.at # "load" /\ e.rules = r.rules
      BY <2>1, <1>o, <1>s, <1>v DEF Unsaved, Spilling
    <3>3. CASE r.at = "rules"
      BY <3>1, <3>2, <3>3, <2>1, <1>o, <1>s
    <3>4. CASE r.at # "rules"
      BY <3>1, <3>2, <3>4, <2>1, <2>h, <1>o, <1>s DEF r
    <3> QED BY <3>3, <3>4
  <2>2. CASE j # i
    <3>1. /\ sgReq'[j] = sgReq[j] /\ sgRules = sgReq[j].rules
          /\ \A x \in Begun : j \in sgBefore[x] /\ sgReq[x].at \notin {"load", "broken"} => sgReq[x].rules = sgReq[j].rules
      BY <2>2, <2>h, <1>o
    <3>2. sgRules' = sgReq[j].rules
      <4>1. CASE r.at = "rules" /\ e.saving
        <5>1. j \in sgBefore[i]
          BY <2>2, <1>o DEF Apart, Overlapped
        <5>2. r.rules = sgReq[j].rules
          BY <5>1, <4>1, <3>1, <1>o DEF r
        <5> QED BY <5>2, <4>1, <1>s
      <4>2. CASE ~(r.at = "rules" /\ e.saving)
        BY <4>2, <3>1, <1>s
      <4> QED BY <4>1, <4>2
    <3>3. ASSUME NEW x \in Begun, j \in sgBefore[x], sgReq'[x].at \notin {"load", "broken"} PROVE sgReq'[x].rules = sgReq[j].rules
      <4>1. CASE x # i
        BY <4>1, <3>3, <3>1, <1>o
      <4>2. CASE x = i /\ r.at = "load"
        BY <4>2, <3>1, <3>3, <2>b, <1>o, <1>s, <1>t
      <4>3. CASE x = i /\ r.at # "load"
        BY <4>3, <3>1, <3>3, <1>o, <1>s DEF r
      <4> QED BY <4>1, <4>2, <4>3
    <3> QED BY <3>1, <3>2, <3>3
  <2> QED BY <2>1, <2>2
<1> QED BY <1>1, <1>2, <1>o

\* A put of the webhook settings is seen by whoever begins after it.
LEMMA HooksStep ==
  ASSUME SgInv, NEW i, NEW e, Moves(i, e)
  PROVE  HooksSound' /\ \A j \in Begun' : HooksLoaded(j)'
<1> DEFINE r == sgReq[i]
<1>o. /\ i \in Begun /\ i \in Visits /\ Begun' = Begun /\ i \notin Over
      /\ sgReq'[i] = e /\ \A j \in Begun : j # i => sgReq'[j] = sgReq[j]
      /\ \A j \in Begun : i \notin sgBefore[j] /\ j \in Visits
      /\ sgBefore' = sgBefore /\ e.op = r.op /\ SoundVisit(i, r) /\ SoundVisit(i, e)
      /\ \A j \in Begun : sgBefore[j] \subseteq Over
      /\ Nothing \notin Visits /\ TurnsSettings(i, e) /\ TurnsHooks(i, e)
  BY OthersStay, SharedAssumption DEF Moves, Turns, SgInv, SgTypes, BeforeIsOver, VisitSound
<1>b. \A j \in Begun : \A x \in sgBefore[j] : x \in Begun /\ sgReq'[x] = sgReq[x]
  BY <1>o DEF Over
<1>s. /\ sgHooks' = IF e.at = "hookaudit" THEN i ELSE sgHooks
      /\ e.hooks = IF r.at = "load" /\ e.at = "sweep" THEN sgHooks ELSE r.hooks
      /\ r.at = "load" => e.rows = r.rows
      /\ e.op = "hook" /\ e.at = "done" => r.at = "hookaudit"
      /\ r.at = "load" => e.at \in {"sweep", "broken"}
      /\ r.at # "broken" /\ e.at # "load"
  BY <1>o DEF TurnsHooks, TurnsSettings
<1>v. r.at = "load" => r.rows["deliveries"] = <<>>
  BY <1>o DEF SoundVisit, Logs
<1> HIDE DEF r
<1>1. ASSUME NEW j \in Begun, sgReq'[j].op = "hook", sgReq'[j].at \in {"hookaudit", "done"}
      PROVE  Since(sgHooks, j)'
  <2>1. CASE e.at = "hookaudit"
    BY <2>1, <1>o, <1>s DEF Since
  <2>2. CASE e.at # "hookaudit"
    <3>1. sgReq[j].op = "hook" /\ sgReq[j].at \in {"hookaudit", "done"}
      BY <2>2, <1>1, <1>o, <1>s DEF r
    <3> QED BY <3>1, <2>2, <1>o, <1>s DEF SgInv, HooksSound, Since
  <2> QED BY <2>1, <2>2
<1>2. ASSUME NEW j \in Begun, sgReq'[j].at \notin {"load", "broken"} \/ sgReq'[j].rows["deliveries"] # <<>>,
             NEW x \in sgBefore[j], sgReq'[x].op = "hook", sgReq'[x].at = "done"
      PROVE  Since(sgReq[j].hooks, x)'
  <2>1. x \in Begun /\ sgReq[x].op = "hook" /\ sgReq[x].at = "done"
    BY <1>2, <1>b
  <2>2. CASE j = i /\ r.at = "load"
    <3>1. e.at = "sweep" /\ e.hooks = sgHooks
      BY <2>2, <1>2, <1>o, <1>s, <1>v
    <3> QED BY <3>1, <2>1, <2>2, <1>o DEF SgInv, HooksSound, Since
  <2>3. CASE j = i /\ r.at # "load"
    BY <2>1, <2>3, <1>2, <1>o, <1>s DEF SgInv, HooksLoaded, Since, r
  <2>4. CASE j # i
    BY <2>1, <2>4, <1>2, <1>o DEF SgInv, HooksLoaded, Since
  <2> QED BY <2>2, <2>3, <2>4
<1>3. HooksSound'
  BY <1>1, <1>o DEF HooksSound
<1>4. \A j \in Begun' : HooksLoaded(j)'
  BY <1>2, <1>o DEF HooksLoaded
<1> QED BY <1>3, <1>4

\* The coins of a key are credited by who took it.
LEMMA CoinsStep ==
  ASSUME SgInv, NEW i, NEW e, Moves(i, e)
  PROVE  CoinsSound' /\ sgFunded' \in BOOLEAN /\ sgMarks' \subseteq Coins /\ sgCredits' \in [Coins -> Nat]
<1> DEFINE r == sgReq[i]
<1>p. PICK k \in Coins : k = CoinOf(i)
  BY DEF CoinOf, Coins
<1>o. /\ i \in Begun /\ Begun' = Begun /\ sgReq'[i] = e /\ \A j \in Begun : j # i => sgReq'[j] = sgReq[j]
      /\ sgTorn \subseteq sgTorn' /\ (e.at = "broken" => i \in sgTorn') /\ sgLapsed' = sgLapsed
      /\ e.op = r.op /\ TurnsCoins(i, e) /\ \A j \in Begun : sgReq'[j].op = sgReq[j].op
  BY OthersStay DEF Moves, Turns
<1>t. sgFunded \in BOOLEAN /\ sgMarks \subseteq Coins /\ sgCredits \in [Coins -> Nat] /\ k \in Coins
  BY DEF SgInv, SgTypes
<1>s. /\ sgMarks' = IF r.at = "mark" /\ e.at # "broken" THEN sgMarks \cup {k} ELSE sgMarks
      /\ e.at = "credit" => r.at = "mark" /\ k \notin sgMarks
      /\ sgCredits' = IF r.at = "credit" /\ e.at # "broken" THEN [sgCredits EXCEPT ![k] = @ + 1] ELSE sgCredits
      /\ sgFunded' = (sgFunded \/ (r.at = "fund" /\ e.at = "done"))
      /\ e.at = "fund" => r.op = "login" /\ (r.at = "credit" \/ (r.at = "mark" /\ k \in sgMarks))
      /\ r.at = "mark" /\ e.at # "broken" /\ k \notin sgMarks => e.at = "credit"
      /\ r.at = "fund" => r.op = "login"
  <2>1. SoundVisit(i, r)
    BY <1>o DEF SgInv, VisitSound
  <2> QED BY <2>1, <1>o, <1>p DEF TurnsCoins, SoundVisit
<1>c. /\ \A c \in Coins : \A x, y \in Crediting(c) : x = y
      /\ \A c \in Coins : sgCredits[c] <= Worth(sgMarks, c) + Worth(sgLapsed, c)
      /\ \A c \in Coins : Crediting(c) # {} => c \in sgMarks /\ sgCredits[c] + 1 <= 1 + Worth(sgLapsed, c)
      /\ sgFunded \/ "welcome" \in sgMarks \/ (\E x \in Begun : sgReq[x].op = "login" /\ sgReq[x].at = "fund") => Welcomed
  BY DEF SgInv, CoinsSound
<1>k. \A j \in Begun : CoinOf(j)' = CoinOf(j)
  BY <1>o DEF CoinOf
<1>w. \A S, c : Worth(S, c) \in {0, 1} /\ (c \in S => Worth(S, c) = 1) /\ (c \notin S => Worth(S, c) = 0)
  BY DEF Worth
<1>l. k = "welcome" <=> r.op = "login"
  BY <1>p DEF CoinOf
\* Who credits what.
<1>1. \A c \in Coins : c # k => Crediting(c)' = Crediting(c)
  BY <1>k, <1>p, <1>o DEF Crediting
<1>2. e.at = "credit" => Crediting(k)' = {i} /\ Crediting(k) = {}
  <2> SUFFICES ASSUME e.at = "credit" PROVE Crediting(k)' = {i} /\ Crediting(k) = {}
    OBVIOUS
  <2>1. Crediting(k) = {}
    BY <1>c, <1>s, <1>t
  <2>2. \A j \in Begun : sgReq'[j].at = "credit" /\ CoinOf(j)' = k => j = i
    BY <2>1, <1>k, <1>o DEF Crediting
  <2>3. CoinOf(i)' = k
    BY <1>k, <1>p, <1>o
  <2>4. Crediting(k)' = {i}
    BY <2>2, <2>3, <1>o DEF Crediting
  <2> QED BY <2>1, <2>4
<1>3. e.at # "credit" => Crediting(k)' \subseteq Crediting(k) \ {i}
  BY <1>k, <1>p, <1>o DEF Crediting
<1>4. r.at = "credit" => i \in Crediting(k)
  BY <1>o, <1>p DEF Crediting
<1> HIDE DEF r
<1>5. sgMarks' \subseteq Coins /\ sgCredits' \in [Coins -> Nat] /\ sgFunded' \in BOOLEAN
  BY <1>s, <1>t
<1>6. ASSUME NEW c \in Coins
      PROVE  /\ \A x, y \in Crediting(c)' : x = y
             /\ sgCredits'[c] <= Worth(sgMarks', c) + Worth(sgLapsed, c)
             /\ Crediting(c)' # {} => c \in sgMarks' /\ sgCredits'[c] + 1 <= 1 + Worth(sgLapsed, c)
  <2>n. sgCredits[c] \in Nat /\ Worth(sgLapsed, c) \in Nat /\ Worth(sgMarks, c) \in Nat /\ Worth(sgMarks', c) \in Nat
    BY <1>t, <1>w
  <2>m. Worth(sgMarks, c) <= Worth(sgMarks', c) /\ sgMarks \subseteq sgMarks'
    BY <1>s, <1>w
  <2>1. CASE c # k
    <3>1. Crediting(c)' = Crediting(c) /\ sgCredits'[c] = sgCredits[c]
      BY <2>1, <1>1, <1>s, <1>t
    <3> QED BY <3>1, <2>n, <2>m, <1>c
  <2>2. CASE c = k /\ e.at = "credit"
    <3>1. sgCredits'[c] = sgCredits[c] /\ c \in sgMarks' /\ Worth(sgMarks, c) = 0
      BY <2>2, <1>s, <1>w
    <3>2. \A x, y \in Crediting(c)' : x = y
      BY <2>2, <1>2
    <3>3. sgCredits[c] <= Worth(sgMarks, c) + Worth(sgLapsed, c)
      BY <1>c
    <3> QED BY <3>1, <3>2, <3>3, <2>n, <2>m
  <2>3. CASE c = k /\ e.at # "credit" /\ r.at = "credit"
    <3>1. Crediting(c) = {i} /\ Crediting(c)' = {}
      BY <2>3, <1>3, <1>4, <1>c
    <3>2. c \in sgMarks /\ sgCredits[c] + 1 <= 1 + Worth(sgLapsed, c)
      BY <3>1, <1>c
    <3>3. sgCredits'[c] <= sgCredits[c] + 1
      BY <2>3, <2>n, <1>s, <1>t
    <3>4. sgCredits'[c] \in Nat /\ Worth(sgMarks', c) = 1
      BY <3>2, <2>m, <1>5, <1>w
    <3> QED BY <3>1, <3>2, <3>3, <3>4, <2>n
  <2>4. CASE c = k /\ e.at # "credit" /\ r.at # "credit"
    <3>1. sgCredits'[c] = sgCredits[c] /\ Crediting(c)' \subseteq Crediting(c)
      BY <2>4, <1>3, <1>s
    <3>2. /\ \A x, y \in Crediting(c) : x = y
          /\ sgCredits[c] <= Worth(sgMarks, c) + Worth(sgLapsed, c)
          /\ Crediting(c) # {} => c \in sgMarks /\ sgCredits[c] + 1 <= 1 + Worth(sgLapsed, c)
      BY <1>c
    <3> QED BY <3>1, <3>2, <2>n, <2>m
  <2> QED BY <2>1, <2>2, <2>3, <2>4
\* Whoever was counted as welcomed still is, and who comes to be counted has the coins.
<1>7. Welcomed => Welcomed'
  <2>w. "welcome" \in Coins
    BY DEF Coins
  <2>1. sgCredits["welcome"] \in Nat /\ sgCredits'["welcome"] \in Nat /\ sgCredits'["welcome"] >= sgCredits["welcome"]
    BY <2>w, <1>s, <1>t
  <2>2. CASE sgCredits["welcome"] > 0
    BY <2>1, <2>2 DEF Welcomed
  <2>3. ASSUME NEW x \in Begun, sgReq[x].op = "login", sgReq[x].at = "credit" \/ x \in sgTorn PROVE Welcomed'
    <3>1. CASE x # i \/ x \in sgTorn'
      BY <3>1, <2>3, <1>o DEF Welcomed
    <3>2. CASE x = i /\ x \notin sgTorn'
      <4>1. r.at = "credit" /\ e.at # "broken" /\ k = "welcome"
        BY <3>2, <2>3, <1>l, <1>o DEF r
      <4>2. sgCredits'["welcome"] > 0
        BY <4>1, <2>1, <2>w, <1>s, <1>t
      <4> QED BY <4>2 DEF Welcomed
    <3> QED BY <3>1, <3>2
  <2> QED BY <2>2, <2>3 DEF Welcomed
<1>8. sgFunded' \/ "welcome" \in sgMarks' \/ (\E x \in Begun : sgReq'[x].op = "login" /\ sgReq'[x].at = "fund") => Welcomed'
  <2>0. "welcome" \in sgMarks \/ sgFunded => Welcomed'
    BY <1>7, <1>c
  <2>f. \A x \in Begun : sgReq[x].op = "login" /\ sgReq[x].at = "fund" => Welcomed'
    BY <1>7, <1>c
  <2>l. e.at = "credit" /\ r.op = "login" => Welcomed'
    BY <1>o DEF Welcomed, r
  <2>1. ASSUME "welcome" \in sgMarks' PROVE Welcomed'
    <3>1. CASE "welcome" \in sgMarks
      BY <3>1, <2>0
    <3>2. CASE "welcome" \notin sgMarks
      <4>1. r.at = "mark" /\ e.at # "broken" /\ k = "welcome" /\ r.op = "login"
        BY <3>2, <2>1, <1>l, <1>s
      <4>2. e.at = "credit"
        BY <4>1, <3>2, <1>s
      <4> QED BY <4>1, <4>2, <2>l
    <3> QED BY <3>1, <3>2
  <2>2. ASSUME NEW x \in Begun, sgReq'[x].op = "login", sgReq'[x].at = "fund" PROVE Welcomed'
    <3>1. CASE x # i
      BY <3>1, <2>2, <2>f, <1>o
    <3>2. CASE x = i /\ r.at = "credit"
      <4>1. k = "welcome" /\ i \in Crediting(k) /\ k \in Coins
        BY <3>2, <2>2, <1>l, <1>o, <1>4, <1>t
      <4>2. "welcome" \in sgMarks
        BY <4>1, <1>c
      <4> QED BY <4>2, <2>0
    <3>3. CASE x = i /\ r.at # "credit"
      BY <3>3, <2>2, <2>0, <1>l, <1>o, <1>s
    <3> QED BY <3>1, <3>2, <3>3
  <2>3. ASSUME sgFunded' PROVE Welcomed'
    <3>1. sgFunded \/ (r.at = "fund" /\ e.at = "done")
      BY <2>3, <1>s
    <3> QED BY <3>1, <2>0, <2>f, <1>o, <1>s DEF r
  <2> QED BY <2>1, <2>2, <2>3
<1> QED BY <1>5, <1>6, <1>8, <1>o DEF CoinsSound

(* The logs.  A step leaves a log, puts a row on top of it, or cuts it where it is full.  *)
RowsStay ==
  \A l \in Logs :
    /\ sgLogs'[l] \in Seq(TrailRows) /\ (Full(l) => Full(l)')
    /\ Full(l)' \/ \A m \in DOMAIN sgLogs[l] : \E x \in DOMAIN sgLogs'[l] : sgLogs'[l][x] = sgLogs[l][m]
\* No row but one comes new, and no two rows become one.
RowsCome(l, row) ==
  /\ \A x \in DOMAIN sgLogs'[l] : sgLogs'[l][x] = row \/ \E m \in DOMAIN sgLogs[l] : sgLogs'[l][x] = sgLogs[l][m]
  /\ \A x, y \in DOMAIN sgLogs'[l] : x # y /\ sgLogs'[l][x] = sgLogs'[l][y] =>
       \/ \E m, n \in DOMAIN sgLogs[l] : m # n /\ sgLogs[l][m] = sgLogs'[l][x] /\ sgLogs[l][n] = sgLogs'[l][x]
       \/ sgLogs'[l][x] = row /\ \E m \in DOMAIN sgLogs[l] : sgLogs[l][m] = row

LEMMA LogPushed ==
  ASSUME NEW Rows, NEW log \in Seq(Rows), NEW row \in Rows, NEW new, new = <<row>> \o log
  PROVE  /\ new \in Seq(Rows) /\ Len(new) = Len(log) + 1 /\ Len(log) \in Nat
         /\ new[1] = row /\ 1 \in DOMAIN new /\ DOMAIN log = 1..Len(log)
         /\ \A m \in DOMAIN log : m + 1 \in DOMAIN new /\ new[m + 1] = log[m]
         /\ \A x \in DOMAIN new : x # 1 => x - 1 \in DOMAIN log /\ new[x] = log[x - 1]
<1>1. <<row>> \in Seq(Rows) /\ Len(<<row>>) = 1 /\ <<row>>[1] = row
  OBVIOUS
<1>2. new \in Seq(Rows) /\ Len(new) = Len(log) + 1 /\ Len(log) \in Nat /\ DOMAIN log = 1..Len(log) /\ DOMAIN new = 1..(Len(log) + 1)
  BY <1>1
<1>3. \A x \in 1..(Len(log) + 1) : new[x] = IF x <= 1 THEN <<row>>[x] ELSE log[x - 1]
  BY <1>1, <1>2
<1>4. new[1] = row /\ 1 \in DOMAIN new
  BY <1>1, <1>2, <1>3
<1>5. \A m \in DOMAIN log : m + 1 \in DOMAIN new /\ new[m + 1] = log[m]
  BY <1>2, <1>3
<1>6. \A x \in DOMAIN new : x # 1 => x - 1 \in DOMAIN log /\ new[x] = log[x - 1]
  BY <1>2, <1>3
<1> QED BY <1>2, <1>4, <1>5, <1>6

LEMMA LogCut ==
  ASSUME NEW Rows, NEW log \in Seq(Rows), NEW new, new = Capped(log)
  PROVE  /\ new \in Seq(Rows) /\ Len(new) \in Nat /\ Len(log) \in Nat /\ DOMAIN new \subseteq DOMAIN log
         /\ \A x \in DOMAIN new : new[x] = log[x]
         /\ Len(log) >= RowCap => Len(new) >= RowCap
         /\ Len(log) < RowCap => new = log
<1>0. RowCap \in Nat /\ Len(log) \in Nat
  BY SharedAssumption
<1>1. PICK n \in 0..Len(log) : (Len(log) >= RowCap => n = RowCap) /\ (Len(log) < RowCap => n = Len(log))
  <2>1. CASE Len(log) < RowCap
    BY <2>1, <1>0
  <2>2. CASE Len(log) >= RowCap
    <3>1. RowCap \in 0..Len(log)
      BY <2>2, <1>0
    <3> QED BY <2>2, <3>1, <1>0
  <2> QED BY <2>1, <2>2, <1>0
<1>2. n \in Nat /\ n <= Len(log) /\ n = IF Len(log) < RowCap THEN Len(log) ELSE RowCap
  BY <1>0, <1>1
<1>3. new = SubSeq(log, 1, n)
  BY <1>2 DEF Capped
<1>d. DOMAIN log = 1..Len(log)
  OBVIOUS
<1>4. new \in Seq(Rows) /\ Len(new) = n /\ DOMAIN new = 1..n /\ \A x \in 1..n : new[x] = log[x]
  BY <1>0, <1>2, <1>3
<1>5. Len(log) < RowCap => new = log
  <2>1. Len(log) < RowCap => n = Len(log)
    BY <1>1
  <2>2. new = [x \in 1..n |-> new[x]] /\ log = [x \in 1..Len(log) |-> log[x]]
    BY <1>d, <1>4
  <2> QED BY <2>1, <2>2, <1>4
<1>6. Len(log) >= RowCap => Len(new) >= RowCap
  <2>1. Len(log) >= RowCap => n = RowCap
    BY <1>1
  <2> QED BY <2>1, <1>0, <1>4
<1>7. DOMAIN new \subseteq DOMAIN log /\ \A x \in DOMAIN new : new[x] = log[x]
  <2> HIDE DEF Capped
  <2>1. 1..n \subseteq 1..Len(log)
    BY <1>0, <1>2
  <2> QED BY <2>1, <1>d, <1>4
<1> QED BY <1>0, <1>2, <1>4, <1>5, <1>6, <1>7

LEMMA LogsMove ==
  ASSUME SgInv, NEW i, NEW e, Moves(i, e)
  PROVE  /\ RowsStay /\ DOMAIN sgLogs' = Logs /\ sgLogs' \in [Logs -> Seq(TrailRows)]
         /\ IF PushesRow(i, e) THEN \A l \in Logs : l # sgReq[i].log => sgLogs'[l] = sgLogs[l]
                               ELSE \A l \in Logs : \A x \in DOMAIN sgLogs'[l] : x \in DOMAIN sgLogs[l] /\ sgLogs'[l][x] = sgLogs[l][x]
         /\ PushesRow(i, e) =>
              LET l == sgReq[i].log IN
              /\ RowsCome(l, RowDue(i)) /\ \E x \in DOMAIN sgLogs'[l] : sgLogs'[l][x] = RowDue(i)
<1>t. sgLogs \in [Logs -> Seq(TrailRows)] /\ RowCap \in Nat
  BY SharedAssumption DEF SgInv, SgTypes
<1>l. sgReq[i].log \in Logs /\ i \in Begun /\ sgReq[i].next \in Nat
  BY OthersStay DEF Moves, RequestRecords
<1>1. CASE sgLogs' = sgLogs /\ ~PushesRow(i, e)
  BY <1>1, <1>t DEF RowsStay, Full
<1>2. CASE sgLogs' = [sgLogs EXCEPT ![sgReq[i].log] = Capped(@)] /\ ~PushesRow(i, e)
  <2>1. PICK g \in Logs : g = sgReq[i].log
    BY <1>l
  <2>2. sgLogs[g] \in Seq(TrailRows) /\ sgLogs'[g] = Capped(sgLogs[g]) /\ \A l \in Logs : l # g => sgLogs'[l] = sgLogs[l]
    BY <1>2, <2>1, <1>t
  <2>3. /\ sgLogs'[g] \in Seq(TrailRows) /\ Len(sgLogs'[g]) \in Nat /\ Len(sgLogs[g]) \in Nat /\ DOMAIN sgLogs'[g] \subseteq DOMAIN sgLogs[g]
        /\ \A x \in DOMAIN sgLogs'[g] : sgLogs'[g][x] = sgLogs[g][x]
        /\ Len(sgLogs[g]) >= RowCap => Len(sgLogs'[g]) >= RowCap
        /\ Len(sgLogs[g]) < RowCap => sgLogs'[g] = sgLogs[g]
    BY <2>2, LogCut
  <2>4. sgLogs' \in [Logs -> Seq(TrailRows)]
    <3>1. Capped(sgLogs[g]) \in Seq(TrailRows)
      BY <2>2, <2>3
    <3> QED BY <1>2, <2>1, <3>1, <1>t
  <2>5. RowsStay
    <3> SUFFICES ASSUME NEW l \in Logs
                 PROVE  /\ sgLogs'[l] \in Seq(TrailRows) /\ (Full(l) => Full(l)')
                        /\ Full(l)' \/ \A m \in DOMAIN sgLogs[l] : \E x \in DOMAIN sgLogs'[l] : sgLogs'[l][x] = sgLogs[l][m]
      BY DEF RowsStay
    <3>1. CASE l # g \/ Len(sgLogs[g]) < RowCap
      <4>1. sgLogs'[l] = sgLogs[l]
        BY <3>1, <2>2, <2>3
      <4> QED BY <4>1, <2>4 DEF Full
    <3>2. CASE l = g /\ Len(sgLogs[g]) >= RowCap
      BY <3>2, <2>3 DEF Full
    <3> QED BY <3>1, <3>2, <2>3, <1>t
  <2> QED BY <2>2, <2>3, <2>4, <2>5, <1>2
<1>3. CASE PushesRow(i, e)
  <2>1. PICK g \in Logs : g = sgReq[i].log
    BY <1>l
  <2>2. PICK d \in TrailRows : d = RowDue(i)
    <3>1. sgReq[i].at = "push" /\ SoundVisit(i, sgReq[i])
      BY <1>3, <1>l DEF PushesRow, SgInv, VisitSound
    <3>2. sgReq[i].next \in DOMAIN sgReq[i].rows[sgReq[i].log]
      BY <3>1 DEF SoundVisit
    <3>3. sgReq[i].rows[sgReq[i].log] \in Seq(TrailRows)
      BY <1>l, OthersStay DEF Moves, RequestRecords
    <3>4. sgReq[i].rows[sgReq[i].log][sgReq[i].next] \in TrailRows
      BY <3>2, <3>3
    <3> QED BY <3>4 DEF RowDue, ToSpill
  <2>3. /\ sgLogs[g] \in Seq(TrailRows) /\ sgLogs'[g] = <<d>> \o sgLogs[g]
        /\ sgLogs' = [sgLogs EXCEPT ![g] = <<d>> \o @] /\ \A l \in Logs : l # g => sgLogs'[l] = sgLogs[l]
    BY <1>3, <2>1, <2>2, <1>t DEF PushesRow
  <2>4. /\ sgLogs'[g] \in Seq(TrailRows) /\ Len(sgLogs'[g]) = Len(sgLogs[g]) + 1 /\ Len(sgLogs[g]) \in Nat
        /\ sgLogs'[g][1] = d /\ 1 \in DOMAIN sgLogs'[g] /\ DOMAIN sgLogs[g] = 1..Len(sgLogs[g])
        /\ \A m \in DOMAIN sgLogs[g] : m + 1 \in DOMAIN sgLogs'[g] /\ sgLogs'[g][m + 1] = sgLogs[g][m]
        /\ \A x \in DOMAIN sgLogs'[g] : x # 1 => x - 1 \in DOMAIN sgLogs[g] /\ sgLogs'[g][x] = sgLogs[g][x - 1]
    BY <2>3, LogPushed
  <2>5. sgLogs' \in [Logs -> Seq(TrailRows)]
    <3>1. <<d>> \o sgLogs[g] \in Seq(TrailRows)
      BY <2>3, <2>4
    <3> QED BY <2>3, <3>1, <1>t
  <2>6. RowsStay
    <3> SUFFICES ASSUME NEW l \in Logs
                 PROVE  /\ sgLogs'[l] \in Seq(TrailRows) /\ (Full(l) => Full(l)')
                        /\ \A m \in DOMAIN sgLogs[l] : \E x \in DOMAIN sgLogs'[l] : sgLogs'[l][x] = sgLogs[l][m]
      BY DEF RowsStay
    <3>1. CASE l # g
      BY <3>1, <2>3, <2>5 DEF Full
    <3>2. CASE l = g
      <4>1. Full(g) => Full(g)'
        BY <2>4, <1>t DEF Full
      <4> QED BY <3>2, <4>1, <2>4
    <3> QED BY <3>1, <3>2
  <2>7. RowsCome(g, d)
    <3>1. ASSUME NEW x \in DOMAIN sgLogs'[g]
          PROVE  sgLogs'[g][x] = d \/ \E m \in DOMAIN sgLogs[g] : sgLogs'[g][x] = sgLogs[g][m]
      BY <2>4
    <3>2. ASSUME NEW x \in DOMAIN sgLogs'[g], NEW y \in DOMAIN sgLogs'[g], x # y, sgLogs'[g][x] = sgLogs'[g][y]
          PROVE  \/ \E m, n \in DOMAIN sgLogs[g] : m # n /\ sgLogs[g][m] = sgLogs'[g][x] /\ sgLogs[g][n] = sgLogs'[g][x]
                 \/ sgLogs'[g][x] = d /\ \E m \in DOMAIN sgLogs[g] : sgLogs[g][m] = d
      <4>1. CASE x = 1
        BY <4>1, <3>2, <2>4
      <4>2. CASE y = 1
        BY <4>2, <3>2, <2>4
      <4>3. CASE x # 1 /\ y # 1
        <5>1. x - 1 \in DOMAIN sgLogs[g] /\ y - 1 \in DOMAIN sgLogs[g] /\ x - 1 # y - 1
          <6>1. DOMAIN sgLogs'[g] = 1..Len(sgLogs'[g])
            BY <2>4
          <6> QED BY <4>3, <3>2, <2>4, <6>1
        <5> QED BY ZenonT(60), <5>1, <4>3, <3>2, <2>4
      <4> QED BY <4>1, <4>2, <4>3
    <3> QED BY <3>1, <3>2 DEF RowsCome
  <2> QED BY <1>3, <2>1, <2>2, <2>3, <2>4, <2>5, <2>6, <2>7
<1> QED
  <2>1. PushesRow(i, e) \/ sgLogs' = sgLogs \/ sgLogs' = [sgLogs EXCEPT ![sgReq[i].log] = Capped(@)]
    BY DEF Moves, TurnsLogs, LeavesLogs, SkipsRow, AimsAtRow, NotesRow, TrimsLog
  <2> QED BY <2>1, <1>1, <1>2, <1>3

\* What every lemma below needs of a step.
LEMMA SpillFacts ==
  ASSUME SgInv, NEW i, NEW e, Moves(i, e)
  PROVE  LET r == sgReq[i] IN
         /\ i \in Begun /\ i \in Visits /\ Begun' = Begun /\ i \notin Over /\ sgReq'[i] = e
         /\ \A j \in Begun : j # i => sgReq'[j] = sgReq[j] /\ RowDue(j)' = RowDue(j) /\ (j \in sgTorn' <=> j \in sgTorn)
         /\ sgTorn \subseteq sgTorn' /\ sgSeen \subseteq sgSeen'
         /\ r \in RequestRecords /\ e \in RequestRecords /\ SoundVisit(i, r) /\ SoundVisit(i, e)
         /\ \A j \in Begun : sgReq[j] \in RequestRecords /\ SoundVisit(j, sgReq[j])
         /\ r.log \in Logs /\ r.next \in Nat /\ r.next >= 1 /\ r.rows \in [Logs -> Seq(TrailRows)]
         /\ r.at \in {"push", "note"} => r.next \in DOMAIN r.rows[r.log] /\ RowDue(i).by = i /\ RowDue(i).log = r.log /\ RowDue(i).n = r.next
         /\ RowDue(i) = r.rows[r.log][r.next] /\ RowDue(i)' = e.rows[e.log][e.next] /\ Grown(i, e)
<1>1. Turns(i, e) /\ i \in Begun /\ i \in Visits /\ Begun' = Begun /\ i \notin Over /\ sgReq'[i] = e
      /\ (\A j \in Begun : j # i => sgReq'[j] = sgReq[j]) /\ sgReq[i] \in RequestRecords
  BY OthersStay DEF Moves
<1>2. e \in RequestRecords /\ SoundVisit(i, e) /\ sgTorn \subseteq sgTorn' /\ sgTorn' \subseteq sgTorn \cup {i}
  BY <1>1 DEF Turns
<1>3. \A j \in Begun : sgReq[j] \in RequestRecords /\ SoundVisit(j, sgReq[j])
  BY DEF SgInv, SgTypes, VisitSound
<1>4. \A j \in Begun : j # i => RowDue(j)' = RowDue(j)
  BY <1>1 DEF RowDue, ToSpill
<1>5. RowDue(i) = sgReq[i].rows[sgReq[i].log][sgReq[i].next] /\ RowDue(i)' = e.rows[e.log][e.next]
  BY <1>1 DEF RowDue, ToSpill
<1>6. sgSeen \subseteq sgSeen' /\ Grown(i, e)
  BY DEF Moves, TurnsLogs, LeavesLogs, SkipsRow, AimsAtRow, PushesRow, NotesRow, TrimsLog, SameSpill, Grown
<1>7. sgReq[i].log \in Logs /\ sgReq[i].next \in Nat /\ sgReq[i].next >= 1 /\ sgReq[i].rows \in [Logs -> Seq(TrailRows)]
  BY <1>1, <1>3 DEF RequestRecords, SoundVisit
<1>8. ASSUME sgReq[i].at \in {"push", "note"}
      PROVE  sgReq[i].next \in DOMAIN sgReq[i].rows[sgReq[i].log] /\ RowDue(i).by = i /\ RowDue(i).log = sgReq[i].log /\ RowDue(i).n = sgReq[i].next
  <2>1. sgReq[i].next \in DOMAIN sgReq[i].rows[sgReq[i].log]
    BY <1>1, <1>3, <1>8 DEF SoundVisit
  <2>2. RowDue(i) = [log |-> sgReq[i].log, by |-> i, n |-> sgReq[i].next, to |-> IF sgReq[i].log = "audit" THEN Nothing ELSE sgReq[i].hooks]
    BY <2>1, <1>1, <1>3, <1>5, <1>7 DEF SoundVisit
  <2> QED BY <2>1, <2>2
<1> QED BY <1>1, <1>2, <1>3, <1>4, <1>5, <1>6, <1>7, <1>8

\* What was kept of the rows is.
LEMMA StillKept ==
  ASSUME SgInv, NEW i, NEW e, Moves(i, e)
  PROVE  /\ \A id \in sgSeen : Noted(id)'
         /\ \A l \in Logs : \A row : row.log = l /\ (Full(l) \/ Stored(row)) => Full(l)' \/ Stored(row)'
         /\ \A j \in Begun : \A l \in Logs : \A k \in DOMAIN sgReq[j].rows[l] : RowKept(j, l, k) => RowKept(j, l, k)'
<1>1. RowsStay
  BY LogsMove
<1>2. \A id \in sgSeen : Noted(id)'
  <2> SUFFICES ASSUME NEW id \in sgSeen PROVE Noted(id)'
    OBVIOUS
  <2>1. Noted(id)
    BY DEF SgInv
  <2> QED BY <2>1, <1>1 DEF Noted, RowsStay
<1>3. \A l \in Logs : \A row : row.log = l /\ (Full(l) \/ Stored(row)) => Full(l)' \/ Stored(row)'
  <2> SUFFICES ASSUME NEW l \in Logs, NEW row, row.log = l, Full(l) \/ Stored(row) PROVE Full(l)' \/ Stored(row)'
    OBVIOUS
  <2>1. CASE Full(l)
    BY <2>1, <1>1 DEF RowsStay
  <2>2. CASE Stored(row)
    <3>1. PICK m \in DOMAIN sgLogs[l] : sgLogs[l][m] = row
      BY <2>2 DEF Stored
    <3>2. Full(l)' \/ \E x \in DOMAIN sgLogs'[l] : sgLogs'[l][x] = row
      BY <3>1, <1>1 DEF RowsStay
    <3> QED BY <3>2 DEF Stored
  <2> QED BY <2>1, <2>2
<1>4. ASSUME NEW j \in Begun, NEW l \in Logs, NEW k \in DOMAIN sgReq[j].rows[l], RowKept(j, l, k)
      PROVE  RowKept(j, l, k)'
  <2>1. sgReq'[j].rows[l][k] = sgReq[j].rows[l][k]
    BY <1>4, SpillFacts DEF Grown
  <2>2. CASE Full(l)
    BY <2>2, <1>1 DEF RowsStay, RowKept
  <2>3. ASSUME NEW m \in DOMAIN sgLogs[l], sgLogs[l][m] = sgReq[j].rows[l][k] \/ (l = "audit" /\ sgLogs[l][m].n = k)
        PROVE  RowKept(j, l, k)'
    <3>1. Full(l)' \/ \E x \in DOMAIN sgLogs'[l] : sgLogs'[l][x] = sgLogs[l][m]
      BY <2>3, <1>1 DEF RowsStay
    <3> QED BY <3>1, <2>1, <2>3 DEF RowKept
  <2> QED BY <2>2, <2>3, <1>4 DEF RowKept
<1> QED BY <1>2, <1>3, <1>4

\* No row is pushed twice.
LEMMA PushedOnce ==
  ASSUME SgInv, NEW i, NEW e, Moves(i, e)
  PROVE  RowsOnce' /\ \A j \in Begun' : SpillSound(j)'
<1>f. /\ i \in Begun /\ i \in Visits /\ Begun' = Begun /\ sgReq'[i] = e
      /\ \A j \in Begun : j # i => sgReq'[j] = sgReq[j] /\ RowDue(j)' = RowDue(j) /\ (j \in sgTorn' <=> j \in sgTorn)
      /\ sgTorn \subseteq sgTorn' /\ sgReq[i].log \in Logs
      /\ sgReq[i].at \in {"push", "note"} => RowDue(i).by = i /\ RowDue(i).log = sgReq[i].log
  BY SpillFacts
<1>s. /\ sgReq[i].at = "push" /\ i \notin sgTorn => ~Stored(RowDue(i))
      /\ sgReq[i].at = "note" => Full(sgReq[i].log) \/ Stored(RowDue(i))
  BY <1>f DEF SgInv, SpillSound
<1>d. \A l \in Logs : l \in DOMAIN sgLogs
  BY DEF SgInv, SgTypes
<1>1. ASSUME NEW l \in Logs, NEW x \in DOMAIN sgLogs'[l], NEW y \in DOMAIN sgLogs'[l], x # y, sgLogs'[l][x] = sgLogs'[l][y]
      PROVE  sgLogs'[l][x].by \in sgTorn'
  <2>1. CASE ~PushesRow(i, e) \/ l # sgReq[i].log
    <3>1. x \in DOMAIN sgLogs[l] /\ y \in DOMAIN sgLogs[l] /\ sgLogs'[l][x] = sgLogs[l][x] /\ sgLogs'[l][y] = sgLogs[l][y]
      BY <2>1, LogsMove
    <3> QED BY <3>1, <1>1, <1>f DEF SgInv, RowsOnce
  <2>2. CASE PushesRow(i, e) /\ l = sgReq[i].log
    <3>1. RowsCome(l, RowDue(i))
      BY <2>2, LogsMove
    <3>2. sgReq[i].at = "push"
      BY <2>2 DEF PushesRow
    <3>3. ASSUME NEW m \in DOMAIN sgLogs[l], NEW n \in DOMAIN sgLogs[l], m # n, sgLogs[l][m] = sgLogs'[l][x], sgLogs[l][n] = sgLogs'[l][x]
          PROVE  sgLogs'[l][x].by \in sgTorn'
      <4>1. sgLogs[l][m] = sgLogs[l][n]
        BY <3>3
      <4>2. sgLogs[l][m].by \in sgTorn
        BY <4>1, <3>3 DEF SgInv, RowsOnce
      <4> QED BY <4>2, <3>3, <1>f
    <3>4. ASSUME sgLogs'[l][x] = RowDue(i), NEW m \in DOMAIN sgLogs[l], sgLogs[l][m] = RowDue(i)
          PROVE  sgLogs'[l][x].by \in sgTorn'
      <4>1. Stored(RowDue(i)) /\ RowDue(i).by = i
        BY <3>2, <3>4, <2>2, <1>f DEF Stored
      <4> QED BY <4>1, <3>2, <3>4, <1>s, <1>f
    <3> QED BY <3>1, <3>3, <3>4, <1>1 DEF RowsCome
  <2> QED BY <2>1, <2>2
<1>2. RowsOnce'
  BY <1>1 DEF RowsOnce
\* A row that is there now and was not is the one that was pushed.
<1>3. ASSUME NEW row, row.log \in Logs, Stored(row)', ~Stored(row) PROVE PushesRow(i, e) /\ row = RowDue(i)
  <2>1. PICK l \in Logs : l = row.log
    BY <1>3
  <2>2. PICK x \in DOMAIN sgLogs'[l] : sgLogs'[l][x] = row
    BY <1>3, <2>1 DEF Stored
  <2>3. CASE ~PushesRow(i, e) \/ l # sgReq[i].log
    <3>1. x \in DOMAIN sgLogs[l] /\ sgLogs[l][x] = row
      BY <2>2, <2>3, LogsMove
    <3> QED BY <3>1, <2>1, <1>3 DEF Stored
  <2>4. CASE PushesRow(i, e) /\ l = sgReq[i].log
    <3>1. RowsCome(l, RowDue(i))
      BY <2>4, LogsMove
    <3>2. row = RowDue(i) \/ \E m \in DOMAIN sgLogs[l] : sgLogs[l][m] = row
      BY <3>1, <2>2 DEF RowsCome
    <3> QED BY <3>2, <2>1, <2>4, <1>3 DEF Stored
  <2> QED BY <2>3, <2>4
<1>4. ASSUME NEW j \in Begun, j # i PROVE SpillSound(j)'
  <2>1. SpillSound(j) /\ sgReq[j].log \in Logs /\ SoundVisit(j, sgReq[j])
    BY SpillFacts DEF SgInv, RequestRecords
  <2>2. ASSUME sgReq[j].at \in {"push", "note"} PROVE RowDue(j).by = j /\ RowDue(j).log = sgReq[j].log
    <3>1. sgReq[j].next \in DOMAIN sgReq[j].rows[sgReq[j].log]
      BY <2>1, <2>2 DEF SoundVisit
    <3>2. RowDue(j) = [log |-> sgReq[j].log, by |-> j, n |-> sgReq[j].next, to |-> IF sgReq[j].log = "audit" THEN Nothing ELSE sgReq[j].hooks]
      BY <3>1, <2>1 DEF SoundVisit, RowDue, ToSpill
    <3> QED BY <3>2
  <2>3. ASSUME sgReq[j].at = "push", j \notin sgTorn PROVE ~Stored(RowDue(j))'
    <3>1. ~Stored(RowDue(j)) /\ RowDue(j).by = j /\ RowDue(j).log \in Logs
      BY <2>1, <2>2, <2>3 DEF SpillSound
    <3>2. PICK row : row = RowDue(j)
      OBVIOUS
    <3>3. RowDue(j)' = row
      BY <3>2, <1>4, <1>f
    <3>4. ~Stored(row)'
      <4>1. SUFFICES ASSUME Stored(row)' PROVE FALSE
        OBVIOUS
      <4>2. PushesRow(i, e) /\ row = RowDue(i)
        BY <4>1, <3>1, <3>2, <1>3
      <4>3. RowDue(i).by = i
        BY <4>2, <1>f DEF PushesRow
      <4> QED BY <4>2, <4>3, <3>1, <3>2, <1>4
    <3> QED BY <3>3, <3>4 DEF Stored
  <2>4. ASSUME sgReq[j].at = "note" PROVE (Full(sgReq[j].log) \/ Stored(RowDue(j)))'
    <3>1. (Full(sgReq[j].log) \/ Stored(RowDue(j))) /\ RowDue(j).log = sgReq[j].log
      BY <2>1, <2>2, <2>4 DEF SpillSound
    <3>0. PICK l \in Logs : l = sgReq[j].log
      BY <2>1
    <3>2. PICK row : row = RowDue(j)
      OBVIOUS
    <3>3. RowDue(j)' = row /\ sgReq'[j].log = l
      BY <3>0, <3>2, <1>4, <1>f
    <3>4. Full(l)' \/ Stored(row)'
      BY <3>0, <3>1, <3>2, StillKept
    <3> QED BY <3>3, <3>4 DEF Full, Stored
  <2> QED BY <2>3, <2>4, <1>4, <1>f DEF SpillSound
<1>5. SpillSound(i)'
  <2>1. ASSUME e.at = "push", i \notin sgTorn' PROVE ~Stored(RowDue(i))'
    <3>1. AimsAtRow(i, e)
      BY <2>1 DEF Moves, TurnsLogs, LeavesLogs, SkipsRow, PushesRow, NotesRow, TrimsLog
    <3>2. sgLogs' = sgLogs /\ RowDue(i)' = RowDue(i) /\ IdOf(RowDue(i)) \notin sgSeen /\ sgReq[i].at = "check" /\ i \notin sgTorn
      BY <3>1, <2>1, SpillFacts DEF AimsAtRow, SameSpill
    <3>3. RowDue(i).by = i /\ RowDue(i).log \in Logs
      <4>1. e.next \in DOMAIN e.rows[e.log] /\ RowDue(i)' = e.rows[e.log][e.next] /\ e.log \in Logs /\ SoundVisit(i, e)
        BY <2>1, SpillFacts DEF SoundVisit, RequestRecords
      <4>2. e.rows[e.log][e.next] = [log |-> e.log, by |-> i, n |-> e.next, to |-> IF e.log = "audit" THEN Nothing ELSE e.hooks]
        BY <4>1 DEF SoundVisit
      <4>3. RowDue(i) = e.rows[e.log][e.next]
        BY <4>1, <3>2
      <4> QED BY <4>1, <4>2, <4>3
    <3>4. ~Stored(RowDue(i))
      <4>1. SUFFICES ASSUME Stored(RowDue(i)) PROVE FALSE
        OBVIOUS
      <4>2. PICK m \in DOMAIN sgLogs[RowDue(i).log] : sgLogs[RowDue(i).log][m] = RowDue(i)
        BY <4>1 DEF Stored
      <4>4. StoredRow(RowDue(i).log, m)
        BY <4>2, <3>3 DEF SgInv
      <4> QED BY <4>2, <4>4, <3>2, <3>3 DEF StoredRow
    <3> QED BY <3>2, <3>4 DEF Stored
  <2>2. ASSUME e.at = "note" PROVE Stored(RowDue(i))'
    <3>1. PushesRow(i, e)
      BY <2>2 DEF Moves, TurnsLogs, LeavesLogs, SkipsRow, AimsAtRow, NotesRow, TrimsLog
    <3>2. PICK row : row = RowDue(i)
      OBVIOUS
    <3>3. RowDue(i)' = row /\ row.log = sgReq[i].log
      BY <3>1, <3>2, SpillFacts DEF PushesRow, SameSpill
    <3>4. \E x \in DOMAIN sgLogs'[row.log] : sgLogs'[row.log][x] = row
      BY <3>1, <3>2, <3>3, LogsMove
    <3> QED BY <3>3, <3>4 DEF Stored
  <2> QED BY <2>1, <2>2, <1>f DEF SpillSound
<1> QED BY <1>2, <1>4, <1>5, <1>f

\* A stored row is one of its request's, and noted once the request is past it.
LEMMA RowsAre ==
  ASSUME SgInv, NEW i, NEW e, Moves(i, e)
  PROVE  \A l \in Logs : \A x \in DOMAIN sgLogs'[l] : StoredRow(l, x)'
<1>f. /\ i \in Begun /\ Begun' = Begun /\ sgReq'[i] = e /\ (\A j \in Begun : j # i => sgReq'[j] = sgReq[j] /\ (j \in sgTorn' <=> j \in sgTorn))
      /\ sgTorn \subseteq sgTorn' /\ sgSeen \subseteq sgSeen' /\ Grown(i, e)
      /\ RowDue(i) = sgReq[i].rows[sgReq[i].log][sgReq[i].next]
      /\ sgReq[i].at \in {"push", "note"} => sgReq[i].next \in DOMAIN sgReq[i].rows[sgReq[i].log] /\ RowDue(i).by = i /\ RowDue(i).n = sgReq[i].next
  BY SpillFacts
<1>1. ASSUME NEW l \in Logs, NEW m \in DOMAIN sgLogs[l], NEW x \in DOMAIN sgLogs'[l], sgLogs'[l][x] = sgLogs[l][m]
      PROVE  StoredRow(l, x)'
  <2>r. PICK row : row = sgLogs[l][m]
    OBVIOUS
  <2>s. StoredRow(l, m)
    BY DEF SgInv
  <2>b. PICK b \in Begun : b = row.by
    <3>1. sgLogs[l][m].by \in Begun
      BY SMTT(60), <2>s DEF StoredRow
    <3> QED BY <3>1, <2>r
  <2>1. /\ row.n \in DOMAIN sgReq[b].rows[l] /\ row = sgReq[b].rows[l][row.n]
        /\ b \notin sgTorn => IdOf(row) \in sgSeen \/ (sgReq[b].at = "note" /\ row = sgReq[b].rows[sgReq[b].log][sgReq[b].next])
    BY <2>r, <2>s, <2>b DEF StoredRow, RowDue, ToSpill
  <2>2. row.n \in DOMAIN sgReq'[b].rows[l] /\ row = sgReq'[b].rows[l][row.n]
    <3>1. CASE b = i
      BY <3>1, <2>1, <1>f DEF Grown
    <3>2. CASE b # i
      BY <3>2, <2>1, <1>f
    <3> QED BY <3>1, <3>2
  <2>3. ASSUME b \notin sgTorn'
        PROVE  IdOf(row) \in sgSeen' \/ (sgReq'[b].at = "note" /\ row = sgReq'[b].rows[sgReq'[b].log][sgReq'[b].next])
    <3>1. CASE b # i
      BY <3>1, <2>1, <2>3, <1>f
    <3>2. CASE b = i /\ IdOf(row) \in sgSeen
      BY <3>2, <1>f
    <3>3. CASE b = i /\ IdOf(row) \notin sgSeen
      <4>1. sgReq[i].at = "note" /\ row = RowDue(i) /\ i \notin sgTorn'
        BY <3>3, <2>1, <2>3, <1>f
      <4>2. NotesRow(i, e)
        BY <4>1 DEF Moves, TurnsLogs, LeavesLogs, SkipsRow, AimsAtRow, PushesRow, TrimsLog
      <4> QED BY <4>1, <4>2 DEF NotesRow
    <3> QED BY <3>1, <3>2, <3>3
  <2>4. sgLogs'[l][x] = row /\ row.by = b /\ b \in Begun'
    <3>1. sgLogs'[l][x] = row
      BY <2>r, <1>1
    <3>2. Begun' = Begun
      BY SMTT(60), <1>f
    <3> QED BY <3>1, <3>2, <2>b
  <2> QED BY <2>2, <2>3, <2>4 DEF StoredRow, RowDue, ToSpill
<1>2. ASSUME PushesRow(i, e), NEW x \in DOMAIN sgLogs'[sgReq[i].log], sgLogs'[sgReq[i].log][x] = RowDue(i)
      PROVE  StoredRow(sgReq[i].log, x)'
  <2>1. PICK l : l = sgReq[i].log
    OBVIOUS
  <2>2. PICK row : row = RowDue(i)
    OBVIOUS
  <2>3. sgReq[i].at = "push" /\ e.at = "note" /\ e.rows = sgReq[i].rows /\ e.log = l /\ e.next = sgReq[i].next
    BY <1>2, <2>1 DEF PushesRow, SameSpill
  <2>4. row.by = i /\ row.n = e.next /\ e.next \in DOMAIN e.rows[l] /\ row = e.rows[l][e.next]
    BY <2>1, <2>2, <2>3, <1>f
  <2>5. sgReq'[i] = e /\ sgLogs'[l][x] = row /\ i \in Begun'
    <3>1. sgLogs'[l][x] = row
      BY <2>1, <2>2, <1>2
    <3>2. sgReq'[i] = e /\ i \in Begun'
      BY <1>f
    <3> QED BY <3>1, <3>2
  <2>6. StoredRow(l, x)'
    BY ZenonT(60), <2>3, <2>4, <2>5 DEF StoredRow, RowDue, ToSpill
  <2>7. sgReq[i].log = l /\ sgReq'[i].log = l
    BY <2>1, <2>3, <1>f
  <2> QED BY <2>6, <2>7 DEF StoredRow, RowDue, ToSpill
<1>3. ASSUME NEW l \in Logs, NEW x \in DOMAIN sgLogs'[l] PROVE StoredRow(l, x)'
  <2>1. CASE ~PushesRow(i, e) \/ l # sgReq[i].log
    <3>1. x \in DOMAIN sgLogs[l] /\ sgLogs'[l][x] = sgLogs[l][x]
      BY <2>1, LogsMove
    <3> QED BY <3>1, <1>1
  <2>2. CASE PushesRow(i, e) /\ l = sgReq[i].log
    <3>1. RowsCome(l, RowDue(i))
      BY <2>2, LogsMove
    <3>2. CASE sgLogs'[l][x] = RowDue(i)
      <4>1. e.log = l /\ sgReq'[i] = e
        BY <2>2, <1>f DEF PushesRow, SameSpill
      <4> QED BY SMTT(60), <4>1, <3>2, <2>2, <1>2 DEF StoredRow
    <3>3. CASE sgLogs'[l][x] # RowDue(i)
      BY <3>1, <3>3, <1>1 DEF RowsCome
    <3> QED BY SMTT(60), <3>2, <3>3
  <2> QED BY <2>1, <2>2
<1> QED BY <1>3

\* An id is noted when its row is there, or the log was full.
LEMMA NotedStep ==
  ASSUME SgInv, NEW i, NEW e, Moves(i, e)
  PROVE  \A id \in sgSeen' : Noted(id)'
<1>1. CASE ~NotesRow(i, e)
  <2>1. sgSeen' = sgSeen
    BY <1>1 DEF Moves, TurnsLogs, LeavesLogs, SkipsRow, AimsAtRow, PushesRow, TrimsLog
  <2> QED BY <2>1, StillKept
<1>2. CASE NotesRow(i, e)
  <2>1. /\ sgReq[i].at = "note" /\ sgLogs' = sgLogs /\ sgSeen' = sgSeen \cup {IdOf(RowDue(i))}
    BY <1>2 DEF NotesRow
  <2>2. PICK row : row = RowDue(i)
    OBVIOUS
  <2>3. row.log = sgReq[i].log /\ row.log \in Logs /\ (Full(row.log) \/ Stored(row))
    BY <2>1, <2>2, SpillFacts DEF SgInv, SpillSound
  <2>4. IdOf(row).log = row.log
    BY DEF IdOf
  <2>5. Noted(IdOf(row))
    <3>1. CASE Full(row.log)
      BY <3>1, <2>3, <2>4 DEF Noted
    <3>2. CASE Stored(row)
      BY <3>2, <2>3, <2>4 DEF Noted, Stored
    <3> QED BY <3>1, <3>2, <2>3
  <2>6. ASSUME NEW id, Noted(id) PROVE Noted(id)'
    BY <2>1, <2>6 DEF Noted, Full
  <2>7. \A id \in sgSeen : Noted(id)
    BY DEF SgInv
  <2> QED BY <2>1, <2>2, <2>5, <2>6, <2>7
<1> QED BY <1>1, <1>2

\* What a save has passed is kept.
LEMMA PassedStep ==
  ASSUME SgInv, NEW i, NEW e, Moves(i, e)
  PROVE  \A j \in Begun' : PassedKept(j)'
<1> DEFINE r == sgReq[i]
<1>f. /\ i \in Begun /\ Begun' = Begun /\ sgReq'[i] = e /\ (\A j \in Begun : j # i => sgReq'[j] = sgReq[j] /\ (j \in sgTorn' <=> j \in sgTorn))
      /\ sgTorn \subseteq sgTorn' /\ r.log \in Logs /\ r.next \in Nat /\ r.rows \in [Logs -> Seq(TrailRows)]
      /\ RowDue(i) = r.rows[r.log][r.next] /\ SoundVisit(i, r)
      /\ r.at \in {"push", "note"} => RowDue(i).log = r.log
  BY SpillFacts
<1>p. /\ \A l \in Logs : \A k \in DOMAIN r.rows[l] : i \notin sgTorn /\ Passed(i, l, k) => RowKept(i, l, k)
      /\ \A l \in Logs : \A k \in DOMAIN r.rows[l] : RowKept(i, l, k) => RowKept(i, l, k)'
  BY <1>f, StillKept DEF SgInv, PassedKept
<1>d. \A l \in Logs : \A k \in DOMAIN r.rows[l] : k \in Nat /\ k >= 1 /\ k <= Len(r.rows[l])
  <2>1. \A l \in Logs : r.rows[l] \in Seq(TrailRows)
    BY <1>f
  <2>2. \A l \in Logs : DOMAIN r.rows[l] = 1..Len(r.rows[l]) /\ Len(r.rows[l]) \in Nat
    BY <2>1
  <2> QED BY <2>2
<1>1. ASSUME NEW j \in Begun, j # i PROVE PassedKept(j)'
  <2>1. sgReq'[j] = sgReq[j] /\ (j \in sgTorn' <=> j \in sgTorn) /\ PassedKept(j)
    BY <1>1, <1>f DEF SgInv
  <2>2. ASSUME j \notin sgTorn, NEW l \in Logs, NEW k \in DOMAIN sgReq[j].rows[l], Passed(j, l, k) PROVE RowKept(j, l, k)'
    <3>1. RowKept(j, l, k)
      BY <2>1, <2>2 DEF PassedKept
    <3> QED BY <3>1, StillKept
  <2>3. \A l, k : Passed(j, l, k)' <=> Passed(j, l, k)
    BY <2>1 DEF Passed
  <2> QED BY <2>1, <2>2, <2>3 DEF PassedKept
<1>2. ASSUME i \notin sgTorn', NEW l \in Logs, NEW k \in DOMAIN e.rows[l], Passed(i, l, k)' PROVE RowKept(i, l, k)'
  <2>p. e.saving /\ (e.at = "done" \/ (l = e.log /\ k < e.next) \/ (l = "audit" /\ e.log = "deliveries")) /\ i \notin sgTorn
    BY <1>2, <1>f DEF Passed
  <2>1. CASE LeavesLogs(i, e)
    <3>1. e.at = "check" /\ e.log = "audit" /\ e.next = 1
      BY <2>1, <2>p, <1>2 DEF LeavesLogs
    <3>2. k \in Nat /\ k >= 1
      <4>1. e.rows[l] \in Seq(TrailRows)
        BY SpillFacts DEF RequestRecords
      <4> QED BY <4>1
    <3> QED BY <3>1, <3>2, <2>p
  <2>k. CASE ~LeavesLogs(i, e)
    <3>0. e.rows = r.rows /\ e.saving = r.saving
      BY <2>k DEF Moves, TurnsLogs, SkipsRow, AimsAtRow, PushesRow, NotesRow, TrimsLog, SameSpill
    <3>1. k \in DOMAIN r.rows[l] /\ k \in Nat /\ k >= 1 /\ k <= Len(r.rows[l])
      BY <3>0, <1>2, <1>d
    <3>2. CASE Passed(i, l, k)
      BY <3>1, <3>2, <2>p, <1>p
    <3>3. CASE ~Passed(i, l, k)
      <4>n. r.saving /\ r.at # "done" /\ ~(l = r.log /\ k < r.next) /\ ~(l = "audit" /\ r.log = "deliveries")
        BY <3>0, <3>3, <2>p DEF Passed
      <4>1. CASE SkipsRow(i, e) \/ NotesRow(i, e)
        <5>1. e.at = "check" /\ e.log = r.log /\ e.next = r.next + 1
          BY <4>1 DEF SkipsRow, NotesRow, SameSpill
        <5>2. l = r.log /\ k < r.next + 1 /\ ~(k < r.next)
          BY <5>1, <4>n, <2>p
        <5>3. l = r.log /\ k = r.next
          BY <5>2, <3>1, <1>f
        <5>r. r.rows[l][k] = [log |-> l, by |-> i, n |-> k, to |-> IF l = "audit" THEN Nothing ELSE r.hooks]
          BY <3>1, <1>f DEF SoundVisit
        <5>d. PICK d : d = RowDue(i) /\ d = r.rows[l][k] /\ d.log = l /\ d.by = i /\ d.n = k
          BY <5>3, <5>r, <1>f
        <5>4. RowKept(i, l, k)
          <6>1. CASE NotesRow(i, e)
            <7>1. Full(l) \/ Stored(d)
              BY <6>1, <5>3, <5>d, <1>f DEF NotesRow, SgInv, SpillSound
            <7> QED BY <7>1, <5>d DEF RowKept, Stored
          <6>2. CASE SkipsRow(i, e)
            <7>1. Noted(IdOf(d))
              BY <6>2, <5>d DEF SkipsRow, SgInv
            <7>2. IdOf(d) = [log |-> l, n |-> k, by |-> IF l = "audit" THEN Nothing ELSE i]
              BY <5>d DEF IdOf
            <7>3. ASSUME NEW m \in DOMAIN sgLogs[l], IdOf(sgLogs[l][m]) = IdOf(d)
                  PROVE  sgLogs[l][m] = r.rows[l][k] \/ (l = "audit" /\ sgLogs[l][m].n = k)
              <8>g. PICK g : g = sgLogs[l][m]
                OBVIOUS
              <8>l. g.log = l
                BY <8>g DEF SgInv, SgTypes
              <8>1. g.n = k /\ (l # "audit" => g.by = i)
                <9>1. IdOf(g) = [log |-> l, n |-> g.n, by |-> IF l = "audit" THEN Nothing ELSE g.by]
                  BY <8>l DEF IdOf
                <9> QED BY <9>1, <8>g, <7>2, <7>3
              <8>2. StoredRow(l, m)
                BY DEF SgInv
              <8>3. l # "audit" => g = r.rows[l][k]
                BY <8>1, <8>2, <8>g DEF StoredRow
              <8> QED BY <8>1, <8>3, <8>g
            <7>4. IdOf(d).log = l
              BY <7>2
            <7>5. Full(l) \/ \E m \in DOMAIN sgLogs[l] : IdOf(sgLogs[l][m]) = IdOf(d)
              BY <7>1, <7>4 DEF Noted
            <7> QED BY <7>3, <7>5 DEF RowKept
          <6> QED BY <6>1, <6>2, <4>1
        <5> QED BY <5>4, <3>1, <1>p
      <4>2. CASE AimsAtRow(i, e) \/ PushesRow(i, e)
        <5>1. e.log = r.log /\ e.next = r.next /\ e.at \in {"push", "note"}
          BY <4>2 DEF AimsAtRow, PushesRow, SameSpill
        <5> QED BY <5>1, <4>n, <2>p
      <4>3. CASE TrimsLog(i, e)
        <5>1. /\ e.next = 1 /\ e.log = "deliveries" /\ (e.at = "done" => r.log = "deliveries")
              /\ r.next > Len(r.rows[r.log])
          BY <4>3, <4>n DEF TrimsLog, ToSpill
        <5>2. Len(r.rows[r.log]) \in Nat
          BY <1>f
        <5>3. l = r.log => k < r.next
          BY <5>1, <5>2, <3>1, <1>f
        <5>4. l # r.log
          BY <5>3, <4>n
        <5>5. l \in {"audit", "deliveries"} /\ r.log \in {"audit", "deliveries"}
          BY <1>f DEF Logs
        <5>6. ~(k < 1)
          BY <3>1
        <5> QED BY <5>1, <5>4, <5>5, <5>6, <4>n, <2>p
      <4> QED BY <4>1, <4>2, <4>3, <2>k DEF Moves, TurnsLogs
    <3> QED BY <3>2, <3>3
  <2> QED BY <2>1, <2>k
<1>3. PassedKept(i)'
  BY <1>2, <1>f DEF PassedKept
<1> QED BY <1>1, <1>3, <1>f

LEMMA TypesStep ==
  ASSUME SgInv, NEW i, NEW e, Moves(i, e)
  PROVE  SgTypes'
<1> DEFINE r == sgReq[i]
<1>t. /\ Begun \subseteq Visits /\ sgSettings \in [Fields -> Setter] /\ sgRules \in Builds \cup {Nothing} /\ sgHooks \in Setter
      /\ sgBefore \in [Visits -> SUBSET Visits] /\ sgTorn \subseteq Visits /\ sgLapsed \subseteq Coins
      /\ \A l \in Logs : \A m \in DOMAIN sgLogs[l] : sgLogs[l][m].log = l
  BY DEF SgInv, SgTypes
<1>o. /\ i \in Visits /\ i \in Begun /\ Begun' = Begun /\ sgReq' \in [Begun -> RequestRecords] /\ r \in RequestRecords
      /\ sgBefore' = sgBefore /\ sgLapsed' = sgLapsed /\ sgTorn' \subseteq sgTorn \cup {i}
  BY OthersStay DEF Moves, Turns
<1>1. sgSettings' \in [Fields -> Setter] /\ sgRules' \in Builds \cup {Nothing} /\ sgHooks' \in Setter
  <2>1. r.settings \in [Fields -> Setter] /\ r.rules \in Builds /\ i \in Setter
    BY <1>o DEF RequestRecords, Setter
  <2>2. /\ sgSettings' \in {r.settings, sgSettings} /\ sgRules' \in {r.rules, sgRules} /\ sgHooks' \in {i, sgHooks}
    BY DEF Moves, TurnsSettings, TurnsHooks
  <2> QED BY <2>1, <2>2, <1>t
<1>2. ASSUME NEW l \in Logs, NEW x \in DOMAIN sgLogs'[l] PROVE sgLogs'[l][x].log = l
  <2>1. CASE ~PushesRow(i, e) \/ l # sgReq[i].log
    BY ZenonT(60), <2>1, <1>t, LogsMove
  <2>2. CASE PushesRow(i, e) /\ l = sgReq[i].log
    <3>1. RowsCome(l, RowDue(i)) /\ sgReq[i].at = "push"
      BY <2>2, LogsMove DEF PushesRow
    <3>2. RowDue(i).log = l
      BY <3>1, <2>2, SpillFacts
    <3>3. sgLogs'[l][x] = RowDue(i) \/ \E m \in DOMAIN sgLogs[l] : sgLogs'[l][x] = sgLogs[l][m]
      BY <3>1 DEF RowsCome
    <3> QED BY <3>2, <3>3, <1>t
  <2> QED BY <2>1, <2>2
<1>3. sgLogs' \in [Logs -> Seq(TrailRows)]
  BY LogsMove
<1>4. sgFunded' \in BOOLEAN /\ sgMarks' \subseteq Coins /\ sgCredits' \in [Coins -> Nat]
  BY CoinsStep
<1> QED BY <1>1, <1>2, <1>3, <1>4, <1>o, <1>t DEF SgTypes

LEMMA MovesKeep ==
  ASSUME SgInv, NEW i, NEW e, Moves(i, e)
  PROVE  SgInv'
<1>1. SgTypes' /\ BeforeIsOver' /\ RowsOnce' /\ HooksSound' /\ CoinsSound'
  BY TypesStep, BeforeStep, PushedOnce, HooksStep, CoinsStep
<1>2. \A j \in Begun' : VisitSound(j)' /\ EditHolds(j)' /\ RulesHold(j)' /\ SpillSound(j)' /\ PassedKept(j)' /\ HooksLoaded(j)'
  BY BeforeStep, SettingsStep, PushedOnce, PassedStep, HooksStep
<1>3. /\ \A l \in Logs : \A m \in DOMAIN sgLogs'[l] : StoredRow(l, m)'
      /\ \A id \in sgSeen' : Noted(id)'
  BY RowsAre, NotedStep
<1> QED BY <1>1, <1>2, <1>3 DEF SgInv

\* A request that begins is after all that are over, and has done nothing yet.
LEMMA BeginsKeep ==
  ASSUME SgInv, NEW i \in Visits, NEW op \in {"look", "edit", "hook", "login", "grant"}, SgBegins(i, op)
  PROVE  SgInv'
<1>1. PICK f \in Fields, b \in Builds :
        sgReq' = With(sgReq, i, [op |-> op, at |-> "load", field |-> f, settings |-> sgSettings,
                                 rules |-> b, hooks |-> Nothing, rows |-> [l \in Logs |-> <<>>], log |-> "audit", next |-> 1,
                                 saving |-> FALSE])
  BY DEF SgBegins
<1>2. PICK e : e = [op |-> op, at |-> "load", field |-> f, settings |-> sgSettings,
                    rules |-> b, hooks |-> Nothing, rows |-> [l \in Logs |-> <<>>], log |-> "audit", next |-> 1,
                    saving |-> FALSE]
  OBVIOUS
<1>e. /\ e.op = op /\ e.at = "load" /\ e.settings = sgSettings /\ e.rows = [l \in Logs |-> <<>>] /\ e.log = "audit" /\ e.next = 1 /\ ~e.saving
  BY <1>2
<1>t. sgSettings \in [Fields -> Setter] /\ Begun \subseteq Visits /\ sgReq \in [Begun -> RequestRecords] /\ sgBefore \in [Visits -> SUBSET Visits]
  BY DEF SgInv, SgTypes
<1>r. e \in RequestRecords
  <2>1. [l \in Logs |-> <<>>] \in [Logs -> Seq(TrailRows)]
    OBVIOUS
  <2>2. Nothing \in Setter /\ "load" \in Points /\ "audit" \in Logs /\ 1 \in Nat /\ FALSE \in BOOLEAN
    BY DEF Setter, Points, Logs
  <2> QED BY <1>2, <2>1, <2>2, <1>t DEF RequestRecords
<1>o. i \notin Begun /\ sgReq' = With(sgReq, i, e)
  BY <1>1, <1>2 DEF SgBegins
<1>u. sgBefore' = [sgBefore EXCEPT ![i] = Over] /\ UNCHANGED <<sgStored, sgTorn, sgLapsed>>
  BY DEF SgBegins
<1>v. UNCHANGED <<sgSettings, sgRules, sgHooks, sgLogs, sgSeen, sgFunded, sgMarks, sgCredits, sgTorn, sgLapsed>>
  BY <1>u DEF sgStored
<1>3. /\ Begun' = Begun \cup {i} /\ sgReq'[i] = e /\ (\A j \in Begun : j # i /\ sgReq'[j] = sgReq[j])
      /\ sgReq' \in [Begun' -> RequestRecords]
  <2>1. sgReq' = [j \in Begun \cup {i} |-> IF j = i THEN e ELSE sgReq[j]]
    BY <1>o DEF With, Begun
  <2> QED BY <2>1, <1>o, <1>r, <1>t DEF Begun
<1>4. /\ Over' = Over /\ Over \subseteq Begun
  BY <1>3, <1>e, <1>o DEF Over
<1>5. /\ sgBefore'[i] = Over /\ (\A j \in Visits : j # i => sgBefore'[j] = sgBefore[j]) /\ sgBefore' \in [Visits -> SUBSET Visits]
      /\ \A j \in Visits : i \notin sgBefore[j] /\ i \notin sgBefore'[j] /\ sgBefore[j] \subseteq Over \ {j}
  <2>1. \A j \in Visits : sgBefore[j] \subseteq Over \ {j}
    BY DEF SgInv, BeforeIsOver
  <2> QED BY <2>1, <1>t, <1>u, <1>4, <1>o
<1>a. ASSUME NEW j \in Begun, Apart(j)' PROVE Apart(j) /\ j \in Over
  <2>1. j \in sgBefore'[i]
    BY <1>a, <1>3, <1>5, <1>t DEF Apart, Overlapped
  <2>2. Apart(j)
    BY <1>a, <1>3, <1>5, <1>t DEF Apart, Overlapped
  <2> QED BY <2>1, <2>2, <1>5
\* One part after the other.
<1>6. SgTypes'
  BY <1>3, <1>5, <1>t, <1>v DEF SgInv, SgTypes
<1>7. BeforeIsOver'
  BY <1>3, <1>4, <1>5, <1>o DEF SgInv, BeforeIsOver
<1>8. RowsOnce'
  BY <1>v DEF SgInv, RowsOnce
<1>9. HooksSound'
  <2> SUFFICES ASSUME NEW j \in Begun', sgReq'[j].op = "hook", sgReq'[j].at \in {"hookaudit", "done"} PROVE Since(sgHooks, j)'
    BY DEF HooksSound
  <2>1. j \in Begun /\ j # i /\ j \in Visits
    BY <1>3, <1>e, <1>t
  <2> QED BY <2>1, <1>3, <1>5, <1>v DEF SgInv, HooksSound, Since
<1>10. CoinsSound'
  <2>k. \A j \in Begun : CoinOf(j)' = CoinOf(j)
    BY <1>3 DEF CoinOf
  <2>1. \A k \in Coins : Crediting(k)' = Crediting(k)
    BY <2>k, <1>3, <1>e DEF Crediting
  <2>2. Welcomed => Welcomed'
    BY <1>3, <1>v DEF Welcomed
  <2>3. (\E j \in Begun' : sgReq'[j].op = "login" /\ sgReq'[j].at = "fund") => \E j \in Begun : sgReq[j].op = "login" /\ sgReq[j].at = "fund"
    BY <1>3, <1>e
  <2>4. CoinsSound
    BY DEF SgInv
  <2> QED BY <2>1, <2>2, <2>3, <2>4, <1>v DEF CoinsSound, Worth
<1>11. \A j \in Begun' : VisitSound(j)'
  <2>1. SoundVisit(i, e)
    BY <1>e DEF SoundVisit, Unsaved, Spilling, Logs
  <2> QED BY <2>1, <1>3 DEF SgInv, VisitSound
<1>12. ASSUME NEW j \in Begun' PROVE EditHolds(j)'
  <2>1. CASE j = i
    BY <2>1, <1>3, <1>e DEF EditHolds
  <2>2. CASE j # i
    <3>1. j \in Begun /\ sgReq'[j] = sgReq[j] /\ EditHolds(j)
      BY <2>2, <1>3 DEF SgInv
    <3>2. ASSUME Apart(j)', \A x \in Begun' : j \in sgBefore'[x] => sgReq'[x].op # "edit" \/ sgReq'[x].field # sgReq[j].field,
                 sgReq[j].op = "edit", sgReq[j].at = "rules" \/ sgReq[j].saving
          PROVE  sgSettings[sgReq[j].field] = j /\ \A x \in Begun' : j \in sgBefore'[x] => sgReq'[x].settings[sgReq[j].field] = j
      <4>1. Apart(j)
        BY <3>1, <3>2, <1>a
      <4>2. \A x \in Begun : j \in sgBefore[x] => sgReq[x].op # "edit" \/ sgReq[x].field # sgReq[j].field
        BY <3>2, <1>3, <1>5, <1>t
      <4>3. sgSettings[sgReq[j].field] = j /\ \A x \in Begun : j \in sgBefore[x] => sgReq[x].settings[sgReq[j].field] = j
        BY <4>1, <4>2, <3>1, <3>2 DEF EditHolds
      <4> QED BY <4>3, <1>3, <1>5, <1>e, <1>t
    <3> QED BY <3>1, <3>2, <1>v DEF EditHolds
  <2> QED BY <2>1, <2>2
<1>13. ASSUME NEW j \in Begun' PROVE RulesHold(j)'
  <2>1. CASE j = i
    BY <2>1, <1>3, <1>e DEF RulesHold
  <2>2. CASE j # i
    <3>1. j \in Begun /\ sgReq'[j] = sgReq[j] /\ RulesHold(j)
      BY <2>2, <1>3 DEF SgInv
    <3>2. Apart(j)' => Apart(j)
      BY <3>1, <1>a
    <3>3. \A x \in Begun' : sgReq'[x].at \notin {"load", "broken"} => x \in Begun /\ sgReq'[x] = sgReq[x] /\ sgBefore'[x] = sgBefore[x]
      BY <1>3, <1>5, <1>e, <1>t
    <3> QED BY <3>1, <3>2, <3>3, <1>v DEF RulesHold
  <2> QED BY <2>1, <2>2
<1>14. ASSUME NEW j \in Begun' PROVE SpillSound(j)'
  <2>1. CASE j = i
    <3>1. sgReq'[j].at = "load"
      BY <2>1, <1>3, <1>e, ZenonT(60)
    <3> QED BY <3>1 DEF SpillSound
  <2>2. CASE j # i
    <3>1. SpillSound(j) /\ sgReq'[j] = sgReq[j] /\ sgLogs' = sgLogs /\ sgTorn' = sgTorn
      BY <2>2, <1>3, <1>v DEF SgInv
    <3> QED BY ZenonT(60), <3>1 DEF SpillSound, Stored, Full, RowDue, ToSpill
  <2> QED BY <2>1, <2>2
<1>15. ASSUME NEW j \in Begun' PROVE PassedKept(j)'
  <2>1. CASE j = i
    BY <2>1, <1>3, <1>e DEF PassedKept, Passed
  <2>2. CASE j # i
    BY <2>2, <1>3, <1>v DEF SgInv, PassedKept, Passed, RowKept, Full
  <2> QED BY <2>1, <2>2
<1>16. ASSUME NEW j \in Begun' PROVE HooksLoaded(j)'
  <2>1. CASE j = i
    <3>1. e.rows["deliveries"] = <<>>
      BY <1>e DEF Logs
    <3> QED BY <3>1, <2>1, <1>3, <1>e DEF HooksLoaded
  <2>2. CASE j # i
    <3>1. j \in Begun /\ j \in Visits /\ sgReq'[j] = sgReq[j] /\ sgBefore'[j] = sgBefore[j]
      BY <2>2, <1>3, <1>5, <1>t
    <3>2. \A x \in sgBefore[j] : x \in Begun /\ x \in Visits /\ sgReq'[x] = sgReq[x] /\ sgBefore'[x] = sgBefore[x]
      BY SMTT(60), <3>1, <1>3, <1>4, <1>5, <1>t
    <3> QED BY <3>1, <3>2, <1>v DEF SgInv, HooksLoaded, Since
  <2> QED BY <2>1, <2>2
<1>17. ASSUME NEW l \in Logs, NEW m \in DOMAIN sgLogs'[l] PROVE StoredRow(l, m)'
  <2>1. StoredRow(l, m)
    BY <1>v DEF SgInv
  <2> QED BY ZenonT(60), <2>1, <1>3, <1>v DEF StoredRow, RowDue, ToSpill
<1>18. \A id \in sgSeen' : Noted(id)'
  BY <1>v DEF SgInv, Noted, Full
<1> QED BY <1>6, <1>7, <1>8, <1>9, <1>10, <1>11, <1>12, <1>13, <1>14, <1>15, <1>16, <1>17, <1>18 DEF SgInv

\* What does not touch the requests or what they share but the coins touches nothing else that matters.
LEMMA RestStays ==
  ASSUME SgInv, UNCHANGED <<sgSettings, sgRules, sgHooks, sgLogs, sgSeen, sgReq, sgBefore, sgTorn>>
  PROVE  /\ BeforeIsOver' /\ RowsOnce' /\ HooksSound'
         /\ \A i \in Begun' :
              VisitSound(i)' /\ EditHolds(i)' /\ RulesHold(i)' /\ SpillSound(i)' /\ PassedKept(i)' /\ HooksLoaded(i)'
         /\ \A l \in Logs : \A m \in DOMAIN sgLogs'[l] : StoredRow(l, m)'
         /\ \A id \in sgSeen' : Noted(id)'
<1>1. BeforeIsOver' /\ RowsOnce' /\ HooksSound'
  BY DEF SgInv, BeforeIsOver, RowsOnce, HooksSound, Since, Over, Begun
<1>2. ASSUME NEW i \in Begun' PROVE VisitSound(i)' /\ EditHolds(i)' /\ RulesHold(i)'
  <2>1. VisitSound(i) /\ EditHolds(i) /\ RulesHold(i)
    BY DEF SgInv, Begun
  <2>2. VisitSound(i)'
    BY <2>1 DEF VisitSound
  <2>3. EditHolds(i)' /\ RulesHold(i)'
    BY <2>1 DEF EditHolds, RulesHold, Apart, Overlapped, Begun
  <2> QED BY <2>2, <2>3
<1>3. ASSUME NEW i \in Begun' PROVE SpillSound(i)' /\ PassedKept(i)' /\ HooksLoaded(i)'
  <2>1. SpillSound(i) /\ PassedKept(i) /\ HooksLoaded(i)
    BY ZenonT(60) DEF SgInv, Begun
  <2>2. SpillSound(i)'
    BY ZenonT(60), <2>1 DEF SpillSound, Stored, Full, RowDue, ToSpill
  <2>3. PassedKept(i)'
    BY <2>1 DEF PassedKept, Passed, RowKept, Full
  <2>4. HooksLoaded(i)'
    BY SMTT(60), <2>1 DEF HooksLoaded, Since
  <2> QED BY <2>2, <2>3, <2>4
<1>4. \A l \in Logs : \A m \in DOMAIN sgLogs'[l] : StoredRow(l, m)'
  BY ZenonT(60) DEF SgInv, StoredRow, RowDue, ToSpill, Begun
<1>5. \A id \in sgSeen' : Noted(id)'
  BY DEF SgInv, Noted, Full
<1> QED BY <1>1, <1>2, <1>3, <1>4, <1>5

\* A mark runs out only when nobody is crediting its key.
LEMMA LapseKeeps ==
  ASSUME SgInv, NEW k \in Coins, SgLapses(k)
  PROVE  SgInv'
<1>0. /\ k \in sgMarks /\ k \notin sgLapsed /\ sgMarks' = sgMarks \ {k} /\ sgLapsed' = sgLapsed \cup {k}
      /\ UNCHANGED <<sgSettings, sgRules, sgHooks, sgLogs, sgSeen, sgFunded, sgCredits, sgReq, sgBefore, sgTorn>>
      /\ Begun' = Begun
  BY DEF SgLapses, Begun
<1>1. SgTypes'
  BY <1>0 DEF SgInv, SgTypes
<1>2. Crediting(k) = {} /\ \A c \in Coins : Crediting(c)' = Crediting(c)
  BY <1>0 DEF SgLapses, Crediting, CoinOf
<1>3. /\ Worth(sgMarks, k) = 1 /\ Worth(sgMarks', k) = 0 /\ Worth(sgLapsed, k) = 0 /\ Worth(sgLapsed', k) = 1
      /\ \A c \in Coins : c # k => Worth(sgMarks', c) = Worth(sgMarks, c) /\ Worth(sgLapsed', c) = Worth(sgLapsed, c)
  BY <1>0 DEF Worth
<1>4. CoinsSound'
  <2>c. CoinsSound /\ sgCredits \in [Coins -> Nat]
    BY DEF SgInv, SgTypes
  <2>1. ASSUME NEW c \in Coins
        PROVE  /\ \A x, y \in Crediting(c)' : x = y
               /\ sgCredits'[c] <= Worth(sgMarks', c) + Worth(sgLapsed', c)
               /\ Crediting(c)' # {} => c \in sgMarks' /\ sgCredits'[c] + 1 <= 1 + Worth(sgLapsed', c)
    <3>1. CASE c # k
      BY <3>1, <2>c, <1>0, <1>2, <1>3 DEF CoinsSound
    <3>2. CASE c = k
      <4>1. sgCredits[c] <= 1 + 0 /\ sgCredits'[c] = sgCredits[c] /\ Crediting(c)' = {}
        BY <3>2, <2>c, <1>0, <1>2, <1>3 DEF CoinsSound
      <4> QED BY <4>1, <3>2, <2>c, <1>3
    <3> QED BY <3>1, <3>2
  <2>2. Welcomed' <=> Welcomed
    BY <1>0 DEF Welcomed
  <2>3. sgFunded \/ "welcome" \in sgMarks' \/ (\E j \in Begun : sgReq[j].op = "login" /\ sgReq[j].at = "fund") => Welcomed
    BY <2>c, <1>0 DEF CoinsSound
  <2> QED BY <2>1, <2>2, <2>3, <1>0 DEF CoinsSound
<1> QED BY <1>0, <1>1, <1>4, RestStays DEF SgInv

LEMMA SgBegin == SgInit => SgInv
<1> SUFFICES ASSUME SgInit PROVE SgInv
  OBVIOUS
<1>1. Begun = {}
  BY DEF SgInit, Begun
<1>2. sgReq \in [Begun -> RequestRecords]
  BY <1>1 DEF SgInit
<1>3. \A l \in Logs : sgLogs[l] = <<>> /\ DOMAIN sgLogs[l] = {}
  BY DEF SgInit
<1>4. SgTypes
  <2>1. sgLogs \in [Logs -> Seq(TrailRows)]
    BY DEF SgInit
  <2>2. sgSettings \in [Fields -> Setter] /\ sgRules \in Builds \cup {Nothing} /\ sgHooks \in Setter
    BY DEF SgInit, Setter
  <2>3. sgFunded \in BOOLEAN /\ sgMarks \subseteq Coins /\ sgCredits \in [Coins -> Nat]
        /\ sgBefore \in [Visits -> SUBSET Visits] /\ sgTorn \subseteq Visits /\ sgLapsed \subseteq Coins
    BY DEF SgInit
  <2> QED BY <2>1, <2>2, <2>3, <1>1, <1>2, <1>3 DEF SgTypes
<1>5. BeforeIsOver /\ HooksSound
  BY <1>1 DEF SgInit, BeforeIsOver, HooksSound
<1>6. RowsOnce
  BY <1>3 DEF RowsOnce
<1>7. CoinsSound
  <2>1. \A k \in Coins : Crediting(k) = {} /\ sgCredits[k] = 0
    BY <1>1 DEF Crediting, SgInit
  <2>2. \A k \in Coins : Worth(sgMarks, k) = 0 /\ Worth(sgLapsed, k) = 0
    BY DEF Worth, SgInit
  <2> QED BY <2>1, <2>2, <1>1 DEF CoinsSound, SgInit
<1>8. sgSeen = {}
  BY DEF SgInit
<1> QED BY <1>1, <1>3, <1>4, <1>5, <1>6, <1>7, <1>8 DEF SgInv

LEMMA SgStep == SgInv /\ [SgNext]_sgVars => SgInv'
<1> SUFFICES ASSUME SgInv, [SgNext]_sgVars PROVE SgInv'
  OBVIOUS
<1>1. ASSUME NEW i \in Visits, NEW op \in {"look", "edit", "hook", "login", "grant"}, SgBegins(i, op) PROVE SgInv'
  BY <1>1, BeginsKeep
<1>2. ASSUME NEW i \in Visits, VisitSteps(i) PROVE SgInv'
  BY <1>2, VisitMoves, MovesKeep
<1>3. ASSUME NEW k \in Coins, SgLapses(k) PROVE SgInv'
  BY <1>3, LapseKeeps
<1>4. CASE UNCHANGED sgVars
  <2>1. UNCHANGED <<sgSettings, sgRules, sgHooks, sgLogs, sgSeen, sgFunded, sgMarks, sgCredits, sgReq, sgBefore, sgTorn, sgLapsed>>
    BY <1>4 DEF sgVars
  <2>2. SgTypes'
    BY <2>1 DEF SgInv, SgTypes, Begun
  <2>3. CoinsSound'
    BY <2>1 DEF SgInv, CoinsSound, Crediting, CoinOf, Welcomed, Begun
  <2> QED BY <2>1, <2>2, <2>3, RestStays DEF SgInv
<1> QED BY <1>1, <1>2, <1>3, <1>4 DEF SgNext, VisitSteps

\* What the invariant says of what the requests leave each other.
LEMMA SharedHolds == SgInv => SharedSafe
<1> SUFFICES ASSUME SgInv PROVE SharedSafe
  OBVIOUS
<1>s. ASSUME NEW i \in Begun, Saved(i) PROVE sgReq[i].saving /\ sgReq[i].at = "done" /\ i \notin sgTorn
  BY <1>s DEF SgInv, VisitSound, SoundVisit, Saved, SgAt
<1>1. EditsStay
  <2> SUFFICES ASSUME NEW i \in Begun, Saved(i), sgReq[i].op = "edit", sgSettings[sgReq[i].field] # i,
                      ~\E j \in Begun : sgReq[j].op = "edit" /\ sgReq[j].field = sgReq[i].field /\ i \in sgBefore[j],
                      ~\E j \in Begun : Overlapped(i, j)
               PROVE  FALSE
    BY DEF EditsStay
  <2>1. Apart(i) /\ sgReq[i].saving /\ EditHolds(i)
    BY <1>s DEF Apart, SgInv
  <2> QED BY <2>1 DEF EditHolds
<1>2. RulesStay
  BY <1>s DEF RulesStay, SgInv, RulesHold, Apart
<1>3. RowsOnce
  BY DEF SgInv
<1>4. RowsKept
  <2> SUFFICES ASSUME NEW i \in Begun, Saved(i), NEW l \in Logs, NEW k \in DOMAIN sgReq[i].rows[l]
               PROVE  \/ \E m \in DOMAIN sgLogs[l] : sgLogs[l][m] = sgReq[i].rows[l][k] \/ (l = "audit" /\ sgLogs[l][m].n = k)
                      \/ Len(sgLogs[l]) >= RowCap
    BY DEF RowsKept
  <2>1. Passed(i, l, k) /\ PassedKept(i) /\ i \notin sgTorn
    BY <1>s DEF Passed, SgInv
  <2>2. RowKept(i, l, k)
    BY <2>1 DEF PassedKept
  <2> QED BY <2>2 DEF RowKept, Full
<1>5. DeliveriesFollow
  <2> SUFFICES ASSUME NEW k \in DOMAIN sgLogs["deliveries"], NEW j \in sgBefore[sgLogs["deliveries"][k].by],
                      sgReq[j].op = "hook", sgReq[j].at = "done"
               PROVE  LET row == sgLogs["deliveries"][k] IN row.to # Nothing /\ (row.to = j \/ row.to \notin sgBefore[j])
    BY DEF DeliveriesFollow
  <2>r. PICK row : row = sgLogs["deliveries"][k]
    OBVIOUS
  <2>1. StoredRow("deliveries", k)
    BY DEF SgInv, Logs
  <2>2. row.by \in Begun /\ row.n \in DOMAIN sgReq[row.by].rows["deliveries"] /\ row = sgReq[row.by].rows["deliveries"][row.n]
    BY <2>1, <2>r DEF StoredRow
  <2>3. SoundVisit(row.by, sgReq[row.by]) /\ HooksLoaded(row.by)
    BY <2>2 DEF SgInv, VisitSound
  <2>4. row.to = sgReq[row.by].hooks
    <3>1. row = [log |-> "deliveries", by |-> row.by, n |-> row.n, to |-> sgReq[row.by].hooks]
      BY <2>2, <2>3 DEF SoundVisit, Logs
    <3> QED BY <3>1
  <2>5. sgReq[row.by].rows["deliveries"] # <<>>
    BY <2>2
  <2>6. Since(sgReq[row.by].hooks, j)
    BY <2>3, <2>5, <2>r DEF HooksLoaded
  <2> QED BY <2>4, <2>6, <2>r DEF Since
<1>6. CoinsOnce
  <2>1. ASSUME NEW k \in Coins PROVE sgCredits[k] <= 1 + Cardinality(sgLapsed \cap {k})
    <3>1. Cardinality(sgLapsed \cap {k}) = Worth(sgLapsed, k)
      <4>1. CASE k \in sgLapsed
        <5>1. sgLapsed \cap {k} = {k}
          BY <4>1
        <5> QED BY <5>1, <4>1, FS_Singleton DEF Worth
      <4>2. CASE k \notin sgLapsed
        <5>1. sgLapsed \cap {k} = {}
          BY <4>2
        <5> QED BY <5>1, <4>2, FS_EmptySet DEF Worth
      <4> QED BY <4>1, <4>2
    <3>2. sgCredits[k] <= Worth(sgMarks, k) + Worth(sgLapsed, k) /\ sgCredits[k] \in Nat
      BY DEF SgInv, CoinsSound, SgTypes
    <3>3. Worth(sgMarks, k) \in {0, 1} /\ Worth(sgLapsed, k) \in {0, 1}
      BY DEF Worth
    <3> QED BY <3>1, <3>2, <3>3
  <2>2. sgFunded => Welcomed
    BY DEF SgInv, CoinsSound
  <2> QED BY <2>1, <2>2 DEF CoinsOnce, Welcomed
<1> QED BY <1>1, <1>2, <1>3, <1>4, <1>5, <1>6 DEF SharedSafe

-----------------------------------------------------------------------------
(* The lists of staging's consoles (staging/economy.py).                    *)

ConsoleRow == [of : RowIds]
EcRequests == OperatorRequests \cup SuperadminRequests

\* A row list has one row of p's, with that balance; or none.
Holds(rows, p, balance) ==
  \E k \in DOMAIN rows :
    /\ rows[k].of = p /\ rows[k].balance = balance
    /\ \A j \in DOMAIN rows : rows[j].of = p => j = k
Absent(rows, p) == \A k \in DOMAIN rows : rows[k].of # p
Halved(rows, rest, p, balance) ==
  \/ Holds(rows, p, balance) /\ Absent(rest, p)
  \/ Absent(rows, p) /\ Holds(rest, p, balance)

\* What a player's transactions make of the seed.
Due(trans, p) == SeedBalance + SumFunction([k \in DOMAIN trans |-> IF trans[k].of = p THEN trans[k].amount ELSE 0])
Adding(req, p) == IF req.op = "adjust" /\ req.of = p THEN req.amount ELSE 0
NewKey(req, trans) == \A k \in DOMAIN trans : trans[k].key # req.key

\* Where a request is says what it has read and decided.
EditSound(at, req, rows) ==
  /\ at \notin {"idle", "done", "stopped"} => req \in EcRequests
  /\ at \in {"lookup", "append"} => req.op = "adjust"
  /\ at \in {"lookup", "decide", "push"} => rows \in IF OnWallets(req) THEN Seq(WalletRow) ELSE Seq(ConsoleRow)
  /\ at \in {"lookup", "decide"} /\ req.op # "put" => Found(rows, req.of) # {}
  /\ at = "decide" /\ req.op = "adjust" => Covers(TheRow(rows, req.of).balance, req.amount)
  /\ at = "push" => rows # <<>>

\* How far a request that is alone has come with the wallets.
Ledger(at, req, rows, wallets, trans) ==
  /\ at \in {"lookup", "decide"} => rows = wallets
  /\ at \in {"lookup", "decide", "audit"} => \A p \in Holders : Holds(wallets, p, Due(trans, p))
  /\ at \in {"decide", "push", "append"} /\ req.op = "adjust" => NewKey(req, trans)
  /\ at = "push" => \A p \in Holders : Halved(wallets, rows, p, Due(trans, p) + Adding(req, p))
  /\ at = "append" => \A p \in Holders : Holds(wallets, p, Due(trans, p) + Adding(req, p))

EcTypes ==
  /\ EcTypeOK /\ ecReq \in [Edits -> EcRequests \cup {[op |-> "none"]}]
  /\ ecWrite \in [Edits -> Seq(WalletRow) \cup Seq(ConsoleRow)]

Alone == \A i, j \in Edits : EcBusy(i) /\ EcBusy(j) => i = j
OneKeyEach == \A j, k \in DOMAIN ecTrans : ecTrans[j].key = ecTrans[k].key => j = k
LedgerHolds ==
  /\ Alone /\ OneKeyEach
  /\ \A i \in Edits : EcBusy(i) /\ OnWallets(ecReq[i]) => Ledger(ecAt[i], ecReq[i], ecWrite[i], ecWallets, ecTrans)
  /\ (\A i \in Edits : EcBusy(i) => ~OnWallets(ecReq[i])) => \A p \in Holders : Holds(ecWallets, p, Due(ecTrans, p))

EcInv ==
  /\ EcTypes /\ \A i \in Edits : EditSound(ecAt[i], ecReq[i], ecWrite[i])
  /\ ~ecOverlap => LedgerHolds

\* The rows a request leaves alone, built row by row.
KeptStep(rows, id, kept, n) == IF rows[n].of = id THEN kept ELSE Append(kept, rows[n])
KeptTable(g, rows, id, N) ==
  g = [n \in 0..N |-> IF n = 0 THEN <<>> ELSE IF rows[n].of = id THEN g[n - 1] ELSE Append(g[n - 1], rows[n])]

LEMMA KeptExists ==
  ASSUME NEW rows, NEW id, NEW L \in Nat
  PROVE  \E g : KeptTable(g, rows, id, L)
<1> DEFINE Bad == {n \in 0..L : ~\E g : KeptTable(g, rows, id, n)}
<1>1. SUFFICES ASSUME Bad # {} PROVE FALSE
  OBVIOUS
<1>2. Bad \in SUBSET Nat /\ IsFiniteSet(Bad)
  <2>1. Bad \subseteq 0..L /\ 0 \in Int /\ L \in Int
    OBVIOUS
  <2>2. IsFiniteSet(0..L)
    BY <2>1, FS_Interval
  <2> QED BY <2>1, <2>2, FS_Subset
<1>3. PICK n : n = Min(Bad)
  OBVIOUS
<1>4. n \in Bad /\ \A m \in Bad : n <= m
  BY <1>1, <1>2, <1>3, LeastMember
<1>5. CASE n = 0
  <2>1. PICK g : g = [m \in 0..0 |-> <<>>]
    OBVIOUS
  <2>2. KeptTable(g, rows, id, 0)
    BY <2>1 DEF KeptTable
  <2> QED BY <1>4, <1>5, <2>2
<1>6. CASE n # 0
  <2>1. n \in 1..L /\ n - 1 \in 0..L /\ n - 1 \notin Bad
    BY <1>4, <1>6
  <2>2. PICK g : KeptTable(g, rows, id, n - 1)
    BY <2>1
  <2>3. PICK h : h = [m \in 0..n |-> IF m = n THEN KeptStep(rows, id, g[n - 1], n) ELSE g[m]]
    OBVIOUS
  <2>4. \A m \in 0..(n - 1) : h[m] = g[m] /\ g[m] = IF m = 0 THEN <<>> ELSE KeptStep(rows, id, g[m - 1], m)
    <3> SUFFICES ASSUME NEW m \in 0..(n - 1)
                 PROVE  h[m] = g[m] /\ g[m] = IF m = 0 THEN <<>> ELSE KeptStep(rows, id, g[m - 1], m)
      OBVIOUS
    <3>1. m \in 0..n /\ m # n
      BY <2>1
    <3>2. h[m] = g[m]
      BY <2>3, <3>1
    <3>3. g[m] = IF m = 0 THEN <<>> ELSE KeptStep(rows, id, g[m - 1], m)
      BY <2>2, Zenon DEF KeptTable, KeptStep
    <3> QED BY <3>2, <3>3
  <2>5. \A m \in 0..n : h[m] = IF m = 0 THEN <<>> ELSE KeptStep(rows, id, h[m - 1], m)
    <3> SUFFICES ASSUME NEW m \in 0..n PROVE h[m] = IF m = 0 THEN <<>> ELSE KeptStep(rows, id, h[m - 1], m)
      OBVIOUS
    <3>1. CASE m = n
      <4>1. h[n] = KeptStep(rows, id, g[n - 1], n) /\ n - 1 \in 0..(n - 1)
        BY <2>1, <2>3
      <4> QED BY <3>1, <4>1, <2>4, <1>6
    <3>2. CASE m # n
      <4>1. m \in 0..(n - 1) /\ (m # 0 => m - 1 \in 0..(n - 1))
        BY <3>2, <2>1
      <4> QED BY <4>1, <2>4
    <3> QED BY <3>1, <3>2
  <2>6. KeptTable(h, rows, id, n)
    BY <2>3, <2>5 DEF KeptTable, KeptStep
  <2> QED BY <1>4, <2>6
<1> QED BY <1>5, <1>6

LEMMA OthersTable ==
  ASSUME NEW rows, NEW id, Len(rows) \in Nat
  PROVE  \E g : KeptTable(g, rows, id, Len(rows)) /\ Others(rows, id) = g[Len(rows)]
<1>1. \E g : KeptTable(g, rows, id, Len(rows))
  BY KeptExists
<1>2. Others(rows, id) = (CHOOSE g : KeptTable(g, rows, id, Len(rows)))[Len(rows)]
  BY DEF Others, KeptTable
<1> QED BY <1>1, <1>2
LEMMA RowAppended ==
  ASSUME NEW Rows, NEW s \in Seq(Rows), NEW row \in Rows, NEW new, new = Append(s, row)
  PROVE  /\ new \in Seq(Rows) /\ new # <<>>
         /\ \A p, b : row.of # p /\ Holds(s, p, b) => Holds(new, p, b)
         /\ \A p : row.of # p /\ Absent(s, p) => Absent(new, p)
         /\ \A p : row.of = p /\ Absent(s, p) => Holds(new, p, row.balance)
<1>1. /\ new \in Seq(Rows) /\ new # <<>> /\ Len(s) \in Nat /\ DOMAIN s = 1..Len(s) /\ DOMAIN new = 1..(Len(s) + 1)
      /\ (\A k \in 1..Len(s) : new[k] = s[k]) /\ new[Len(s) + 1] = row
  BY AppendProperties
<1>2. PICK m : m = Len(s) + 1
  OBVIOUS
<1>3. /\ m \in DOMAIN new /\ m \notin DOMAIN s /\ new[m] = row
      /\ \A k \in DOMAIN s : k \in DOMAIN new /\ new[k] = s[k]
      /\ \A k \in DOMAIN new : k = m \/ k \in DOMAIN s
  BY <1>1, <1>2
<1>4. ASSUME NEW p, NEW b, row.of # p, Holds(s, p, b) PROVE Holds(new, p, b)
  BY <1>3, <1>4 DEF Holds
<1>5. ASSUME NEW p, row.of # p, Absent(s, p) PROVE Absent(new, p)
  BY <1>3, <1>5 DEF Absent
<1>6. ASSUME NEW p, row.of = p, Absent(s, p) PROVE Holds(new, p, row.balance)
  BY <1>3, <1>6 DEF Absent, Holds
<1> QED BY <1>1, <1>4, <1>5, <1>6

\* What is kept of the first n rows: every other row that has its id alone, and none of that id's.
KeptSound(s, Rows, rows, id, n) ==
  /\ s \in Seq(Rows) /\ Absent(s, id)
  /\ \A k \in DOMAIN rows :
       rows[k].of # id /\ (\A j \in DOMAIN rows : rows[j].of = rows[k].of => j = k) =>
         IF k <= n THEN Holds(s, rows[k].of, rows[k].balance) ELSE Absent(s, rows[k].of)

LEMMA KeptNone ==
  ASSUME NEW Rows, NEW rows \in Seq(Rows), NEW id
  PROVE  KeptSound(<<>>, Rows, rows, id, 0)
<1>1. <<>> \in Seq(Rows) /\ \A p : Absent(<<>>, p)
  BY EmptySeq DEF Absent
<1>2. \A k \in DOMAIN rows : ~(k <= 0)
  OBVIOUS
<1> QED BY <1>1, <1>2 DEF KeptSound

LEMMA KeptMore ==
  ASSUME NEW Rows, NEW rows \in Seq(Rows), NEW id, NEW n \in 1..Len(rows), NEW s, KeptSound(s, Rows, rows, id, n - 1)
  PROVE  KeptSound(KeptStep(rows, id, s, n), Rows, rows, id, n)
<1> DEFINE t == KeptStep(rows, id, s, n)
           Sole(k) == \A j \in DOMAIN rows : rows[j].of = rows[k].of => j = k
<1>0. DOMAIN rows = 1..Len(rows) /\ n \in DOMAIN rows /\ rows[n] \in Rows
  OBVIOUS
<1>t. \A k \in DOMAIN rows : k # n => (k <= n <=> k <= n - 1)
  BY <1>0
<1>u. ~(n <= n - 1) /\ n <= n
  OBVIOUS
<1>s. /\ s \in Seq(Rows) /\ Absent(s, id)
      /\ \A k \in DOMAIN rows : rows[k].of # id /\ Sole(k) =>
           IF k <= n - 1 THEN Holds(s, rows[k].of, rows[k].balance) ELSE Absent(s, rows[k].of)
  BY DEF KeptSound
<1>1. CASE rows[n].of = id
  <2>1. t = s
    BY <1>1 DEF KeptStep
  <2>2. ASSUME NEW k \in DOMAIN rows, rows[k].of # id, Sole(k)
        PROVE  IF k <= n THEN Holds(s, rows[k].of, rows[k].balance) ELSE Absent(s, rows[k].of)
    BY <2>2, <1>1, <1>s, <1>t
  <2> QED BY <2>1, <2>2, <1>s DEF KeptSound
<1>2. CASE rows[n].of # id
  <2>1. t = Append(s, rows[n])
    BY <1>2 DEF KeptStep
  <2>2. /\ t \in Seq(Rows)
        /\ \A p, b : rows[n].of # p /\ Holds(s, p, b) => Holds(t, p, b)
        /\ \A p : rows[n].of # p /\ Absent(s, p) => Absent(t, p)
        /\ \A p : rows[n].of = p /\ Absent(s, p) => Holds(t, p, rows[n].balance)
    <3> HIDE DEF t
    <3> QED BY <2>1, <1>s, <1>0, RowAppended
  <2>3. ASSUME NEW k \in DOMAIN rows, rows[k].of # id, Sole(k)
        PROVE  IF k <= n THEN Holds(t, rows[k].of, rows[k].balance) ELSE Absent(t, rows[k].of)
    <3> HIDE DEF t
    <3>1. CASE k = n
      <4>1. Absent(s, rows[n].of)
        BY <3>1, <2>3, <1>s, <1>u
      <4> QED BY <3>1, <4>1, <2>2, <1>u
    <3>2. CASE k # n
      <4>1. rows[n].of # rows[k].of
        BY <3>2, <2>3, <1>0
      <4>2. IF k <= n THEN Holds(s, rows[k].of, rows[k].balance) ELSE Absent(s, rows[k].of)
        BY <3>2, <2>3, <1>s, <1>t
      <4> QED BY <4>1, <4>2, <2>2
    <3> QED BY <3>1, <3>2
  <2>4. Absent(t, id)
    <3> HIDE DEF t
    <3> QED BY <1>2, <2>2, <1>s
  <2> QED BY <2>2, <2>3, <2>4 DEF KeptSound
<1> QED BY <1>1, <1>2

LEMMA KeptAll ==
  ASSUME NEW Rows, NEW rows \in Seq(Rows), NEW id, NEW g, KeptTable(g, rows, id, Len(rows))
  PROVE  KeptSound(g[Len(rows)], Rows, rows, id, Len(rows))
<1> DEFINE Bad == {n \in 0..Len(rows) : ~KeptSound(g[n], Rows, rows, id, n)}
<1>l. PICK L \in Nat : L = Len(rows)
  OBVIOUS
<1>1. SUFFICES ASSUME Bad # {} PROVE FALSE
  <2>1. L \in 0..L
    OBVIOUS
  <2> QED BY <1>l, <2>1
<1>2. Bad \in SUBSET Nat /\ IsFiniteSet(Bad)
  <2>1. Bad \subseteq 0..L /\ 0 \in Int /\ L \in Int
    BY <1>l
  <2>2. IsFiniteSet(0..L)
    BY <2>1, FS_Interval
  <2> QED BY <2>1, <2>2, FS_Subset
<1>3. PICK n : n = Min(Bad)
  OBVIOUS
<1>4. n \in Bad /\ \A m \in Bad : n <= m
  BY <1>1, <1>2, <1>3, LeastMember
<1>5. n \in 0..L /\ ~KeptSound(g[n], Rows, rows, id, n)
  BY <1>4, <1>l
<1>6. g[n] = IF n = 0 THEN <<>> ELSE KeptStep(rows, id, g[n - 1], n)
  BY <1>5, <1>l, Zenon DEF KeptTable, KeptStep
<1>7. CASE n = 0
  BY <1>7, <1>5, <1>6, KeptNone
<1>8. CASE n # 0
  <2>1. n \in 1..L /\ n - 1 \in 0..L /\ ~(n <= n - 1)
    BY <1>5, <1>8
  <2>2. KeptSound(g[n - 1], Rows, rows, id, n - 1)
    BY <2>1, <1>4, <1>l
  <2>3. KeptSound(KeptStep(rows, id, g[n - 1], n), Rows, rows, id, n)
    BY <2>1, <2>2, <1>l, KeptMore
  <2> QED BY <2>3, <1>5, <1>6, <1>8
<1> QED BY <1>7, <1>8

\* The other rows of a list are all there, and none of that id is.
LEMMA OthersKept ==
  ASSUME NEW Rows, NEW rows \in Seq(Rows), NEW id
  PROVE  /\ Others(rows, id) \in Seq(Rows) /\ Absent(Others(rows, id), id)
         /\ \A p, b : p # id /\ Holds(rows, p, b) => Holds(Others(rows, id), p, b)
<1>1. PICK g : KeptTable(g, rows, id, Len(rows)) /\ Others(rows, id) = g[Len(rows)]
  <2>1. Len(rows) \in Nat
    OBVIOUS
  <2> QED BY <2>1, OthersTable
<1>2. PICK s : s = Others(rows, id)
  OBVIOUS
<1>3. KeptSound(s, Rows, rows, id, Len(rows))
  BY <1>1, <1>2, KeptAll
<1>4. ASSUME NEW p, NEW b, p # id, Holds(rows, p, b) PROVE Holds(s, p, b)
  <2>1. PICK k \in DOMAIN rows : rows[k].of = p /\ rows[k].balance = b /\ \A j \in DOMAIN rows : rows[j].of = p => j = k
    BY <1>4 DEF Holds
  <2>2. k <= Len(rows)
    OBVIOUS
  <2> QED BY <2>1, <2>2, <1>3, <1>4 DEF KeptSound
<1> QED BY <1>2, <1>3, <1>4 DEF KeptSound
LEMMA NoRows == \A p : Absent(<<>>, p) /\ \A b : ~Holds(<<>>, p, b)
  BY DEF Absent, Holds

LEMMA FoundRow ==
  ASSUME NEW Rows, NEW rows \in Seq(Rows), NEW id, Found(rows, id) # {}
  PROVE  TheRow(rows, id) \in Rows /\ TheRow(rows, id).of = id
<1>1. PICK k : k = (CHOOSE j \in Found(rows, id) : TRUE)
  OBVIOUS
<1>2. k \in Found(rows, id)
  BY <1>1
<1>3. k \in DOMAIN rows /\ rows[k].of = id
  BY <1>2 DEF Found
<1>4. rows[k] \in Rows
  BY <1>3
<1> QED BY <1>1, <1>3, <1>4 DEF TheRow

LEMMA HeldRow ==
  ASSUME NEW Rows, NEW rows \in Seq(Rows), NEW id, NEW b, Holds(rows, id, b)
  PROVE  /\ Found(rows, id) # {} /\ TheRow(rows, id).balance = b
         /\ Cardinality({k \in DOMAIN rows : rows[k].of = id}) = 1
<1>1. PICK k \in DOMAIN rows : rows[k].of = id /\ rows[k].balance = b /\ \A j \in DOMAIN rows : rows[j].of = id => j = k
  BY DEF Holds
<1>2. \A j \in 1..k - 1 : j \in DOMAIN rows /\ j # k
  OBVIOUS
<1>3. Found(rows, id) = {k}
  BY <1>1, <1>2 DEF Found
<1>4. {j \in DOMAIN rows : rows[j].of = id} = {k}
  BY <1>1
<1>5. (CHOOSE j \in Found(rows, id) : TRUE) = k
  BY <1>3
<1>6. TheRow(rows, id) = rows[k]
  BY <1>5 DEF TheRow
<1> QED BY <1>1, <1>3, <1>4, <1>6, FS_Singleton

LEMMA RowPushed ==
  ASSUME NEW Rows, NEW rows \in Seq(Rows), NEW rest \in Seq(Rows), rest # <<>>, NEW new, new = <<Head(rest)>> \o rows
  PROVE  /\ new \in Seq(Rows) /\ Tail(rest) \in Seq(Rows)
         /\ \A p, b : Halved(rows, rest, p, b) => Halved(new, Tail(rest), p, b)
<1>1. PICK row, less : row = Head(rest) /\ less = Tail(rest)
  OBVIOUS
<1>2. row \in Rows /\ less \in Seq(Rows) /\ Len(less) = Len(rest) - 1 /\ rest[1] = row /\ Len(rest) \in Nat \ {0}
      /\ \A k \in 1..Len(less) : less[k] = rest[k + 1]
  BY <1>1, HeadTailProperties
<1>3. /\ DOMAIN less = 1..Len(less) /\ DOMAIN rest = 1..Len(rest) /\ 1 \in DOMAIN rest
      /\ \A k \in DOMAIN less : k + 1 \in DOMAIN rest /\ rest[k + 1] = less[k]
      /\ \A x \in DOMAIN rest : x # 1 => x - 1 \in DOMAIN less /\ rest[x] = less[x - 1]
  BY <1>2
<1>4. /\ new \in Seq(Rows) /\ new[1] = row /\ 1 \in DOMAIN new
      /\ \A m \in DOMAIN rows : m + 1 \in DOMAIN new /\ new[m + 1] = rows[m]
      /\ \A x \in DOMAIN new : x # 1 => x - 1 \in DOMAIN rows /\ new[x] = rows[x - 1]
  BY <1>1, <1>2, LogPushed
<1>n. /\ \A k \in DOMAIN less : k \in Nat /\ k + 1 # 1
      /\ \A k \in DOMAIN rows : k \in Nat /\ k + 1 # 1
      /\ \A j, k \in Int : j - 1 = k => j = k + 1
      /\ DOMAIN new \subseteq Int /\ DOMAIN rest \subseteq Int
  BY <1>2, <1>4
<1>5. ASSUME NEW p, NEW b, Holds(rows, p, b), Absent(rest, p) PROVE Holds(new, p, b) /\ Absent(less, p)
  <2>1. PICK k \in DOMAIN rows : rows[k].of = p /\ rows[k].balance = b /\ \A j \in DOMAIN rows : rows[j].of = p => j = k
    BY <1>5 DEF Holds
  <2>2. row.of # p
    BY <1>5, <1>2, <1>3 DEF Absent
  <2>3. ASSUME NEW j \in DOMAIN new, new[j].of = p PROVE j = k + 1
    <3>1. j # 1
      BY <2>2, <2>3, <1>4
    <3>2. j - 1 = k
      BY <3>1, <2>1, <2>3, <1>4
    <3> QED BY <3>2, <1>n
  <2>4. Holds(new, p, b)
    BY <2>1, <2>3, <1>4 DEF Holds
  <2>5. Absent(less, p)
    BY <1>5, <1>3 DEF Absent
  <2> QED BY <2>4, <2>5
<1>6. ASSUME NEW p, NEW b, Absent(rows, p), Holds(rest, p, b) PROVE Halved(new, less, p, b)
  <2>1. PICK k \in DOMAIN rest : rest[k].of = p /\ rest[k].balance = b /\ \A j \in DOMAIN rest : rest[j].of = p => j = k
    BY <1>6 DEF Holds
  <2>2. CASE k = 1
    <3>1. row.of = p /\ row.balance = b
      BY <2>1, <2>2, <1>2
    <3>2. ASSUME NEW j \in DOMAIN new, new[j].of = p PROVE j = 1
      BY <3>2, <1>4, <1>6 DEF Absent
    <3>3. Holds(new, p, b)
      BY <3>1, <3>2, <1>4 DEF Holds
    <3>4. ASSUME NEW j \in DOMAIN less, less[j].of = p PROVE FALSE
      <4>1. j + 1 \in DOMAIN rest /\ rest[j + 1].of = p
        BY <3>4, <1>3
      <4>2. j + 1 = 1
        BY <4>1, <2>1, <2>2
      <4> QED BY <4>2, <1>n
    <3> QED BY <3>3, <3>4 DEF Halved, Absent
  <2>3. CASE k # 1
    <3>1. row.of # p
      BY <2>1, <2>3, <1>2, <1>3
    <3>2. Absent(new, p)
      BY <3>1, <1>4, <1>6 DEF Absent
    <3>3. k - 1 \in DOMAIN less /\ less[k - 1] = rest[k]
      BY <2>3, <1>3
    <3>4. ASSUME NEW j \in DOMAIN less, less[j].of = p PROVE j = k - 1
      <4>1. j + 1 \in DOMAIN rest /\ rest[j + 1].of = p
        BY <3>4, <1>3
      <4>2. j + 1 = k /\ j \in Int
        BY <4>1, <2>1, <1>n
      <4> QED BY <4>2
    <3>5. Holds(less, p, b)
      BY <3>3, <3>4, <2>1 DEF Holds
    <3> QED BY <3>2, <3>5 DEF Halved
  <2> QED BY <2>2, <2>3
<1>7. ASSUME NEW p, NEW b, Halved(rows, rest, p, b) PROVE Halved(new, less, p, b)
  BY <1>5, <1>6, <1>7 DEF Halved
<1> QED BY <1>1, <1>2, <1>4, <1>7
\* A finite set listed: every member once, and nothing else.
ListsOnce(list, S) ==
  list \in Seq(S) /\ \A x \in S : \E k \in DOMAIN list : list[k] = x /\ \A j \in DOMAIN list : list[j] = x => j = k

LEMMA SetListed ==
  ASSUME NEW S, IsFiniteSet(S)
  PROVE  ListsOnce(SetToSeq(S), S)
<1>0. PICK list : list = SetToSeq(S)
  OBVIOUS
<1>1. PICK n : n = Cardinality(S)
  OBVIOUS
<1>2. n \in Nat /\ ExistsBijection(1..n, S)
  BY <1>1, FS_CardinalityType
<1>3. \E f \in [1..n -> S] : IsInjective(f)
  BY <1>2 DEF ExistsBijection, Bijection, Injection
<1>4. list \in [1..n -> S] /\ IsInjective(list)
  BY <1>0, <1>1, <1>3 DEF SetToSeq
<1>5. list \in Surjection(1..n, S)
  <2>1. list \in Injection(1..n, S)
    BY <1>4 DEF Injection
  <2>2. 1 \in Int /\ n \in Int /\ Cardinality(1..n) = IF 1 > n THEN 0 ELSE n - 1 + 1
    BY <1>2, FS_Interval
  <2>3. Cardinality(1..n) = Cardinality(S)
    BY <2>2, <1>1, <1>2
  <2> QED BY <2>1, <2>3, FS_Injection
<1>6. list \in Seq(S) /\ DOMAIN list = 1..n
  BY <1>2, <1>4
<1>7. ASSUME NEW x \in S PROVE \E k \in DOMAIN list : list[k] = x /\ \A j \in DOMAIN list : list[j] = x => j = k
  <2>1. PICK k \in 1..n : list[k] = x
    BY <1>5 DEF Surjection
  <2> QED BY <2>1, <1>4, <1>6 DEF IsInjective
<1> QED BY <1>0, <1>6, <1>7 DEF ListsOnce

SeedRow(p) == [of |-> p, balance |-> SeedBalance, frozen |-> FALSE]

LEMMA SeedLedger ==
  ASSUME NEW rows, rows = SetToSeq({[of |-> p, balance |-> SeedBalance, frozen |-> FALSE] : p \in Holders})
  PROVE  rows \in Seq(WalletRow) /\ \A p \in Holders : Holds(rows, p, SeedBalance)
<1>1. PICK S : S = {SeedRow(p) : p \in Holders}
  OBVIOUS
<1>2. IsFiniteSet(S)
  <2>1. PICK f : f = [p \in Holders |-> SeedRow(p)]
    OBVIOUS
  <2>2. f \in Surjection(Holders, S)
    BY <1>1, <2>1 DEF Surjection
  <2> QED BY <2>2, EconomyAssumption, FS_Surjection
<1>3. rows = SetToSeq(S)
  BY <1>1 DEF SeedRow
<1>4. rows \in Seq(S) /\ \A x \in S : \E k \in DOMAIN rows : rows[k] = x /\ \A j \in DOMAIN rows : rows[j] = x => j = k
  <2>1. ListsOnce(SetToSeq(S), S)
    BY <1>2, SetListed
  <2> QED BY <1>3, <2>1 DEF ListsOnce
<1>5. \A p \in Holders : SeedRow(p) \in WalletRow /\ SeedRow(p).of = p /\ SeedRow(p).balance = SeedBalance
  BY EconomyAssumption DEF SeedRow, WalletRow
<1>6. S \subseteq WalletRow /\ \A x \in S : x = SeedRow(x.of)
  BY <1>1, <1>5
<1>7. rows \in Seq(WalletRow)
  BY <1>4, <1>6, SeqMonotonic
<1>8. ASSUME NEW p \in Holders PROVE Holds(rows, p, SeedBalance)
  <2>1. PICK k \in DOMAIN rows : rows[k] = SeedRow(p) /\ \A j \in DOMAIN rows : rows[j] = SeedRow(p) => j = k
    <3>1. SeedRow(p) \in S
      BY <1>1
    <3> QED BY <3>1, <1>4, Zenon
  <2>2. \A j \in DOMAIN rows : rows[j] \in S
    BY <1>4
  <2>3. \A j \in DOMAIN rows : rows[j].of = p => rows[j] = SeedRow(p)
    BY <2>2, <1>6
  <2> QED BY <2>1, <2>3, <1>5 DEF Holds
<1> QED BY <1>7, <1>8

AdjustRequest == [op : {"adjust"}, of : Holders, key : AdjustKeys, amount : Amounts]

LEMMA DueInt ==
  ASSUME NEW trans \in Seq(AdjustRequest), NEW p
  PROVE  Due(trans, p) \in Int
<1>1. PICK S, f : S = DOMAIN trans /\ f = [k \in DOMAIN trans |-> IF trans[k].of = p THEN trans[k].amount ELSE 0]
  OBVIOUS
<1>2. IsFiniteSet(S)
  <2>1. S = 1..Len(trans) /\ 1 \in Int /\ Len(trans) \in Int
    BY <1>1
  <2> QED BY <2>1, FS_Interval
<1>3. f \in [S -> Int]
  <2>1. \A k \in DOMAIN trans : trans[k] \in AdjustRequest
    OBVIOUS
  <2>2. \A k \in DOMAIN trans : trans[k].amount \in Int
    BY <2>1, EconomyAssumption DEF AdjustRequest
  <2> QED BY <1>1, <2>2
<1>4. Part(f, S) = f /\ S \in SUBSET S
  BY <1>3, WholePart
<1>5. SumFunction(Part(f, S)) \in Int
  BY <1>2, <1>3, <1>4, SumType
<1> QED BY <1>1, <1>4, <1>5, EconomyAssumption DEF Due

LEMMA DueNone ==
  ASSUME NEW p
  PROVE  Due(<<>>, p) = SeedBalance
<1>1. PICK f : f = [k \in DOMAIN <<>> |-> IF <<>>[k].of = p THEN <<>>[k].amount ELSE 0]
  OBVIOUS
<1>2. f \in [{} -> Int]
  BY <1>1
<1>3. Part(f, {}) = f
  BY <1>2, WholePart
<1>4. SumFunction(f) = 0
  BY <1>3, SumEmpty
<1> QED BY <1>1, <1>4, EconomyAssumption DEF Due

LEMMA DueMore ==
  ASSUME NEW trans \in Seq(AdjustRequest), NEW req \in AdjustRequest, NEW p
  PROVE  Due(<<req>> \o trans, p) = Due(trans, p) + Adding(req, p)
<1>0. PICK new : new = <<req>> \o trans
  OBVIOUS
<1>1. PICK S, f : S = DOMAIN trans /\ f = [k \in DOMAIN trans |-> IF trans[k].of = p THEN trans[k].amount ELSE 0]
  OBVIOUS
<1>2. PICK P, g : P = DOMAIN new /\ g = [k \in DOMAIN new |-> IF new[k].of = p THEN new[k].amount ELSE 0]
  OBVIOUS
<1>3. /\ new \in Seq(AdjustRequest) /\ new[1] = req /\ 1 \in DOMAIN new
      /\ \A m \in DOMAIN trans : m + 1 \in DOMAIN new /\ new[m + 1] = trans[m]
      /\ \A x \in DOMAIN new : x # 1 => x - 1 \in DOMAIN trans /\ new[x] = trans[x - 1]
  BY <1>0, LogPushed
<1>4. /\ S \in SUBSET Int /\ P \in SUBSET Int /\ IsFiniteSet(S) /\ IsFiniteSet(P) /\ \A k \in S : k # 0
  <2>1. S = 1..Len(trans) /\ P = 1..Len(new) /\ 1 \in Int /\ Len(trans) \in Int /\ Len(new) \in Int
    BY <1>1, <1>2, <1>3
  <2> QED BY <2>1, FS_Interval
<1>5. P \ {1} = {k + 1 : k \in S} /\ 1 \in P
  <2>1. \A x \in P : x # 1 => x - 1 \in S /\ x = (x - 1) + 1
    BY <1>1, <1>2, <1>3, <1>4
  <2>2. \A k \in S : k + 1 \in P /\ k + 1 # 1
    <3> SUFFICES ASSUME NEW k \in S PROVE k + 1 \in P /\ k + 1 # 1
      OBVIOUS
    <3>1. k + 1 \in P
      BY <1>1, <1>2, <1>3
    <3>2. k \in Int /\ k # 0
      BY <1>4
    <3> QED BY <3>1, <3>2
  <2> QED BY <2>1, <2>2, <1>2, <1>3
<1>6. f \in [S -> Int] /\ g \in [P -> Int]
  <2>0. (\A k \in DOMAIN trans : trans[k] \in AdjustRequest) /\ \A k \in DOMAIN new : new[k] \in AdjustRequest
    BY <1>3
  <2>1. \A k \in DOMAIN trans : trans[k].amount \in Int
    BY <2>0, EconomyAssumption DEF AdjustRequest
  <2>2. \A k \in DOMAIN new : new[k].amount \in Int
    BY <2>0, EconomyAssumption DEF AdjustRequest
  <2> QED BY <1>1, <1>2, <2>1, <2>2
<1>7. \A k \in S : g[k + 1] = f[k]
  BY <1>1, <1>2, <1>3
<1>8. SumFunction(g) = g[1] + SumFunction(f)
  <2>1. Fronted(S, P, f, g)
    BY <1>4, <1>5, <1>6, <1>7 DEF Fronted
  <2> QED BY <2>1, SumFronted
<1>9. g[1] = Adding(req, p) /\ g[1] \in Int
  <2>1. req.op = "adjust"
    BY DEF AdjustRequest
  <2> QED BY <2>1, <1>2, <1>3, <1>5, <1>6 DEF Adding
<1>10. Due(trans, p) = SeedBalance + SumFunction(f) /\ Due(new, p) = SeedBalance + SumFunction(g)
  BY <1>1, <1>2 DEF Due
<1>11. SumFunction(f) \in Int
  <2>1. Part(f, S) = f /\ S \in SUBSET S
    BY <1>6, WholePart
  <2> QED BY <2>1, <1>4, <1>6, SumType
<1> QED BY <1>0, <1>8, <1>9, <1>10, <1>11, EconomyAssumption
EcPoints == {"idle", "lookup", "decide", "push", "append", "audit", "done", "stopped"}
EcRowLists(req) == IF OnWallets(req) THEN Seq(WalletRow) ELSE Seq(ConsoleRow)

\* What a request is, by its operation.
LEMMA EcRequestShape ==
  ASSUME NEW req \in EcRequests
  PROVE  /\ req.op \in {"adjust", "freeze", "unfreeze", "put", "change", "delete"}
         /\ req.op = "adjust" => req \in AdjustRequest /\ req.amount \in Int
         /\ OnWallets(req) => req.of \in Holders
         /\ ~OnWallets(req) => req.of \in RowIds
<1>1. \/ req \in AdjustRequest
      \/ req \in [op : {"freeze", "unfreeze"}, of : Holders]
      \/ req \in [op : {"put", "change"}, of : RowIds]
      \/ req \in [op : {"put", "change", "delete"}, of : RowIds]
  BY DEF EcRequests, OperatorRequests, SuperadminRequests, AdjustRequest
<1>2. CASE req \in AdjustRequest
  <2>1. req.op = "adjust" /\ req.of \in Holders /\ req.amount \in Amounts
    BY <1>2 DEF AdjustRequest
  <2> QED BY <1>2, <2>1, EconomyAssumption DEF OnWallets
<1>3. CASE req \in [op : {"freeze", "unfreeze"}, of : Holders]
  <2>1. req.op \in {"freeze", "unfreeze"} /\ req.of \in Holders
    BY <1>3
  <2> QED BY <2>1 DEF OnWallets
<1>4. CASE req \in [op : {"put", "change"}, of : RowIds] \cup [op : {"put", "change", "delete"}, of : RowIds]
  <2>1. req.op \in {"put", "change", "delete"} /\ req.of \in RowIds
    BY <1>4
  <2> QED BY <2>1 DEF OnWallets
<1> QED BY <1>1, <1>2, <1>3, <1>4

\* The row a wallet request writes: the balance it read, and what it adds.
RowFor(req, old) ==
  IF req.op = "adjust" THEN [old EXCEPT !.balance = @ + req.amount] ELSE [old EXCEPT !.frozen = (req.op = "freeze")]

LEMMA RowDecided ==
  ASSUME NEW req \in EcRequests, OnWallets(req), NEW old \in WalletRow, old.of = req.of,
         req.op = "adjust" => Covers(old.balance, req.amount),
         NEW new, new = RowFor(req, old)
  PROVE  new \in WalletRow /\ new.of = req.of /\ new.balance = old.balance + Adding(req, req.of)
<1>1. old.balance \in Nat /\ old.of \in Holders /\ old.frozen \in BOOLEAN
  BY DEF WalletRow
<1>2. CASE req.op = "adjust"
  <2>1. req.amount \in Int /\ old.balance + req.amount \in Nat
    BY <1>1, <1>2, EcRequestShape DEF Covers
  <2>2. PICK total \in Nat : total = old.balance + req.amount
    BY <2>1
  <2>3. new = [old EXCEPT !.balance = total]
    BY <1>2, <2>2 DEF RowFor
  <2>4. new \in WalletRow /\ new.of = old.of /\ new.balance = total
    BY <2>3 DEF WalletRow
  <2> QED BY <1>2, <2>2, <2>4 DEF Adding
<1>3. CASE req.op # "adjust"
  <2>1. PICK on \in BOOLEAN : on = (req.op = "freeze")
    OBVIOUS
  <2>2. new = [old EXCEPT !.frozen = on]
    BY <1>3, <2>1 DEF RowFor
  <2>3. new \in WalletRow /\ new.of = old.of /\ new.balance = old.balance
    BY <2>2 DEF WalletRow
  <2> QED BY <1>1, <1>3, <2>3 DEF Adding
<1> QED BY <1>2, <1>3

\* The rows a request writes are rows of its list, and every wallet but its own is among them as it was.
LEMMA DecidedRows ==
  ASSUME NEW i \in Edits, NEW req \in EcRequests, req = ecReq[i], NEW rows \in EcRowLists(req),
         req.op # "put" => Found(rows, req.of) # {},
         req.op = "adjust" => Covers(TheRow(rows, req.of).balance, req.amount),
         NEW new, new = Decided(i, rows)
  PROVE  /\ new \in EcRowLists(req)
         /\ OnWallets(req) => /\ new # <<>>
                              /\ \A p \in Holders : \A b \in Int : Holds(rows, p, b) => Holds(new, p, b + Adding(req, p))
<1> DEFINE kept == Others(rows, req.of)
           old == TheRow(rows, req.of)
<1>0. req.op \in {"adjust", "freeze", "unfreeze", "put", "change", "delete"}
  BY EcRequestShape
<1>1. CASE OnWallets(req)
  <2>0. req.op \in {"adjust", "freeze", "unfreeze"} /\ rows \in Seq(WalletRow) /\ Found(rows, req.of) # {}
    BY <1>1 DEF OnWallets, EcRowLists
  <2>1. old \in WalletRow /\ old.of = req.of
    BY <2>0, FoundRow
  <2>2. PICK row : row = RowFor(req, old)
    OBVIOUS
  <2>3. new = Append(kept, row)
    BY <2>0, <2>2 DEF Decided, RowFor
  <2>4. row \in WalletRow /\ row.of = req.of /\ row.balance = old.balance + Adding(req, req.of)
    <3>1. req.op = "adjust" => Covers(old.balance, req.amount)
      OBVIOUS
    <3> HIDE DEF old
    <3> QED BY <1>1, <2>1, <2>2, <3>1, RowDecided
  <2>5. /\ kept \in Seq(WalletRow) /\ Absent(kept, req.of)
        /\ \A p, b : p # req.of /\ Holds(rows, p, b) => Holds(kept, p, b)
    BY <2>0, OthersKept
  <2> HIDE DEF kept, old
  <2>6. /\ new \in Seq(WalletRow) /\ new # <<>>
        /\ \A p, b : row.of # p /\ Holds(kept, p, b) => Holds(new, p, b)
        /\ \A p : row.of = p /\ Absent(kept, p) => Holds(new, p, row.balance)
    BY <2>3, <2>4, <2>5, RowAppended
  <2>7. ASSUME NEW p \in Holders, NEW b \in Int, Holds(rows, p, b) PROVE Holds(new, p, b + Adding(req, p))
    <3>1. CASE p = req.of
      <4>1. old.balance = b
        BY <3>1, <2>0, <2>7, HeldRow DEF old
      <4> QED BY <3>1, <4>1, <2>4, <2>5, <2>6
    <3>2. CASE p # req.of
      <4>1. Adding(req, p) = 0 /\ b + 0 = b
        BY <3>2 DEF Adding
      <4>2. Holds(new, p, b)
        BY <3>2, <2>4, <2>5, <2>6, <2>7
      <4> QED BY <4>1, <4>2
    <3> QED BY <3>1, <3>2
  <2> QED BY <1>1, <2>6, <2>7 DEF EcRowLists
<1>2. CASE ~OnWallets(req)
  <2>0. req.op \in {"put", "change", "delete"} /\ rows \in Seq(ConsoleRow) /\ req.of \in RowIds
    BY <1>0, <1>2, EcRequestShape DEF OnWallets, EcRowLists
  <2>1. kept \in Seq(ConsoleRow)
    BY <2>0, OthersKept
  <2>2. new = kept \/ \E row \in ConsoleRow : new = Append(kept, row)
    <3>1. CASE req.op = "put"
      <4>1. [of |-> req.of] \in ConsoleRow
        BY <2>0 DEF ConsoleRow
      <4>2. new = Append(kept, [of |-> req.of])
        BY <3>1 DEF Decided
      <4> QED BY <4>1, <4>2
    <3>2. CASE req.op = "change"
      <4>1. old \in ConsoleRow
        BY <3>2, <2>0, FoundRow
      <4>2. new = Append(kept, old)
        BY <3>2 DEF Decided
      <4> QED BY <4>1, <4>2
    <3>3. CASE req.op = "delete"
      BY <3>3 DEF Decided
    <3> QED BY <2>0, <3>1, <3>2, <3>3
  <2> HIDE DEF kept
  <2>3. new \in Seq(ConsoleRow)
    BY <2>1, <2>2
  <2> QED BY <1>2, <2>3 DEF EcRowLists
<1> QED BY <1>1, <1>2
\* A request that works alone and where it has come with the ledger.
LEMMA EditAlone ==
  ASSUME EcInv, ~ecOverlap, NEW i \in Edits, EcBusy(i)
  PROVE  /\ \A j \in Edits : j # i => ~EcBusy(j)
         /\ OneKeyEach
         /\ \A at, req, rows, wallets, trans :
              at = ecAt[i] /\ req = ecReq[i] /\ rows = ecWrite[i] /\ wallets = ecWallets /\ trans = ecTrans =>
                IF OnWallets(req) THEN Ledger(at, req, rows, wallets, trans) ELSE \A p \in Holders : Holds(wallets, p, Due(trans, p))
<1>1. LedgerHolds
  BY DEF EcInv
<1>2. \A j \in Edits : j # i => ~EcBusy(j)
  BY <1>1 DEF LedgerHolds, Alone
<1>3. OneKeyEach
  BY <1>1 DEF LedgerHolds
<1>4. CASE OnWallets(ecReq[i])
  <2>1. Ledger(ecAt[i], ecReq[i], ecWrite[i], ecWallets, ecTrans)
    BY <1>1, <1>4 DEF LedgerHolds
  <2> QED BY <1>2, <1>3, <1>4, <2>1
<1>5. CASE ~OnWallets(ecReq[i])
  <2>1. \A j \in Edits : EcBusy(j) => ~OnWallets(ecReq[j])
    BY <1>2, <1>5
  <2>2. \A p \in Holders : Holds(ecWallets, p, Due(ecTrans, p))
    BY <1>1, <2>1 DEF LedgerHolds
  <2> QED BY <1>2, <1>3, <1>5, <2>2
<1> QED BY <1>4, <1>5

\* One request moves; if it works alone, the ledger is where it has come.
LEMMA EditMoved ==
  ASSUME EcInv, NEW i \in Edits, NEW to \in EcPoints, NEW req, NEW rows, NEW wallets, NEW trans, EcTypes',
         wallets = ecWallets', trans = ecTrans',
         ecAt'[i] = to, ecReq'[i] = req, ecWrite'[i] = rows,
         \A j \in Edits : j # i => ecAt'[j] = ecAt[j] /\ ecReq'[j] = ecReq[j] /\ ecWrite'[j] = ecWrite[j],
         EditSound(to, req, rows),
         ~ecOverlap' => /\ to # "stopped" /\ to # "idle"
                        /\ \A j \in Edits : j # i => ~EcBusy(j)
                        /\ OneKeyEach'
                        /\ OnWallets(req) /\ to # "done" => Ledger(to, req, rows, wallets, trans)
                        /\ to = "done" \/ ~OnWallets(req) => \A p \in Holders : Holds(wallets, p, Due(trans, p))
  PROVE  EcInv'
<1>1. ASSUME NEW j \in Edits, NEW at, NEW r, NEW w, at = ecAt'[j], r = ecReq'[j], w = ecWrite'[j] PROVE EditSound(at, r, w)
  <2>1. CASE j = i
    BY <1>1, <2>1
  <2>2. CASE j # i
    <3>1. EditSound(ecAt[j], ecReq[j], ecWrite[j])
      BY DEF EcInv
    <3>2. at = ecAt[j] /\ r = ecReq[j] /\ w = ecWrite[j]
      BY <1>1, <2>2
    <3> QED BY <3>1, <3>2
  <2> QED BY <2>1, <2>2
<1>2. \A j \in Edits : EditSound(ecAt[j], ecReq[j], ecWrite[j])'
  <2> SUFFICES ASSUME NEW j \in Edits PROVE EditSound(ecAt[j], ecReq[j], ecWrite[j])'
    OBVIOUS
  <2>1. PICK at, r, w : at = ecAt'[j] /\ r = ecReq'[j] /\ w = ecWrite'[j]
    OBVIOUS
  <2>2. EditSound(at, r, w)
    BY <1>1, <2>1
  <2> QED BY <2>1, <2>2 DEF EditSound
<1>3. ASSUME ~ecOverlap' PROVE LedgerHolds'
  <2>1. \A j \in Edits : j # i => ~EcBusy(j)'
    BY <1>3 DEF EcBusy
  <2>2. Alone' /\ OneKeyEach'
    BY <1>3, <2>1 DEF Alone
  <2>3. ASSUME NEW j \in Edits, EcBusy(j)', OnWallets(ecReq[j])'
        PROVE  Ledger(ecAt[j], ecReq[j], ecWrite[j], ecWallets, ecTrans)'
    <3>1. j = i
      BY <2>1, <2>3
    <3>2. to # "done" /\ OnWallets(req)
      BY <2>3, <3>1 DEF EcBusy, OnWallets
    <3>3. Ledger(to, req, rows, wallets, trans)
      BY <1>3, <3>2
    <3> QED BY <3>1, <3>3 DEF Ledger
  <2>4. ASSUME \A j \in Edits : EcBusy(j)' => ~OnWallets(ecReq[j])', NEW p \in Holders
        PROVE  Holds(ecWallets, p, Due(ecTrans, p))'
    <3>1. to = "done" \/ ~OnWallets(req)
      BY <1>3, <2>4 DEF EcBusy, OnWallets
    <3>2. Holds(wallets, p, Due(trans, p))
      BY <1>3, <3>1
    <3> QED BY <3>2 DEF Holds, Due
  <2> QED BY <2>2, <2>3, <2>4 DEF LedgerHolds
<1> QED BY <1>2, <1>3 DEF EcInv

LEMMA EcBegin ==
  ASSUME EcInit
  PROVE  EcInv
<1>1. /\ ecAt = [i \in Edits |-> "idle"] /\ ecWrite = [i \in Edits |-> <<>>] /\ ecRows = <<>> /\ ecTrans = <<>>
      /\ ecAudit = {} /\ ecOverlap = FALSE /\ ecReq = [i \in Edits |-> [op |-> "none"]]
  BY DEF EcInit
<1>2. ecWallets \in Seq(WalletRow) /\ \A p \in Holders : Holds(ecWallets, p, SeedBalance)
  BY SeedLedger DEF EcInit
<1>3. EcTypes
  <2>1. ecAt \in [Edits -> EcPoints] /\ ecAudit \subseteq Edits /\ ecOverlap \in BOOLEAN
    BY <1>1 DEF EcPoints
  <2>2. ecRows \in Seq([of : RowIds]) /\ ecTrans \in Seq([op : {"adjust"}, of : Holders, key : AdjustKeys, amount : Amounts])
    BY <1>1, EmptySeq
  <2>3. ecReq \in [Edits -> EcRequests \cup {[op |-> "none"]}]
    BY <1>1
  <2>4. ecWrite \in [Edits -> Seq(WalletRow) \cup Seq(ConsoleRow)]
    <3>1. <<>> \in Seq(WalletRow)
      BY EmptySeq
    <3> QED BY <1>1, <3>1
  <2> QED BY <1>2, <2>1, <2>2, <2>3, <2>4 DEF EcTypes, EcTypeOK, EcPoints
<1>4. \A i \in Edits : EditSound(ecAt[i], ecReq[i], ecWrite[i]) /\ ~EcBusy(i)
  BY <1>1 DEF EditSound, EcBusy
<1>5. \A p \in Holders : Holds(ecWallets, p, Due(ecTrans, p))
  <2>1. \A p \in Holders : Due(ecTrans, p) = SeedBalance
    BY <1>1, DueNone
  <2> QED BY <1>2, <2>1
<1>6. Alone /\ OneKeyEach
  BY <1>1, <1>4 DEF Alone, OneKeyEach
<1> QED BY <1>3, <1>4, <1>5, <1>6 DEF EcInv, LedgerHolds
\* What the types say, part by part.
EcShape(at, req, write, wallets, rows, trans) ==
  /\ at \in [Edits -> EcPoints] /\ req \in [Edits -> EcRequests \cup {[op |-> "none"]}]
  /\ write \in [Edits -> Seq(WalletRow) \cup Seq(ConsoleRow)]
  /\ wallets \in Seq(WalletRow) /\ rows \in Seq(ConsoleRow) /\ trans \in Seq(AdjustRequest)

LEMMA EcShapes ==
  EcTypes <=> EcShape(ecAt, ecReq, ecWrite, ecWallets, ecRows, ecTrans) /\ ecAudit \subseteq Edits /\ ecOverlap \in BOOLEAN
BY DEF EcTypes, EcTypeOK, EcShape, EcPoints, ConsoleRow, AdjustRequest

LEMMA EcListRow ==
  ASSUME NEW req, NEW rows \in EcRowLists(req)
  PROVE  rows \in Seq(WalletRow) \cup Seq(ConsoleRow)
BY DEF EcRowLists

LEMMA ReadsKeep ==
  ASSUME EcInv, NEW i \in Edits, EcReads(i)
  PROVE  EcInv'
<1>1. PICK req \in EcRequests :
        /\ ecReq' = [ecReq EXCEPT ![i] = req]
        /\ EcStep(i, "idle", IF req.op # "put" /\ Found(IF OnWallets(req) THEN ecWallets ELSE ecRows, req.of) = {} THEN "done"
                             ELSE IF req.op = "adjust" THEN "lookup" ELSE "decide")
        /\ ecWrite' = [ecWrite EXCEPT ![i] = IF OnWallets(req) THEN ecWallets ELSE ecRows]
        /\ ecOverlap' = (ecOverlap \/ \E j \in Edits \ {i} : EcBusy(j))
        /\ UNCHANGED <<ecWallets, ecRows, ecTrans, ecAudit>>
  BY DEF EcReads, EcRequests
<1>2. PICK rows : rows = IF OnWallets(req) THEN ecWallets ELSE ecRows
  OBVIOUS
<1>3. PICK to : to = IF req.op # "put" /\ Found(rows, req.of) = {} THEN "done" ELSE IF req.op = "adjust" THEN "lookup" ELSE "decide"
  OBVIOUS
<1>4. /\ ecReq' = [ecReq EXCEPT ![i] = req] /\ ecAt' = [ecAt EXCEPT ![i] = to] /\ ecWrite' = [ecWrite EXCEPT ![i] = rows]
      /\ ecAt[i] = "idle" /\ ecWallets' = ecWallets /\ ecRows' = ecRows /\ ecTrans' = ecTrans /\ ecAudit' = ecAudit
  BY <1>1, <1>2, <1>3 DEF EcStep
<1>5. to \in {"done", "lookup", "decide"} /\ to \in EcPoints
  BY <1>3 DEF EcPoints
<1>6. EcShape(ecAt, ecReq, ecWrite, ecWallets, ecRows, ecTrans) /\ ecAudit \subseteq Edits /\ ecOverlap \in BOOLEAN
  BY EcShapes DEF EcInv
<1>7. rows \in EcRowLists(req) /\ rows \in Seq(WalletRow) \cup Seq(ConsoleRow)
  BY <1>2, <1>6 DEF EcShape, EcRowLists
<1>8. EcTypes'
  <2>1. EcShape(ecAt', ecReq', ecWrite', ecWallets', ecRows', ecTrans')
    BY <1>4, <1>5, <1>6, <1>7 DEF EcShape
  <2>2. ecAudit' \subseteq Edits /\ ecOverlap' \in BOOLEAN
    BY <1>1, <1>4, <1>6
  <2> QED BY <2>1, <2>2 DEF EcTypes, EcTypeOK, EcShape, EcPoints, ConsoleRow, AdjustRequest
<1>9. /\ ecAt'[i] = to /\ ecReq'[i] = req /\ ecWrite'[i] = rows
      /\ \A j \in Edits : j # i => ecAt'[j] = ecAt[j] /\ ecReq'[j] = ecReq[j] /\ ecWrite'[j] = ecWrite[j]
  BY <1>4, <1>6 DEF EcShape
<1>10. EditSound(to, req, rows)
  <2>1. to = "lookup" => req.op = "adjust"
    BY <1>3
  <2>2. to = "decide" => req.op # "adjust"
    BY <1>3
  <2>3. to \in {"lookup", "decide"} /\ req.op # "put" => Found(rows, req.of) # {}
    BY <1>3
  <2> QED BY <1>5, <1>7, <2>1, <2>2, <2>3 DEF EditSound, EcRowLists
<1>11. ASSUME ~ecOverlap'
       PROVE  /\ \A j \in Edits : j # i => ~EcBusy(j)
              /\ OneKeyEach'
              /\ \A p \in Holders : Holds(ecWallets, p, Due(ecTrans, p))
  <2>1. ~ecOverlap /\ \A j \in Edits : j # i => ~EcBusy(j)
    BY <1>1, <1>11
  <2>2. \A j \in Edits : ~EcBusy(j)
    BY <2>1, <1>4 DEF EcBusy
  <2>3. LedgerHolds
    BY <2>1 DEF EcInv
  <2>4. OneKeyEach'
    BY <2>3, <1>4 DEF LedgerHolds, OneKeyEach
  <2> QED BY <2>1, <2>2, <2>3, <2>4 DEF LedgerHolds
<1>12. PICK wallets, trans : wallets = ecWallets /\ trans = ecTrans
  OBVIOUS
<1>13. ASSUME ~ecOverlap', OnWallets(req), to # "done" PROVE Ledger(to, req, rows, wallets, trans)
  <2>1. rows = wallets /\ \A p \in Holders : Holds(wallets, p, Due(trans, p))
    BY <1>2, <1>11, <1>12, <1>13
  <2>2. to = "lookup" \/ (to = "decide" /\ req.op # "adjust")
    BY <1>3, <1>13
  <2> QED BY <2>1, <2>2 DEF Ledger
<1>14. ~ecOverlap' => \A p \in Holders : Holds(wallets, p, Due(trans, p))
  BY <1>11, <1>12
<1> QED BY <1>4, <1>5, <1>8, <1>9, <1>10, <1>11, <1>12, <1>13, <1>14, EditMoved

LEMMA LooksUpKeeps ==
  ASSUME EcInv, NEW i \in Edits, EcLooksUp(i)
  PROVE  EcInv'
<1>1. PICK at, req, rows, wallets, trans : at = ecAt[i] /\ req = ecReq[i] /\ rows = ecWrite[i] /\ wallets = ecWallets /\ trans = ecTrans
  OBVIOUS
<1>2. PICK to : to = IF AdjustAnswered(req) \/ ~Covers(TheRow(rows, req.of).balance, req.amount) THEN "done" ELSE "decide"
  OBVIOUS
<1>3. /\ at = "lookup" /\ ecAt' = [ecAt EXCEPT ![i] = to]
      /\ UNCHANGED <<ecReq, ecWrite, ecWallets, ecRows, ecTrans, ecAudit, ecOverlap>>
  BY <1>1, <1>2 DEF EcLooksUp, EcStep
<1>4. EditSound("lookup", req, rows)
  BY <1>1, <1>3 DEF EcInv
<1>5. req.op = "adjust" /\ OnWallets(req) /\ req \in EcRequests /\ rows \in Seq(WalletRow) /\ Found(rows, req.of) # {}
  BY <1>4 DEF EditSound, OnWallets
<1>6. to \in {"done", "decide"} /\ to \in EcPoints
  BY <1>2 DEF EcPoints
<1>7. EcShape(ecAt, ecReq, ecWrite, ecWallets, ecRows, ecTrans) /\ ecAudit \subseteq Edits /\ ecOverlap \in BOOLEAN
  BY EcShapes DEF EcInv
<1>8. EcTypes'
  <2>1. EcShape(ecAt', ecReq', ecWrite', ecWallets', ecRows', ecTrans') /\ ecAudit' \subseteq Edits /\ ecOverlap' \in BOOLEAN
    BY <1>3, <1>6, <1>7 DEF EcShape
  <2> QED BY <2>1 DEF EcTypes, EcTypeOK, EcShape, EcPoints, ConsoleRow, AdjustRequest
<1>9. /\ ecAt'[i] = to /\ ecReq'[i] = req /\ ecWrite'[i] = rows /\ wallets = ecWallets' /\ trans = ecTrans'
      /\ \A j \in Edits : j # i => ecAt'[j] = ecAt[j] /\ ecReq'[j] = ecReq[j] /\ ecWrite'[j] = ecWrite[j]
  BY <1>1, <1>3, <1>7 DEF EcShape
<1>10. EditSound(to, req, rows)
  BY <1>2, <1>5, <1>6 DEF EditSound
<1>11. ASSUME ~ecOverlap'
       PROVE  /\ \A j \in Edits : j # i => ~EcBusy(j)
              /\ OneKeyEach' /\ Ledger("lookup", req, rows, wallets, trans)
  <2>1. ~ecOverlap /\ EcBusy(i)
    BY <1>1, <1>3, <1>11 DEF EcBusy
  <2>2. (\A j \in Edits : j # i => ~EcBusy(j)) /\ OneKeyEach /\ Ledger("lookup", req, rows, wallets, trans)
    BY <2>1, <1>1, <1>3, <1>5, EditAlone
  <2> QED BY <2>2, <1>3 DEF OneKeyEach
<1>12. ~ecOverlap' => \A p \in Holders : Holds(wallets, p, Due(trans, p))
  BY <1>11 DEF Ledger
<1>13. ASSUME ~ecOverlap', to # "done" PROVE Ledger(to, req, rows, wallets, trans)
  <2>1. to = "decide" /\ ~AdjustAnswered(req)
    BY <1>2, <1>6, <1>13
  <2>2. NewKey(req, trans)
    BY <2>1, <1>1 DEF AdjustAnswered, NewKey
  <2>3. rows = wallets
    BY <1>11, <1>13 DEF Ledger
  <2> QED BY <2>1, <2>2, <2>3, <1>12, <1>13 DEF Ledger
<1> QED BY <1>5, <1>6, <1>8, <1>9, <1>10, <1>11, <1>12, <1>13, EditMoved
\* What an edit's request comes to when its last row is written.
LEMMA AfterRows ==
  ASSUME NEW i \in Edits, NEW req \in EcRequests, req = ecReq[i], NEW rest, NEW to, to = AfterWrite(i, rest)
  PROVE  /\ to \in {"push", "append", "audit"} /\ to \in EcPoints
         /\ to = "push" <=> rest # <<>>
         /\ to = "append" => req.op = "adjust"
         /\ to = "audit" => req.op # "adjust"
BY DEF AfterWrite, EcPoints

LEMMA ClearsKeep ==
  ASSUME EcInv, NEW i \in Edits, EcClears(i)
  PROVE  EcInv'
<1>1. PICK at, req, old, trans : at = ecAt[i] /\ req = ecReq[i] /\ old = ecWrite[i] /\ trans = ecTrans
  OBVIOUS
<1>2. PICK rows, wallets : rows = Decided(i, old) /\ wallets = ecWallets'
  OBVIOUS
<1>3. PICK to : to = AfterWrite(i, rows)
  OBVIOUS
<1>4. /\ at = "decide" /\ ecAt' = [ecAt EXCEPT ![i] = to] /\ ecWrite' = [ecWrite EXCEPT ![i] = rows]
      /\ ecReq' = ecReq /\ ecTrans' = ecTrans /\ ecAudit' = ecAudit /\ ecOverlap' = ecOverlap
      /\ OnWallets(req) => ecWallets' = <<>> /\ ecRows' = ecRows
      /\ ~OnWallets(req) => ecRows' = <<>> /\ ecWallets' = ecWallets
  BY <1>1, <1>2, <1>3 DEF EcClears, EcStep, Cleared
<1>5. EditSound("decide", req, old)
  BY <1>1, <1>4 DEF EcInv
<1>6. req \in EcRequests /\ old \in EcRowLists(req)
  BY <1>5 DEF EditSound, EcRowLists
<1>7. /\ req.op # "put" => Found(old, req.of) # {}
      /\ req.op = "adjust" => Covers(TheRow(old, req.of).balance, req.amount)
  BY <1>5 DEF EditSound
<1>8. /\ rows \in EcRowLists(req)
      /\ OnWallets(req) => /\ rows # <<>>
                           /\ \A p \in Holders : \A b \in Int : Holds(old, p, b) => Holds(rows, p, b + Adding(req, p))
  BY <1>1, <1>2, <1>6, <1>7, DecidedRows
<1>9. /\ to \in {"push", "append", "audit"} /\ to \in EcPoints /\ (to = "push" <=> rows # <<>>)
      /\ to = "append" => req.op = "adjust"
  BY <1>1, <1>3, <1>6, AfterRows
<1>10. EcShape(ecAt, ecReq, ecWrite, ecWallets, ecRows, ecTrans) /\ ecAudit \subseteq Edits /\ ecOverlap \in BOOLEAN
  BY EcShapes DEF EcInv
<1>11. EcTypes'
  <2>1. rows \in Seq(WalletRow) \cup Seq(ConsoleRow)
    BY <1>8, EcListRow
  <2>2. ecWallets' \in Seq(WalletRow) /\ ecRows' \in Seq(ConsoleRow)
    BY <1>4, <1>10, EmptySeq DEF EcShape
  <2>3. EcShape(ecAt', ecReq', ecWrite', ecWallets', ecRows', ecTrans') /\ ecAudit' \subseteq Edits /\ ecOverlap' \in BOOLEAN
    BY <1>4, <1>9, <1>10, <2>1, <2>2 DEF EcShape
  <2> QED BY <2>3 DEF EcTypes, EcTypeOK, EcShape, EcPoints, ConsoleRow, AdjustRequest
<1>12. /\ ecAt'[i] = to /\ ecReq'[i] = req /\ ecWrite'[i] = rows /\ trans = ecTrans'
       /\ \A j \in Edits : j # i => ecAt'[j] = ecAt[j] /\ ecReq'[j] = ecReq[j] /\ ecWrite'[j] = ecWrite[j]
  BY <1>1, <1>4, <1>10 DEF EcShape
<1>13. EditSound(to, req, rows)
  BY <1>6, <1>8, <1>9 DEF EditSound, EcRowLists
<1>14. ASSUME ~ecOverlap'
       PROVE  /\ \A j \in Edits : j # i => ~EcBusy(j)
              /\ OneKeyEach'
              /\ IF OnWallets(req) THEN Ledger("decide", req, old, ecWallets, trans)
                                   ELSE \A p \in Holders : Holds(wallets, p, Due(trans, p))
  <2>1. ~ecOverlap /\ EcBusy(i)
    BY <1>1, <1>4, <1>14 DEF EcBusy
  <2>2. /\ (\A j \in Edits : j # i => ~EcBusy(j)) /\ OneKeyEach
        /\ IF OnWallets(req) THEN Ledger("decide", req, old, ecWallets, trans)
                             ELSE \A p \in Holders : Holds(ecWallets, p, Due(trans, p))
    BY <2>1, <1>1, <1>4, EditAlone
  <2>3. ~OnWallets(req) => wallets = ecWallets
    BY <1>2, <1>4
  <2> QED BY <2>2, <2>3, <1>4 DEF OneKeyEach
<1>15. ASSUME ~ecOverlap', OnWallets(req) PROVE Ledger(to, req, rows, wallets, trans)
  <2>1. Ledger("decide", req, old, ecWallets, trans)
    BY <1>14, <1>15
  <2>2. to = "push" /\ wallets = <<>>
    BY <1>2, <1>4, <1>8, <1>9, <1>15
  <2>3. (req.op = "adjust" => NewKey(req, trans)) /\ \A p \in Holders : Holds(old, p, Due(trans, p))
    BY <2>1 DEF Ledger
  <2>4. ASSUME NEW p \in Holders PROVE Halved(wallets, rows, p, Due(trans, p) + Adding(req, p))
    <3>1. trans \in Seq(AdjustRequest)
      BY <1>1, <1>10 DEF EcShape
    <3>2. Due(trans, p) \in Int
      BY <3>1, DueInt
    <3>3. Holds(rows, p, Due(trans, p) + Adding(req, p))
      BY <3>2, <2>3, <1>8, <1>15
    <3> QED BY <3>3, <2>2, NoRows DEF Halved
  <2> QED BY <2>2, <2>3, <2>4 DEF Ledger
<1>16. to # "stopped" /\ to # "idle" /\ to # "done"
  BY <1>9
<1> QED BY <1>2, <1>9, <1>11, <1>12, <1>13, <1>14, <1>15, <1>16, EditMoved

LEMMA PushesKeep ==
  ASSUME EcInv, NEW i \in Edits, EcPushes(i)
  PROVE  EcInv'
<1>1. PICK at, req, rest, trans, before : at = ecAt[i] /\ req = ecReq[i] /\ rest = ecWrite[i] /\ trans = ecTrans /\ before = ecWallets
  OBVIOUS
<1>2. PICK rows, wallets : rows = Tail(rest) /\ wallets = ecWallets'
  OBVIOUS
<1>3. PICK to : to = AfterWrite(i, rows)
  OBVIOUS
<1>4. /\ at = "push" /\ ecAt' = [ecAt EXCEPT ![i] = to] /\ ecWrite' = [ecWrite EXCEPT ![i] = rows]
      /\ ecReq' = ecReq /\ ecTrans' = ecTrans /\ ecAudit' = ecAudit /\ ecOverlap' = ecOverlap
      /\ OnWallets(req) => ecWallets' = <<Head(rest)>> \o before /\ ecRows' = ecRows
      /\ ~OnWallets(req) => ecRows' = <<Head(rest)>> \o ecRows /\ ecWallets' = ecWallets
  BY <1>1, <1>2, <1>3 DEF EcPushes, EcStep
<1>5. EditSound("push", req, rest)
  BY <1>1, <1>4 DEF EcInv
<1>6. req \in EcRequests /\ rest \in EcRowLists(req) /\ rest # <<>>
  BY <1>5 DEF EditSound, EcRowLists
<1>7. EcShape(ecAt, ecReq, ecWrite, ecWallets, ecRows, ecTrans) /\ ecAudit \subseteq Edits /\ ecOverlap \in BOOLEAN
  BY EcShapes DEF EcInv
<1>8. before \in Seq(WalletRow) /\ ecRows \in Seq(ConsoleRow) /\ trans \in Seq(AdjustRequest)
  BY <1>1, <1>7 DEF EcShape
<1>9. ASSUME OnWallets(req)
      PROVE  /\ wallets \in Seq(WalletRow) /\ rows \in Seq(WalletRow)
             /\ \A p, b : Halved(before, rest, p, b) => Halved(wallets, rows, p, b)
  <2>1. rest \in Seq(WalletRow) /\ wallets = <<Head(rest)>> \o before
    BY <1>2, <1>4, <1>6, <1>9 DEF EcRowLists
  <2> QED BY <2>1, <1>2, <1>6, <1>8, RowPushed
<1>10. ASSUME ~OnWallets(req)
       PROVE  rows \in Seq(ConsoleRow) /\ ecRows' \in Seq(ConsoleRow)
  <2>1. rest \in Seq(ConsoleRow) /\ ecRows' = <<Head(rest)>> \o ecRows
    BY <1>4, <1>6, <1>10 DEF EcRowLists
  <2> QED BY <2>1, <1>2, <1>6, <1>8, RowPushed
<1>11. rows \in EcRowLists(req) /\ ecWallets' \in Seq(WalletRow) /\ ecRows' \in Seq(ConsoleRow)
  BY <1>2, <1>4, <1>8, <1>1, <1>9, <1>10 DEF EcRowLists
<1>12. /\ to \in {"push", "append", "audit"} /\ to \in EcPoints /\ (to = "push" <=> rows # <<>>)
       /\ to = "append" => req.op = "adjust"
       /\ to = "audit" => req.op # "adjust"
  BY <1>1, <1>3, <1>6, AfterRows
<1>13. EcTypes'
  <2>1. rows \in Seq(WalletRow) \cup Seq(ConsoleRow)
    BY <1>11, EcListRow
  <2>2. EcShape(ecAt', ecReq', ecWrite', ecWallets', ecRows', ecTrans') /\ ecAudit' \subseteq Edits /\ ecOverlap' \in BOOLEAN
    BY <1>4, <1>7, <1>11, <1>12, <2>1 DEF EcShape
  <2> QED BY <2>2 DEF EcTypes, EcTypeOK, EcShape, EcPoints, ConsoleRow, AdjustRequest
<1>14. /\ ecAt'[i] = to /\ ecReq'[i] = req /\ ecWrite'[i] = rows /\ trans = ecTrans'
       /\ \A j \in Edits : j # i => ecAt'[j] = ecAt[j] /\ ecReq'[j] = ecReq[j] /\ ecWrite'[j] = ecWrite[j]
  BY <1>1, <1>4, <1>7 DEF EcShape
<1>15. EditSound(to, req, rows)
  BY <1>6, <1>11, <1>12 DEF EditSound, EcRowLists
<1>16. ASSUME ~ecOverlap'
       PROVE  /\ \A j \in Edits : j # i => ~EcBusy(j)
              /\ OneKeyEach'
              /\ IF OnWallets(req) THEN Ledger("push", req, rest, before, trans)
                                   ELSE \A p \in Holders : Holds(wallets, p, Due(trans, p))
  <2>1. ~ecOverlap /\ EcBusy(i)
    BY <1>1, <1>4, <1>16 DEF EcBusy
  <2>2. /\ (\A j \in Edits : j # i => ~EcBusy(j)) /\ OneKeyEach
        /\ IF OnWallets(req) THEN Ledger("push", req, rest, before, trans)
                             ELSE \A p \in Holders : Holds(before, p, Due(trans, p))
    BY <2>1, <1>1, <1>4, EditAlone
  <2>3. ~OnWallets(req) => wallets = before
    BY <1>1, <1>2, <1>4
  <2> QED BY <2>2, <2>3, <1>4 DEF OneKeyEach
<1>17. ASSUME ~ecOverlap', OnWallets(req) PROVE Ledger(to, req, rows, wallets, trans)
  <2>1. (req.op = "adjust" => NewKey(req, trans)) /\ \A p \in Holders : Halved(before, rest, p, Due(trans, p) + Adding(req, p))
    BY <1>16, <1>17 DEF Ledger
  <2>2. \A p \in Holders : Halved(wallets, rows, p, Due(trans, p) + Adding(req, p))
    BY <2>1, <1>9, <1>17
  <2>3. CASE to = "push"
    BY <2>1, <2>2, <2>3 DEF Ledger
  <2>4. CASE to # "push"
    <3>1. \A p \in Holders : Holds(wallets, p, Due(trans, p) + Adding(req, p))
      BY <2>2, <2>4, <1>12, NoRows DEF Halved
    <3>2. CASE to = "append"
      BY <3>1, <3>2, <2>1 DEF Ledger
    <3>3. CASE to = "audit"
      <4>1. ASSUME NEW p \in Holders PROVE Holds(wallets, p, Due(trans, p))
        <5>1. Adding(req, p) = 0 /\ Due(trans, p) \in Int
          BY <3>3, <1>8, <1>12, DueInt DEF Adding
        <5>2. Due(trans, p) + Adding(req, p) = Due(trans, p)
          BY <5>1
        <5>3. Holds(wallets, p, Due(trans, p) + Adding(req, p))
          BY <3>1
        <5> QED BY <5>2, <5>3
      <4> QED BY <3>3, <4>1 DEF Ledger
    <3> QED BY <3>2, <3>3, <2>4, <1>12
  <2> QED BY <2>3, <2>4
<1>18. to # "stopped" /\ to # "idle" /\ to # "done"
  BY <1>12
<1> QED BY <1>2, <1>12, <1>13, <1>14, <1>15, <1>16, <1>17, <1>18, EditMoved
LEMMA AppendsKeep ==
  ASSUME EcInv, NEW i \in Edits, EcAppends(i)
  PROVE  EcInv'
<1>1. PICK req, rows, wallets, old, trans : req = ecReq[i] /\ rows = ecWrite[i] /\ wallets = ecWallets /\ old = ecTrans /\ trans = ecTrans'
  OBVIOUS
<1>2. /\ ecAt[i] = "append" /\ ecAt' = [ecAt EXCEPT ![i] = "audit"] /\ trans = <<req>> \o old
      /\ UNCHANGED <<ecReq, ecWrite, ecWallets, ecRows, ecAudit, ecOverlap>>
  BY <1>1 DEF EcAppends, EcStep
<1>3. EditSound("append", req, rows)
  BY <1>1, <1>2 DEF EcInv
<1>4. req.op = "adjust" /\ req \in EcRequests /\ OnWallets(req) /\ req \in AdjustRequest
  <2>1. req.op = "adjust" /\ req \in EcRequests
    BY <1>3 DEF EditSound
  <2> QED BY <2>1, EcRequestShape DEF OnWallets
<1>5. EcShape(ecAt, ecReq, ecWrite, ecWallets, ecRows, ecTrans) /\ ecAudit \subseteq Edits /\ ecOverlap \in BOOLEAN
  BY EcShapes DEF EcInv
<1>6. /\ trans \in Seq(AdjustRequest) /\ old \in Seq(AdjustRequest) /\ trans[1] = req
      /\ \A x \in DOMAIN trans : x # 1 => x - 1 \in DOMAIN old /\ trans[x] = old[x - 1]
      /\ \A x \in DOMAIN trans : x \in Int
  <2>1. old \in Seq(AdjustRequest)
    BY <1>1, <1>5 DEF EcShape
  <2>2. trans \in Seq(AdjustRequest) /\ trans[1] = req /\ \A x \in DOMAIN trans : x # 1 => x - 1 \in DOMAIN old /\ trans[x] = old[x - 1]
    BY <2>1, <1>2, <1>4, LogPushed
  <2> QED BY <2>1, <2>2
<1>7. EcTypes'
  <2>1. "audit" \in EcPoints
    BY DEF EcPoints
  <2>2. EcShape(ecAt', ecReq', ecWrite', ecWallets', ecRows', ecTrans') /\ ecAudit' \subseteq Edits /\ ecOverlap' \in BOOLEAN
    BY <1>1, <1>2, <1>5, <1>6, <2>1 DEF EcShape
  <2> QED BY <2>2 DEF EcTypes, EcTypeOK, EcShape, EcPoints, ConsoleRow, AdjustRequest
<1>8. /\ ecAt'[i] = "audit" /\ ecReq'[i] = req /\ ecWrite'[i] = rows /\ wallets = ecWallets'
      /\ \A j \in Edits : j # i => ecAt'[j] = ecAt[j] /\ ecReq'[j] = ecReq[j] /\ ecWrite'[j] = ecWrite[j]
  BY <1>1, <1>2, <1>5 DEF EcShape
<1>9. EditSound("audit", req, rows)
  BY <1>4 DEF EditSound
<1>10. ASSUME ~ecOverlap'
       PROVE  (\A j \in Edits : j # i => ~EcBusy(j)) /\ OneKeyEach /\ Ledger("append", req, rows, wallets, old)
  <2>1. ~ecOverlap /\ EcBusy(i)
    BY <1>2, <1>10 DEF EcBusy
  <2> QED BY <2>1, <1>1, <1>2, <1>4, EditAlone
<1>11. ASSUME ~ecOverlap' PROVE OneKeyEach'
  <2>1. NewKey(req, old) /\ \A x, y \in DOMAIN old : old[x].key = old[y].key => x = y
    BY <1>1, <1>4, <1>10, <1>11 DEF Ledger, OneKeyEach
  <2>2. ASSUME NEW x \in DOMAIN trans, NEW y \in DOMAIN trans, trans[x].key = trans[y].key PROVE x = y
    <3>1. CASE x = 1 /\ y = 1
      BY <3>1
    <3>2. CASE (x = 1 /\ y # 1) \/ (x # 1 /\ y = 1)
      BY <3>2, <2>1, <2>2, <1>6 DEF NewKey
    <3>3. CASE x # 1 /\ y # 1
      <4>1. x - 1 = y - 1
        BY <3>3, <2>1, <2>2, <1>6
      <4>2. x \in Int /\ y \in Int
        BY <1>6
      <4> QED BY <4>1, <4>2
    <3> QED BY <3>1, <3>2, <3>3
  <2> QED BY <1>1, <2>2 DEF OneKeyEach
<1>12. ASSUME ~ecOverlap' PROVE Ledger("audit", req, rows, wallets, trans)
  <2>1. \A p \in Holders : Holds(wallets, p, Due(old, p) + Adding(req, p))
    BY <1>4, <1>10, <1>12 DEF Ledger
  <2>2. \A p \in Holders : Due(trans, p) = Due(old, p) + Adding(req, p)
    <3>1. old \in Seq(AdjustRequest) /\ req \in AdjustRequest /\ trans = <<req>> \o old
      BY <1>2, <1>4, <1>6
    <3>2. ASSUME NEW p \in Holders PROVE Due(<<req>> \o old, p) = Due(old, p) + Adding(req, p)
      BY <3>1, DueMore
    <3> QED BY <3>1, <3>2
  <2>3. \A p \in Holders : Holds(wallets, p, Due(trans, p))
    BY <2>1, <2>2
  <2> QED BY <2>3 DEF Ledger
<1>13. "audit" \in EcPoints
  BY DEF EcPoints
<1> QED BY <1>1, <1>4, <1>7, <1>8, <1>9, <1>10, <1>11, <1>12, <1>13, EditMoved

LEMMA AuditsKeep ==
  ASSUME EcInv, NEW i \in Edits, EcAudits(i)
  PROVE  EcInv'
<1>1. PICK req, rows, wallets, trans : req = ecReq[i] /\ rows = ecWrite[i] /\ wallets = ecWallets /\ trans = ecTrans
  OBVIOUS
<1>2. /\ ecAt[i] = "audit" /\ ecAt' = [ecAt EXCEPT ![i] = "done"] /\ ecAudit' = ecAudit \cup {i}
      /\ UNCHANGED <<ecReq, ecWrite, ecWallets, ecRows, ecTrans, ecOverlap>>
  BY DEF EcAudits, EcStep
<1>3. EcShape(ecAt, ecReq, ecWrite, ecWallets, ecRows, ecTrans) /\ ecAudit \subseteq Edits /\ ecOverlap \in BOOLEAN
  BY EcShapes DEF EcInv
<1>4. "done" \in EcPoints
  BY DEF EcPoints
<1>5. EcTypes'
  <2>1. EcShape(ecAt', ecReq', ecWrite', ecWallets', ecRows', ecTrans') /\ ecAudit' \subseteq Edits /\ ecOverlap' \in BOOLEAN
    BY <1>2, <1>3, <1>4 DEF EcShape
  <2> QED BY <2>1 DEF EcTypes, EcTypeOK, EcShape, EcPoints, ConsoleRow, AdjustRequest
<1>6. /\ ecAt'[i] = "done" /\ ecReq'[i] = req /\ ecWrite'[i] = rows /\ wallets = ecWallets' /\ trans = ecTrans'
      /\ \A j \in Edits : j # i => ecAt'[j] = ecAt[j] /\ ecReq'[j] = ecReq[j] /\ ecWrite'[j] = ecWrite[j]
  BY <1>1, <1>2, <1>3 DEF EcShape
<1>7. EditSound("done", req, rows)
  BY DEF EditSound
<1>8. ASSUME ~ecOverlap'
      PROVE  (\A j \in Edits : j # i => ~EcBusy(j)) /\ OneKeyEach' /\ \A p \in Holders : Holds(wallets, p, Due(trans, p))
  <2>1. ~ecOverlap /\ EcBusy(i)
    BY <1>2, <1>8 DEF EcBusy
  <2>2. /\ (\A j \in Edits : j # i => ~EcBusy(j)) /\ OneKeyEach
        /\ IF OnWallets(req) THEN Ledger("audit", req, rows, wallets, trans) ELSE \A p \in Holders : Holds(wallets, p, Due(trans, p))
    BY <2>1, <1>1, <1>2, EditAlone
  <2>3. \A p \in Holders : Holds(wallets, p, Due(trans, p))
    BY <2>2 DEF Ledger
  <2> QED BY <2>2, <2>3, <1>2 DEF OneKeyEach
<1> QED BY <1>4, <1>5, <1>6, <1>7, <1>8, EditMoved

LEMMA StopsKeep ==
  ASSUME EcInv, NEW i \in Edits, EcStops(i)
  PROVE  EcInv'
<1>1. PICK req, rows, wallets, trans : req = ecReq[i] /\ rows = ecWrite[i] /\ wallets = ecWallets /\ trans = ecTrans
  OBVIOUS
<1>2. /\ ecAt' = [ecAt EXCEPT ![i] = "stopped"] /\ ecOverlap' = TRUE
      /\ UNCHANGED <<ecReq, ecWrite, ecWallets, ecRows, ecTrans, ecAudit>>
  BY DEF EcStops
<1>3. EcShape(ecAt, ecReq, ecWrite, ecWallets, ecRows, ecTrans) /\ ecAudit \subseteq Edits
  BY EcShapes DEF EcInv
<1>4. "stopped" \in EcPoints
  BY DEF EcPoints
<1>5. EcTypes'
  <2>1. EcShape(ecAt', ecReq', ecWrite', ecWallets', ecRows', ecTrans') /\ ecAudit' \subseteq Edits /\ ecOverlap' \in BOOLEAN
    BY <1>2, <1>3, <1>4 DEF EcShape
  <2> QED BY <2>1 DEF EcTypes, EcTypeOK, EcShape, EcPoints, ConsoleRow, AdjustRequest
<1>6. /\ ecAt'[i] = "stopped" /\ ecReq'[i] = req /\ ecWrite'[i] = rows /\ wallets = ecWallets' /\ trans = ecTrans'
      /\ \A j \in Edits : j # i => ecAt'[j] = ecAt[j] /\ ecReq'[j] = ecReq[j] /\ ecWrite'[j] = ecWrite[j]
  BY <1>1, <1>2, <1>3 DEF EcShape
<1>7. EditSound("stopped", req, rows)
  BY DEF EditSound
<1> QED BY <1>2, <1>4, <1>5, <1>6, <1>7, EditMoved

LEMMA EcKeeps ==
  ASSUME EcInv, [EcNext]_ecVars
  PROVE  EcInv'
<1>1. ASSUME NEW i \in Edits, EcReads(i) PROVE EcInv'
  BY <1>1, ReadsKeep
<1>2. ASSUME NEW i \in Edits, EcLooksUp(i) PROVE EcInv'
  BY <1>2, LooksUpKeeps
<1>3. ASSUME NEW i \in Edits, EcClears(i) PROVE EcInv'
  BY <1>3, ClearsKeep
<1>4. ASSUME NEW i \in Edits, EcPushes(i) PROVE EcInv'
  BY <1>4, PushesKeep
<1>5. ASSUME NEW i \in Edits, EcAppends(i) PROVE EcInv'
  BY <1>5, AppendsKeep
<1>6. ASSUME NEW i \in Edits, EcAudits(i) PROVE EcInv'
  BY <1>6, AuditsKeep
<1>7. ASSUME NEW i \in Edits, EcStops(i) PROVE EcInv'
  BY <1>7, StopsKeep
<1>8. CASE UNCHANGED ecVars
  <2>1. EcTypes' /\ (ecOverlap' = ecOverlap)
    BY <1>8 DEF ecVars, EcInv, EcTypes, EcTypeOK
  <2>2. \A i \in Edits : EditSound(ecAt[i], ecReq[i], ecWrite[i])'
    BY <1>8 DEF ecVars, EcInv, EditSound
  <2>3. LedgerHolds' <=> LedgerHolds
    BY <1>8 DEF ecVars, LedgerHolds, Alone, OneKeyEach, EcBusy, Ledger, Holds, Halved, Absent, Due, NewKey
  <2> QED BY <2>1, <2>2, <2>3 DEF EcInv
<1> QED BY <1>1, <1>2, <1>3, <1>4, <1>5, <1>6, <1>7, <1>8 DEF EcNext

\* The inductive invariant says what a serial console shows.
LEMMA EcSafe ==
  ASSUME EcInv
  PROVE  SerialLedgerExact /\ EcTypeOK
<1>1. EcTypeOK
  BY DEF EcInv, EcTypes
<1>2. ASSUME ~ecOverlap, \A i \in Edits : ~EcBusy(i)
      PROVE  /\ \A p \in Holders : /\ Cardinality({k \in DOMAIN ecWallets : ecWallets[k].of = p}) = 1
                                   /\ TheRow(ecWallets, p).balance = SeedBalance + Adjusted(p)
             /\ \A j, k \in DOMAIN ecTrans : ecTrans[j].key = ecTrans[k].key => j = k
  <2>1. LedgerHolds
    BY <1>2 DEF EcInv
  <2>2. OneKeyEach /\ \A p \in Holders : Holds(ecWallets, p, Due(ecTrans, p))
    BY <2>1, <1>2 DEF LedgerHolds
  <2>3. ecWallets \in Seq(WalletRow)
    BY <1>1 DEF EcTypeOK
  <2>4. ASSUME NEW p \in Holders
        PROVE  /\ Cardinality({k \in DOMAIN ecWallets : ecWallets[k].of = p}) = 1
               /\ TheRow(ecWallets, p).balance = SeedBalance + Adjusted(p)
    <3>1. SeedBalance + Adjusted(p) = Due(ecTrans, p)
      BY DEF Adjusted, Due
    <3>2. Holds(ecWallets, p, Due(ecTrans, p))
      BY <2>2
    <3> QED BY <3>1, <3>2, <2>3, HeldRow
  <2> QED BY <2>2, <2>4 DEF OneKeyEach
<1> QED BY <1>1, <1>2 DEF SerialLedgerExact

-----------------------------------------------------------------------------
(* The types of what the requests share.                                   *)

\* The lists and settings that requests share.
LEMMA SharedTyped ==
  ASSUME SgInv
  PROVE  SgTypeOK
<1>1. SgTypes
  BY DEF SgInv
<1>2. ASSUME NEW l \in Logs PROVE sgLogs[l] \in Seq([log : {l}, by : Visits, n : Nat, to : Setter])
  <2>1. PICK log : log = sgLogs[l]
    OBVIOUS
  <2>2. log \in Seq(TrailRows) /\ \A m \in DOMAIN log : log[m].log = l
    BY <1>1, <2>1 DEF SgTypes
  <2>3. ASSUME NEW m \in 1..Len(log) PROVE log[m] \in [log : {l}, by : Visits, n : Nat, to : Setter]
    <3>1. m \in DOMAIN log
      BY <2>2
    <3>2. log[m] \in TrailRows /\ log[m].log = l
      BY <2>2, <3>1
    <3> QED BY <3>2 DEF TrailRows
  <2>4. Len(log) \in Nat /\ log \in [1..Len(log) -> [log : {l}, by : Visits, n : Nat, to : Setter]]
    BY <2>2, <2>3
  <2>5. PICK T : T = [log : {l}, by : Visits, n : Nat, to : Setter]
    OBVIOUS
  <2>6. log \in [1..Len(log) -> T] /\ Len(log) \in Nat
    BY <2>4, <2>5
  <2>7. log \in Seq(T)
    BY <2>6
  <2> QED BY <2>1, <2>5, <2>7
<1> QED BY <1>1, <1>2 DEF SgTypes, SgTypeOK

-----------------------------------------------------------------------------
(* The theorems.  The parts share no state, and a step of the deployment    *)
(* is a step of one of them.                                                *)

LEMMA OnePartMoves ==
  ASSUME [StagingNext]_stagingVars
  PROVE  /\ [StNext]_stVars /\ [SgNext]_sgVars /\ [OlNext]_olVars /\ [EcNext]_ecVars
         /\ [SkNext]_skVars /\ [DsNext]_dsVars /\ [AsNext]_asVars
  BY DEF StagingNext, Rest, stagingVars

LEMMA EachPartBegins == StagingInit => StInit /\ SgInit /\ OlInit /\ EcInit /\ SkInit /\ DsInit /\ AsInit
  BY DEF StagingInit

\* Over every interleaving of Redis commands, with locks, markers and claims that lapse and
\* instances that stop, each life of a movement's marker is one movement (made, being made
\* or left undone), a bet is held only where its debit was made or left undone, and the
\* balance is not overdrawn (RedisWallet).
THEOREM RoomMoney == StagingSpec => []RoomMoneySafe
<1>1. StInv => RoomMoneySafe
  BY DEF StInv, StakesTaken, RoomMoneySafe
<1> QED
  BY <1>1, OnePartMoves, EachPartBegins, StInitial, StStep, PTL DEF StagingSpec

\* What staging's requests leave each other (staging/wsgi.py, state.py): an edit and the rules that a
\* request saved stay until a later one changes them, unless a request overlapped it; a row of the
\* audit trail or of the deliveries is kept, once, and goes where the webhook settings said; the coins
\* of a key are credited once, and a player counted as welcomed has them.  Over every interleaving of
\* any number of requests, with commands that raise, instances that stop and marks that run out.
THEOREM SharedKept == StagingSpec => []SharedSafe
  BY OnePartMoves, EachPartBegins, SgBegin, SgStep, SharedHolds, PTL DEF StagingSpec

\* Between the requests of staging's consoles that neither overlapped nor stopped half way
\* (staging/economy.py), every player has one wallet, its balance is the seed and the adjustments
\* recorded, and an idempotency key has one of them: the lists that are read whole, cleared and pushed
\* back row by row lose and double nothing.  For any number of requests, players, keys and amounts.
THEOREM ConsolesKept == StagingSpec => []SerialLedgerExact
  BY OnePartMoves, EachPartBegins, EcBegin, EcKeeps, EcSafe, PTL DEF StagingSpec

\* A lock that an attempt finds is heeded, the limit's worth of failures locks for as long as they
\* are counted, no counter is left without a life but by who broke off, and a console answers only
\* to a PIN of its own within the life of its token (provider/operator_auth.py).  For every limit,
\* lock and token life and any number of attempts, of which one breaks off or has a command raise.
THEOREM LoginKept == StagingSpec => []LoginSafe
  BY OnePartMoves, EachPartBegins, LoginInitial, LoginStep, LoginImplies, PTL DEF StagingSpec

\* Who may do what on staging, and for how long: over every interleaving of Redis commands, with time
\* passing and instances stopping between them, a revoked key serves no later request, a live one
\* stays listed unless the index lapses, the count of PINs ends and a request that was not stamped
\* ahead of the clock is served once (dynamic_keys.py, auth.py); demo tables keep to their limit and
\* end (session.py); and a session that was taken back is not brought back, nor one in use left
\* without its token, but by the races and stops named (sessions.py, api.py).  For any number.
THEOREM AccessKept == StagingSpec => []AccessSafe
<1>1. LoginInv /\ SkInv /\ DsInv /\ AsInv => AccessSafe
  BY LoginImplies, KeysKeep, SessionsKeep DEF AccessSafe, DsInv
<1>2. LoginInv /\ SkInv /\ DsInv /\ AsInv /\ [StagingNext]_stagingVars => LoginInv' /\ SkInv' /\ DsInv' /\ AsInv'
  BY OnePartMoves, LoginStep, KeyStep, DemoStep, SessionsStep
<1>3. StagingInit => LoginInv /\ SkInv /\ DsInv /\ AsInv
  BY EachPartBegins, LoginInitial, KeysBegin, DemoBegins, SessionsBegin
<1> QED
  BY <1>1, <1>2, <1>3, PTL DEF StagingSpec

\* All that the staging deployment promises but for its room's money (RoomMoney): what requests leave
\* each other (wsgi.py, state.py), the ledger of its consoles (economy.py) and who may do what, and
\* for how long (dynamic_keys.py, operator_auth.py, session.py, sessions.py).
THEOREM StagingHolds == StagingSpec => []StagingSafe
<1>1. SharedSafe /\ SerialLedgerExact /\ AccessSafe => StagingSafe
  BY DEF StagingSafe, StagingKept
<1> QED
  BY <1>1, SharedKept, ConsolesKept, AccessKept, PTL

\* Every variable of the staging deployment keeps its type: counters stay within the number of requests
\* and lives within the bounds a key without an expiry is above (StagingKeys' Never, OperatorLogin's
\* NoLife), balances and payments are never negative.  For finitely many requests, since the counters
\* of PINs are compared with how many there are.
THEOREM StagingTypes ==
  ASSUME IsFiniteSet(Attempts), IsFiniteSet(KeyCalls)
  PROVE  StagingSpec => []StagingTypeOK
<1> DEFINE Inv == StInv /\ SgInv /\ LoginInv /\ EcInv /\ SkInv /\ KeyBounds /\ DsInv /\ AsInv
<1>1. StagingInit => Inv
  BY EachPartBegins, StInitial, SgBegin, LoginInitial, EcBegin, KeysBegin, BoundsBegin, DemoBegins, SessionsBegin
<1>2. Inv /\ [StagingNext]_stagingVars => Inv'
  BY OnePartMoves, StStep, SgStep, LoginStep, EcKeeps, KeyStep, BoundsStep, DemoStep, SessionsStep
<1>3. Inv => StagingTypeOK
  BY SharedTyped, LoginTyped, EcSafe, KeyTypes DEF StagingTypeOK, StInv, DsInv, DsTypes, AsInv, AsTypes
<1> QED
  BY <1>1, <1>2, <1>3, PTL DEF StagingSpec

=============================================================================
