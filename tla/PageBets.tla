------------------------------- MODULE PageBets -------------------------------
(***************************************************************************)
(* How a player's page bets (games/teen_patti_pro/client/game.js): a tap    *)
(* posts one bet under a fresh key and shows it in S.myBets once it is      *)
(* accepted; a repeat asks for the player's bets and posts the last of them *)
(* one after the other.  The server bets in whichever round is open         *)
(* (api.py); its generic routes first compare the round that the client     *)
(* names.  One player, one seat, one chip: a number of bets says it all.    *)
(***************************************************************************)
EXTENDS Integers, FiniteSets

CONSTANTS
  PageCalls,   \* bound: taps, repeats and bets of other clients
  PageRounds   \* bound: the server's last round

ASSUME PageAssumption == PageRounds \in Nat \ {0}

VARIABLES pbNow, pbPlaced, pbShown, pbMine, pbBusy, pbCalls
pbVars == <<pbNow, pbPlaced, pbShown, pbMine, pbBusy, pbCalls>>

RoundShown == [round : 0..PageRounds, open : BOOLEAN]
PbCall(kind, at, named) ==
  [kind |-> kind, at |-> at, named |-> named, landed |-> 0, left |-> 0,
   turned |-> FALSE]   \* history: the round turned after it was compared
Unused == PbCall("none", "unused", 0)
Spent == PbCall("none", "done", 0)

PbInit ==
  /\ pbNow = [round |-> 1, open |-> TRUE]
  /\ \E before \in {0, 2} :                                \* the player's accepted bets, some
       pbPlaced = [r \in 1..PageRounds |-> IF r = 1 THEN before ELSE 0]  \* before the page was opened
  /\ pbShown = [round |-> 0, open |-> TRUE]               \* S.snap, null at first
  /\ pbMine = [round |-> 0, bets |-> 0, foreign |-> FALSE]  \* S._myBetsRound, S.myBets; history
  /\ pbBusy = "no"                                        \* betBusy, and its timer: "sending", "cooling"
  /\ pbCalls = [c \in PageCalls |-> Unused]

PbGo(c, at) == pbCalls' = [pbCalls EXCEPT ![c].at = at]
PbEnds(c) == pbCalls' = [pbCalls EXCEPT ![c] = Spent]
PbStarts(c, kind, at, named) ==
  pbCalls[c] = Unused /\ pbCalls' = [pbCalls EXCEPT ![c] = PbCall(kind, at, named)]

RoundTurns ==
  /\ \/ pbNow.open /\ pbNow' = [pbNow EXCEPT !.open = FALSE]
     \/ ~pbNow.open /\ pbNow.round < PageRounds /\ pbNow' = [round |-> pbNow.round + 1, open |-> TRUE]
  /\ pbCalls' = [c \in PageCalls |-> [pbCalls[c] EXCEPT !.turned = @ \/ pbCalls[c].at = "checked"]]
  /\ UNCHANGED <<pbPlaced, pbShown, pbMine, pbBusy>>

\* A snapshot of another round empties S.myBets.
BetsFor(round) == IF round = pbMine.round THEN pbMine ELSE [round |-> round, bets |-> 0, foreign |-> FALSE]

\* refresh: answers overtake each other, so that an older view may come (GameClient).
PageShows ==
  /\ \E view \in RoundShown :
       /\ view.round \in 1..pbNow.round /\ (view.round = pbNow.round /\ ~pbNow.open => ~view.open)
       /\ pbShown' = view /\ pbMine' = BetsFor(view.round)
  /\ UNCHANGED <<pbNow, pbPlaced, pbBusy, pbCalls>>

(***************************************************************************)
(* What the player does, and another client of the generic routes.          *)
(***************************************************************************)
\* placeBet: not while a bet is on its way, nor when the table shown is closed.
Taps(c) ==
  /\ pbBusy = "no" /\ pbShown.open
  /\ PbStarts(c, "tap", "sent", pbShown.round) /\ pbBusy' = "sending"
  /\ UNCHANGED <<pbNow, pbPlaced, pbShown, pbMine>>

\* doRepeat asks neither.
Repeats(c) == PbStarts(c, "repeat", "history", pbShown.round) /\ UNCHANGED <<pbNow, pbPlaced, pbShown, pbMine, pbBusy>>

\* The history route has the bets of the round there is, and no others.
ReadsHistory(c) ==
  /\ pbCalls[c].at = "history"
  /\ LET bets == pbPlaced[pbNow.round] IN
       IF bets = 0 THEN PbEnds(c)
       ELSE pbCalls' = [pbCalls EXCEPT ![c].left = IF bets < 3 THEN bets ELSE 3, ![c].at = "sent"]
  /\ UNCHANGED <<pbNow, pbPlaced, pbShown, pbMine, pbBusy>>

NamesRound(c) ==
  /\ \E round \in 1..pbNow.round : PbStarts(c, "guarded", "naming", round)
  /\ UNCHANGED <<pbNow, pbPlaced, pbShown, pbMine, pbBusy>>

(***************************************************************************)
(* The server.                                                              *)
(***************************************************************************)
\* 409 "Stale roundId", before place_bet is called.
ChecksRound(c) ==
  /\ pbCalls[c].at = "naming"
  /\ IF pbCalls[c].named = pbNow.round THEN PbGo(c, "checked") ELSE PbEnds(c)
  /\ UNCHANGED <<pbNow, pbPlaced, pbShown, pbMine, pbBusy>>

ServerBets(c) ==
  /\ pbCalls[c].at \in {"sent", "checked"}
  /\ IF pbNow.open
     THEN /\ pbPlaced' = [pbPlaced EXCEPT ![pbNow.round] = @ + 1]
          /\ pbCalls' = [pbCalls EXCEPT ![c].at = "accepted", ![c].landed = pbNow.round]
     ELSE PbGo(c, "refused") /\ UNCHANGED pbPlaced
  /\ UNCHANGED <<pbNow, pbShown, pbMine, pbBusy>>

(***************************************************************************)
(* Answers.                                                                 *)
(***************************************************************************)
Cooling(c) == pbBusy' = IF pbCalls[c].kind = "tap" THEN "cooling" ELSE pbBusy

\* S.myBets is that of the round now shown.
AnswerAccepts(c) ==
  /\ pbCalls[c].at = "accepted" /\ Cooling(c)
  /\ IF pbCalls[c].kind = "tap"
     THEN pbMine' = [pbMine EXCEPT !.bets = @ + 1, !.foreign = @ \/ pbMine.round # pbCalls[c].landed]
     ELSE UNCHANGED pbMine
  /\ IF pbCalls[c].left > 1 THEN pbCalls' = [pbCalls EXCEPT ![c].left = @ - 1, ![c].at = "sent"] ELSE PbEnds(c)
  /\ UNCHANGED <<pbNow, pbPlaced, pbShown>>

AnswerRefuses(c) ==
  /\ pbCalls[c].at = "refused" /\ PbEnds(c) /\ Cooling(c)
  /\ UNCHANGED <<pbNow, pbPlaced, pbShown, pbMine>>

\* "Network problem — retrying.": nothing is sent again.
NetworkFails(c) ==
  /\ pbCalls[c].at \in {"sent", "accepted", "history"} /\ pbCalls[c].kind # "guarded"
  /\ PbEnds(c) /\ Cooling(c)
  /\ UNCHANGED <<pbNow, pbPlaced, pbShown, pbMine>>

\* setTimeout(.., 400)
Cooled == pbBusy = "cooling" /\ pbBusy' = "no" /\ UNCHANGED <<pbNow, pbPlaced, pbShown, pbMine, pbCalls>>

PbNext ==
  \/ RoundTurns \/ PageShows \/ Cooled
  \/ \E c \in PageCalls :
       Taps(c) \/ Repeats(c) \/ ReadsHistory(c) \/ NamesRound(c) \/ ChecksRound(c) \/ ServerBets(c)
       \/ AnswerAccepts(c) \/ AnswerRefuses(c) \/ NetworkFails(c)

(***************************************************************************)
(* Properties.                                                              *)
(***************************************************************************)
PbTypeOK ==
  /\ pbNow \in RoundShown /\ pbShown \in RoundShown /\ pbBusy \in {"no", "sending", "cooling"}
  /\ pbPlaced \in [1..PageRounds -> Nat] /\ pbMine.bets \in Nat
  /\ \A c \in PageCalls : pbCalls[c].left \in 0..3

UnderWay(kinds) == {c \in PageCalls : pbCalls[c].kind \in kinds /\ pbCalls[c].at \in {"sent", "accepted", "refused"}}

\* What the page shows as staked is staked in the round it is shown for, unless an answer came
\* after the page had gone on to another round (game.js, S.myBets).
MyBetsBacked == pbMine.foreign \/ pbMine.bets = 0 \/ pbMine.bets <= pbPlaced[pbMine.round]

\* "One in-flight bet at a time" (game.js, betBusy): true of taps.
TapsOneAtATime == Cardinality(UnderWay({"tap"})) <= 1

\* "Stale roundId" (api.py): a bet that names its round is placed in it, unless the round turned
\* after it was compared.
NamedRoundBets == \A c \in PageCalls :
  pbCalls[c].kind = "guarded" /\ pbCalls[c].landed # 0 => pbCalls[c].landed = pbCalls[c].named \/ pbCalls[c].turned

\* Not so: one bet at a time, repeats counted; a bet lands in the round that was shown, or in the
\* round that it named.
OneBetAtATime == Cardinality(UnderWay({"tap", "repeat"})) <= 1
LandsWhereShown == \A c \in PageCalls : pbCalls[c].landed # 0 => pbCalls[c].landed = pbCalls[c].named

PageBetsSound == MyBetsBacked /\ TapsOneAtATime /\ NamedRoundBets
=============================================================================
