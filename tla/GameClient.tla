----------------------------- MODULE GameClient -----------------------------
(***************************************************************************)
(* The player's page (games/teen_patti_pro/client/game.js): what it shows  *)
(* of the table, over REST answers that overtake each other and a          *)
(* WebSocket that comes and goes.  JavaScript runs one callback at a time; *)
(* a refresh gives way at its fetch and again where it awaits the reset    *)
(* animation of a new round.                                               *)
(*                                                                         *)
(* The server is a counter of views: a round takes bets (0), its result is *)
(* declared (1), a settlement that failed parks it and hides its winners   *)
(* (2), and it is settled (3).                                             *)
(* What it pushes has no event_id and seq -1, so claimEvent lets all pass. *)
(***************************************************************************)
EXTENDS Integers, Sequences, FiniteSets

CONSTANTS
  Refreshes,  \* bound: refreshes outstanding at once
  FirstView,  \* the server's view when the page is opened
  LastView    \* bound: the server's last view

ASSUME ClientAssumption == {FirstView, LastView} \subseteq Nat /\ FirstView <= LastView

NoView == 0 - 1
RoundOf(view) == IF view = NoView THEN 0 ELSE view \div 4 + 1
ViewVersion(view) == view % 4   \* state_version, per round
HasWinners(view) == ViewVersion(view) \in {1, 3}

VARIABLES
  gcNow,      \* the server's view
  gcParked,   \* history: rounds whose settlement was parked
  gcSnap,     \* S.snap
  gcRound,    \* S._roundId, 0 before the first
  gcLastSv,   \* S._lastSv
  gcLastWin,  \* S._lastWinKey
  gcCall,     \* a refresh: where it is, the round it found shown, the view it was answered
  gcSocket,   \* "closed", "open"
  gcWire,     \* what the server has pushed, not yet handled
  gcInOrder,  \* history: no snapshot came after a later one
  gcSlipped,  \* history: rounds shown with the key of an answer that was replaced during a reset
  gcShown     \* history: a round's wins that a refresh celebrated

gcVars == <<gcNow, gcParked, gcSnap, gcRound, gcLastSv, gcLastWin, gcCall, gcSocket, gcWire,
            gcInOrder, gcSlipped, gcShown>>
gcPage == <<gcSnap, gcRound, gcLastSv, gcLastWin, gcInOrder, gcSlipped, gcShown>>
gcLink == <<gcSocket, gcWire>>

ViewRounds == 1..RoundOf(LastView)
FreeCall == [at |-> "free", prev |-> 0, got |-> NoView]

GcInit ==
  /\ gcNow = FirstView
  /\ gcParked = IF ViewVersion(FirstView) = 2 THEN {RoundOf(FirstView)} ELSE {}
  /\ gcSnap = NoView /\ gcRound = 0 /\ gcLastSv = NoView /\ gcLastWin = <<0, FALSE>>
  /\ gcCall = [r \in Refreshes |-> FreeCall]
  /\ gcSocket = "closed" /\ gcWire = <<>>
  /\ gcInOrder = TRUE /\ gcSlipped = {} /\ gcShown = [r \in ViewRounds |-> 0]

\* refresh(): the request goes out when a call is free, and is left out of the model when
\* the bound is reached; the page would send it all the same.
CallFree == \E r \in Refreshes : gcCall[r].at = "free"
Asks ==
  \/ \E r \in Refreshes :
       /\ gcCall[r].at = "free"
       /\ gcCall' = [gcCall EXCEPT ![r] = [at |-> "asked", prev |-> RoundOf(gcSnap), got |-> NoView]]
  \/ ~CallFree /\ UNCHANGED gcCall

\* Bound: one message unread.  An event left out would ask for a refresh, as RefreshAsked does.
Pushed == IF gcSocket = "open" /\ gcWire = <<>> THEN <<[kind |-> "event", view |-> NoView]>> ELSE gcWire

\* The round moves on; whoever is connected is pushed an event.
ServerMoves ==
  /\ \/ gcNow' = gcNow + 1
     \/ ViewVersion(gcNow) = 1 /\ gcNow' = gcNow + 2
  /\ gcNow' <= LastView
  /\ gcParked' = IF ViewVersion(gcNow') = 2 THEN gcParked \cup {RoundOf(gcNow)} ELSE gcParked
  /\ gcWire' = Pushed
  /\ UNCHANGED <<gcCall, gcSocket>> /\ UNCHANGED gcPage

\* The poll timer while the socket is closed, and at any time the end of a bet.
RefreshAsked ==
  /\ CallFree /\ Asks
  /\ UNCHANGED <<gcNow, gcParked>> /\ UNCHANGED gcPage /\ UNCHANGED gcLink

RefreshAnswered(r) ==
  /\ gcCall[r].at = "asked"
  /\ gcCall' = [gcCall EXCEPT ![r] = [@ EXCEPT !.at = "answered", !.got = gcNow]]
  /\ UNCHANGED <<gcNow, gcParked>> /\ UNCHANGED gcPage /\ UNCHANGED gcLink

WinKey(view) == <<RoundOf(view), HasWinners(view)>>

\* Mutant: the winners already celebrated are not remembered.
CelebratesEachVersion(prev, view, key) ==
  /\ prev = RoundOf(view) /\ gcLastSv # NoView /\ ViewVersion(view) # gcLastSv
  /\ HasWinners(view)

\* svAdvanced, S._lastWinKey and winners.
Celebrates(prev, view, key) ==
  /\ prev = RoundOf(view)
  /\ gcLastSv # NoView /\ ViewVersion(view) # gcLastSv
  /\ key # gcLastWin /\ HasWinners(view)

\* The rest of refresh(), over S.snap as it is by then.
Shows(r, view, key) ==
  LET wins == Celebrates(gcCall[r].prev, view, key)
  IN  /\ gcRound' = RoundOf(view) /\ gcLastSv' = ViewVersion(view) /\ gcLastWin' = key
      /\ gcShown' = IF wins THEN [gcShown EXCEPT ![RoundOf(view)] = @ + 1] ELSE gcShown
      /\ gcCall' = [gcCall EXCEPT ![r] = FreeCall]

\* The answer becomes S.snap, older or not.
AnswerShown(r) ==
  LET view == gcCall[r].got
      resets == gcRound # 0 /\ RoundOf(view) # gcRound
  IN  /\ gcCall[r].at = "answered"
      /\ gcSnap' = view /\ gcInOrder' = (gcInOrder /\ gcSnap <= view)
      /\ IF resets
         THEN /\ gcCall' = [gcCall EXCEPT ![r].at = "resetting"]
              /\ UNCHANGED <<gcRound, gcLastSv, gcLastWin, gcShown>>
         ELSE Shows(r, view, WinKey(view))
      /\ UNCHANGED <<gcNow, gcParked, gcSlipped>> /\ UNCHANGED gcLink

\* animateRoundReset is over; the key is that of the answer, whatever S.snap has come to be.
ResetOver(r) ==
  /\ gcCall[r].at = "resetting"
  /\ Shows(r, gcSnap, WinKey(gcCall[r].got))
  /\ gcSlipped' = IF WinKey(gcCall[r].got) = WinKey(gcSnap) THEN gcSlipped
                  ELSE gcSlipped \cup {RoundOf(gcSnap)}
  /\ UNCHANGED <<gcNow, gcParked, gcSnap, gcInOrder>> /\ UNCHANGED gcLink

RefreshFails(r) ==
  /\ gcCall[r].at \in {"asked", "answered"}
  /\ gcCall' = [gcCall EXCEPT ![r] = FreeCall]
  /\ UNCHANGED <<gcNow, gcParked>> /\ UNCHANGED gcPage /\ UNCHANGED gcLink

-----------------------------------------------------------------------------
\* connect(), onopen: polling stops, the page subscribes, the server answers a snapshot.
SocketOpens ==
  /\ gcSocket = "closed" /\ gcSocket' = "open"
  /\ gcWire' = <<[kind |-> "snapshot", view |-> gcNow]>>
  /\ Asks
  /\ UNCHANGED <<gcNow, gcParked>> /\ UNCHANGED gcPage

\* onmessage: a snapshot replaces S.snap alone, an event asks for a refresh.
MessageHandled ==
  /\ gcSocket = "open" /\ gcWire # <<>> /\ gcWire' = Tail(gcWire)
  /\ IF Head(gcWire).kind = "snapshot"
     THEN /\ gcSnap' = Head(gcWire).view /\ gcInOrder' = (gcInOrder /\ gcSnap <= gcSnap')
          /\ UNCHANGED gcCall
     ELSE Asks /\ UNCHANGED <<gcSnap, gcInOrder>>
  /\ UNCHANGED <<gcNow, gcParked, gcRound, gcLastSv, gcLastWin, gcSlipped, gcShown, gcSocket>>

\* onclose: polling starts, a retry is scheduled.
SocketCloses ==
  /\ gcSocket = "open"
  /\ gcSocket' = "closed" /\ gcWire' = <<>>
  /\ UNCHANGED <<gcNow, gcParked, gcCall>> /\ UNCHANGED gcPage

GcNext ==
  \/ ServerMoves \/ RefreshAsked \/ SocketOpens \/ MessageHandled \/ SocketCloses
  \/ \E r \in Refreshes : RefreshAnswered(r) \/ AnswerShown(r) \/ ResetOver(r) \/ RefreshFails(r)

GcSpec == GcInit /\ [][GcNext]_gcVars

-----------------------------------------------------------------------------
GcTypeOK ==
  /\ gcNow \in 0..LastView /\ gcSnap \in NoView..LastView /\ gcRound \in {0} \cup ViewRounds
  /\ gcLastSv \in NoView..3 /\ gcParked \subseteq ViewRounds /\ gcSlipped \subseteq ViewRounds
  /\ gcCall \in [Refreshes -> [at : {"free", "asked", "answered", "resetting"},
                               prev : {0} \cup ViewRounds, got : NoView..LastView]]
  /\ gcSocket \in {"open", "closed"}
  /\ gcShown \in [ViewRounds -> Nat]

\* "Animate only a transition this client actually observed": however refreshes overlap and the
\* socket comes and goes, a round's win is celebrated by refresh() once, as long as no snapshot
\* came after a later one, unless a failed settlement hid the winners for a while or a snapshot
\* came while the round was being dealt.
WinShownOnce ==
  gcInOrder => \A r \in ViewRounds \ (gcParked \cup gcSlipped) : gcShown[r] <= 1

\* What is on the table never goes back.  Two answers that overtake each other break it.
NeverOlder == [][gcSnap <= gcSnap']_gcVars
=============================================================================
