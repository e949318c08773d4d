----------------------------- MODULE RoundEvents -----------------------------
(***************************************************************************)
(* What a player who reconnects is told (games/teen_patti_pro/engine.py:    *)
(* emit, snapshot, events_since; service.py: reconnect).  Rounds move under *)
(* the room's lock; a reconnect reads without it, first the snapshot's      *)
(* status, then its version, then the events after the seq it was given.    *)
(* An assignment to a round's status and the emit after it are one step.    *)
(***************************************************************************)
EXTENDS Integers, Sequences, FiniteSets, SequencesExt

CONSTANTS
  EventCap,   \* config.event_log_cap
  EventLimit, \* bound: bets and parkings of a round, together
  LastRound,  \* bound: rounds dealt
  LastVisit   \* bound: reconnects

ASSUME EventsAssumption == EventCap \in Nat /\ LastRound \in Nat /\ LastVisit \in Nat

VARIABLES reRounds,   \* the rounds dealt, the last one is room.round
          reResume,   \* _settle_resume_from of room.round
          reCall,     \* the reconnect in progress
          reSeen,     \* last_seen_seq: the seq of the last event the player got
          reHas,      \* the seqs it got, by round
          reKept,     \* the round whose events it got last
          reCut,      \* more than EventCap were due, or they were of another round
          reLearned,  \* the rounds whose hands it was shown
          reTorn,     \* a snapshot had the version of a later status
          reVisits
reVars == <<reRounds, reResume, reCall, reSeen, reHas, reKept, reCut, reLearned, reTorn, reVisits>>

NoVisit == [at |-> "away", round |-> 0, status |-> "none", since |-> 0]
NoRounds == <<>>
Now == Len(reRounds)
Status == IF Now = 0 THEN "WAITING" ELSE reRounds[Now].status

ReInit ==
  /\ reRounds = NoRounds /\ reResume = "none"
  /\ reCall = NoVisit /\ reSeen = 0 /\ reHas = [r \in 1..LastRound |-> {}]
  /\ reKept = 0 /\ reCut = FALSE /\ reLearned = {} /\ reTorn = FALSE /\ reVisits = 0

ReaderSame == UNCHANGED <<reCall, reSeen, reHas, reKept, reCut, reLearned, reTorn, reVisits>>
Emitted(round, kind) == [round EXCEPT !.events = Append(@, kind)]

(***************************************************************************)
(* The room.                                                                *)
(***************************************************************************)
DealsRound ==
  /\ Now < LastRound /\ Status \in {"WAITING", "CLOSED"}
  /\ reRounds' = Append(reRounds, [status |-> "BETTING_OPEN", version |-> 1, events |-> <<"round.started">>])
  /\ reResume' = "none" /\ ReaderSame

\* The round's status changes, its version with it.
Turned(round, to) == [round EXCEPT !.status = to, !.version = round.version + 1]

\* With the event that is emitted.
RoundMoves(from, to, kind) ==
  /\ Status = from
  /\ reRounds' = [reRounds EXCEPT ![Now] = Emitted(Turned(@, to), kind)]
  /\ ReaderSame

Emits(kind) == Cardinality({i \in DOMAIN reRounds[Now].events : reRounds[Now].events[i] = kind})

BetAccepted ==
  /\ Status = "BETTING_OPEN" /\ Emits("bet.accepted") + Emits("settlement.pending") < EventLimit
  /\ reRounds' = [reRounds EXCEPT ![Now] = Emitted(@, "bet.accepted")]
  /\ UNCHANGED reResume /\ ReaderSame

Advances ==
  /\ \/ RoundMoves("BETTING_OPEN", "BETTING_CLOSED", "betting.closed")
     \/ RoundMoves("BETTING_CLOSED", "RESULT_PROCESSING", "result.processing")
     \/ Status = "RESULT_PROCESSING" /\ Last(reRounds[Now].events) = "result.processing"
        /\ RoundMoves("RESULT_PROCESSING", "RESULT", "result.published")
     \/ RoundMoves("RESULT", "SETTLED", "settlement.completed")
     \/ RoundMoves("SETTLED", "CLOSED", "session.completed")
  /\ UNCHANGED reResume

\* mark_settle_pending: a failed credit finds the round CLOSED, any other step that raised where
\* it was before it or half way (RESULT_PROCESSING).
Parkable == {"BETTING_CLOSED", "RESULT_PROCESSING", "RESULT", "RESULT_DECLARED", "CLOSED"}
ParksRound ==
  /\ Status \in Parkable /\ Emits("bet.accepted") + Emits("settlement.pending") < EventLimit
  /\ reResume' = Status
  /\ RoundMoves(Status, "SETTLED_PENDING", "settlement.pending")

\* The round of the credit that failed was replaced: the new one is not parked, and its resume
\* point is overwritten.
ParkRefused ==
  /\ Status = "BETTING_OPEN" /\ reResume' = Status
  /\ UNCHANGED reRounds /\ ReaderSame

\* restore_resume_status and mark_settle_failed.
ResumesRound ==
  /\ Status = "SETTLED_PENDING"
  /\ reRounds' = [reRounds EXCEPT ![Now] = Turned(@, reResume)]
  /\ UNCHANGED reResume /\ ReaderSame

FailsRound == RoundMoves("SETTLED_PENDING", "SETTLE_FAILED", "settlement.failed") /\ UNCHANGED reResume

\* Any but RESULT, SETTLED and CLOSED: a round that is parked, or was given up, too.
Cancellable == {"BETTING_OPEN", "BETTING_CLOSED", "RESULT_PROCESSING", "RESULT_DECLARED", "SETTLED_PENDING",
                "SETTLE_FAILED"}
CancelsRound ==
  /\ Status \in Cancellable
  /\ RoundMoves(Status, "CLOSED", "round.cancelled") /\ UNCHANGED reResume

(***************************************************************************)
(* reconnect.                                                               *)
(***************************************************************************)
\* Mutant: a parked round shows its hands.
RevealedParked(status) == status \in {"RESULT", "RESULT_DECLARED", "SETTLED", "CLOSED", "SETTLED_PENDING"}

\* snapshot's reveal; events_since has no RESULT_DECLARED, which nothing sets.
Revealed(status) == status \in {"RESULT", "RESULT_DECLARED", "SETTLED", "CLOSED"}

ReadsStatus ==
  /\ reCall.at = "away" /\ Now > 0 /\ reVisits < LastVisit /\ reVisits' = reVisits + 1
  /\ reCall' = [at |-> "version", round |-> Now, status |-> Status, since |-> reSeen]
  /\ UNCHANGED <<reRounds, reResume, reSeen, reHas, reKept, reCut, reLearned, reTorn>>

\* The version is read of the round that was there for the status.
ReadsVersion ==
  /\ reCall.at = "version" /\ reCall' = [reCall EXCEPT !.at = "events"]
  /\ reTorn' = (reTorn \/ reRounds[reCall.round].status # reCall.status)
  /\ reLearned' = reLearned \cup (IF Revealed(reCall.status) THEN {reCall.round} ELSE {})
  /\ UNCHANGED <<reRounds, reResume, reSeen, reHas, reKept, reCut, reVisits>>

\* The seqs after the one given, the last EventCap of them.
Due(since, events) ==
  {seq \in DOMAIN events : seq > since /\ seq > Len(events) - EventCap}

ReadsEvents ==
  LET events == reRounds[Now].events
      due == Due(reCall.since, events)
      other == reCall.since > 0 /\ reKept # Now
  IN
  /\ reCall.at = "events" /\ reCall' = NoVisit
  /\ reHas' = [reHas EXCEPT ![Now] = @ \cup due]
  /\ reSeen' = IF due = {} THEN reSeen ELSE Len(events)
  /\ reKept' = IF due = {} THEN reKept ELSE Now
  /\ reCut' = (reCut \/ other \/ Len(events) - reCall.since > EventCap)
  /\ reLearned' = reLearned \cup
       (IF Revealed(Status) /\ \E seq \in due : events[seq] = "result.published" THEN {Now} ELSE {})
  /\ UNCHANGED <<reRounds, reResume, reTorn, reVisits>>

ReNext ==
  \/ DealsRound \/ BetAccepted \/ Advances \/ ParksRound \/ ParkRefused \/ ResumesRound \/ FailsRound \/ CancelsRound
  \/ ReadsStatus \/ ReadsVersion \/ ReadsEvents

(***************************************************************************)
(* Properties.                                                              *)
(***************************************************************************)
ReTypeOK ==
  /\ Now \in 0..LastRound /\ reVisits \in 0..LastVisit /\ reKept \in 0..LastRound
  /\ \A r \in 1..Now : reHas[r] \subseteq DOMAIN reRounds[r].events
  /\ reLearned \subseteq 1..Now

\* "Missed-event replay for reconnect": whatever the rounds did between and during its visits, a
\* player has every event up to the last it was told of, unless a visit spanned two rounds or
\* more events were due than the cap; of those it has the latest.
ReplayComplete ==
  /\ reKept > 0 /\ ~reCut => reHas[reKept] = 1..reSeen
  /\ reKept > 0 => reSeen \in reHas[reKept]

\* The same for every visit, which the code does not keep: seq starts again with each round.
NothingMissed == reKept > 0 => reHas[reKept] = 1..reSeen

\* "Redacts pre-RESULT hands": no reconnect shows the hands of a round whose result was not
\* published, and that was not cancelled.
HandsAfterResult ==
  \A r \in reLearned : \E seq \in DOMAIN reRounds[r].events :
    reRounds[r].events[seq] \in {"result.published", "round.cancelled"}

\* "must change exactly when the round's observable state does" (state_version): a snapshot's
\* status is that of its version.  They are read apart, so the code does not keep it.
OneStatusPerVersion == ~reTorn

\* What a reconnect promises.
RoundEventsSafe == ReplayComplete /\ HandsAfterResult
=============================================================================
