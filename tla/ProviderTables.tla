--------------------------- MODULE ProviderTables ---------------------------
(***************************************************************************)
(* Sessions and seats over the provider API (provider/router.py,           *)
(* games.py, tables.py, sessions.py).  A room's own calls hold its lock;   *)
(* the handlers hold none across them, so a step is one such call.         *)
(***************************************************************************)
EXTENDS Integers, FiniteSets

CONSTANTS
  TableCalls,    \* bound: requests served
  TablePlayers,
  TableIds,
  MaxPlayers,    \* a table's max_players
  Operator       \* a request signed by the operator, in a session's place

ASSUME TablesAssumption == Operator \notin TableCalls /\ MaxPlayers \in Nat \ {0}

VARIABLES
  ptReq,       \* a call's request: what, for whom, where, with whose session
  ptAt,        \* where the call is
  ptCount,     \* the seat_count a join read
  ptAlready,   \* already_seated
  ptMembers,   \* a table's room.members
  ptSessions,  \* live sessions, named by the call that created them
  ptTokens,    \* sessions whose token resolves
  ptOverlap,   \* history: two requests were served at once
  ptForced     \* history: a session was created on a full table

ptVars == <<ptReq, ptAt, ptCount, ptAlready, ptMembers, ptSessions, ptTokens, ptOverlap, ptForced>>

PtInit ==
  /\ ptReq = [c \in TableCalls |-> [op |-> "none"]]
  /\ ptAt = [c \in TableCalls |-> "idle"]
  /\ ptCount = [c \in TableCalls |-> 0] /\ ptAlready = [c \in TableCalls |-> FALSE]
  /\ ptMembers = [t \in TableIds |-> {}] /\ ptSessions = {} /\ ptTokens = {}
  /\ ptOverlap = FALSE /\ ptForced = FALSE

CallOver == {"idle", "accepted", "refused", "done", "failed"}
PtStep(c, from, to) == ptAt[c] = from /\ ptAt' = [ptAt EXCEPT ![c] = to]
SeatCount(t) == Cardinality(ptMembers[t])

Serves(c, to, req) ==
  /\ PtStep(c, "idle", to)
  /\ ptReq' = [ptReq EXCEPT ![c] = req]
  /\ ptOverlap' = (ptOverlap \/ \E d \in TableCalls \ {c} : ptAt[d] \notin CallOver)

\* select_table: the fullest of the open tables, of all tables when none is open.
SelectedTables ==
  LET open == {t \in TableIds : SeatCount(t) < MaxPlayers}
      pool == IF open = {} THEN TableIds ELSE open
  IN  {t \in pool : \A u \in pool : SeatCount(u) <= SeatCount(t)}

\* h_create_session, up to sessions.create.  An explicit table is not looked at for room.
PtCreates(c) ==
  \E p \in TablePlayers, t \in TableIds, asked \in BOOLEAN :
    /\ asked \/ t \in SelectedTables
    /\ Serves(c, "opening", [op |-> "create", player |-> p, table |-> t, by |-> Operator])
    /\ ptSessions' = ptSessions \cup {c}
    /\ ptForced' = (ptForced \/ SeatCount(t) >= MaxPlayers)
    /\ UNCHANGED <<ptCount, ptAlready, ptMembers, ptTokens>>

\* _player_from: a token stands for its record's player, whether or not the session lives.
Credentials(p) == {Operator} \cup {s \in ptSessions \cup ptTokens : ptReq[s].player = p}

\* h_join reads the seat count.
PtCounts(c) ==
  \E p \in TablePlayers, t \in TableIds : \E by \in Credentials(p) :
    /\ Serves(c, "counted", [op |-> "join", player |-> p, table |-> t, by |-> by])
    /\ ptCount' = [ptCount EXCEPT ![c] = SeatCount(t)]
    /\ UNCHANGED <<ptAlready, ptMembers, ptSessions, ptTokens, ptForced>>

\* GameBinding.join, then claim_seat under the room's lock.
PtJoins(c) ==
  LET t == ptReq[c].table
  IN  /\ PtStep(c, IF ptReq[c].op = "create" THEN "opening" ELSE "counted", "joined")
      /\ ptReq[c].op \in {"create", "join"}
      /\ ptAlready' = [ptAlready EXCEPT ![c] = ptReq[c].player \in ptMembers[t]]
      /\ ptMembers' = [ptMembers EXCEPT ![t] = @ \cup {ptReq[c].player}]
      /\ UNCHANGED <<ptReq, ptCount, ptSessions, ptTokens, ptOverlap, ptForced>>

\* Mutant: a full table refuses a player it has seated already.
PtFullForSeated(c) == ptReq[c].op = "join" /\ ptCount[c] >= MaxPlayers

PtFull(c) == ptReq[c].op = "join" /\ ~ptAlready[c] /\ ptCount[c] >= MaxPlayers

\* 409 "table is full": the seat just taken is given up.
PtRefuses(c) ==
  /\ PtFull(c) /\ PtStep(c, "joined", "refused")
  /\ ptMembers' = [ptMembers EXCEPT ![ptReq[c].table] = @ \ {ptReq[c].player}]
  /\ UNCHANGED <<ptReq, ptCount, ptAlready, ptSessions, ptTokens, ptOverlap, ptForced>>

\* A created session's token is minted.
PtAccepts(c) ==
  /\ ~PtFull(c) /\ PtStep(c, "joined", "accepted")
  /\ ptTokens' = IF ptReq[c].op = "create" THEN ptTokens \cup {c} ELSE ptTokens
  /\ UNCHANGED <<ptReq, ptCount, ptAlready, ptMembers, ptSessions, ptOverlap, ptForced>>

\* ensure_round raises (unconfirmed rules): a join swallows it, a create answers 500 with
\* the session opened and the player seated.
PtFails(c) ==
  /\ ptReq[c].op = "create" /\ PtStep(c, "joined", "failed")
  /\ UNCHANGED <<ptReq, ptCount, ptAlready, ptMembers, ptSessions, ptTokens, ptOverlap, ptForced>>

\* h_leave.
PtLeaves(c) ==
  \E p \in TablePlayers, t \in TableIds : \E by \in Credentials(p) :
    /\ Serves(c, "done", [op |-> "leave", player |-> p, table |-> t, by |-> by])
    /\ ptMembers' = [ptMembers EXCEPT ![t] = @ \ {p}]
    /\ UNCHANGED <<ptCount, ptAlready, ptSessions, ptTokens, ptForced>>

\* h_delete_session: the session is loaded, by its id or its token.
PtDeletes(c) ==
  \E s \in ptSessions :
    /\ ptAt[s] \in CallOver
    /\ Serves(c, "revoking", [op |-> "delete", player |-> ptReq[s].player, table |-> ptReq[s].table, by |-> s])
    /\ UNCHANGED <<ptCount, ptAlready, ptMembers, ptSessions, ptTokens, ptForced>>

\* revoke_session; whatever it raises is swallowed.
PtRevokes(c) ==
  /\ PtStep(c, "revoking", "ending")
  /\ \/ ptTokens' = ptTokens \ {ptReq[c].by}
     \/ UNCHANGED ptTokens
  /\ UNCHANGED <<ptReq, ptCount, ptAlready, ptMembers, ptSessions, ptOverlap, ptForced>>

PtEnds(c) ==
  /\ PtStep(c, "ending", "unseating")
  /\ ptSessions' = ptSessions \ {ptReq[c].by}
  /\ UNCHANGED <<ptReq, ptCount, ptAlready, ptMembers, ptTokens, ptOverlap, ptForced>>

\* service.leave_table, whatever other session of the player is seated there.
PtUnseats(c) ==
  /\ PtStep(c, "unseating", "done")
  /\ ptMembers' = [ptMembers EXCEPT ![ptReq[c].table] = @ \ {ptReq[c].player}]
  /\ UNCHANGED <<ptReq, ptCount, ptAlready, ptSessions, ptTokens, ptOverlap, ptForced>>

PtNext ==
  \E c \in TableCalls :
    \/ PtCreates(c) \/ PtCounts(c) \/ PtJoins(c) \/ PtRefuses(c) \/ PtAccepts(c) \/ PtFails(c)
    \/ PtLeaves(c) \/ PtDeletes(c) \/ PtRevokes(c) \/ PtEnds(c) \/ PtUnseats(c)

PtSpec == PtInit /\ [][PtNext]_ptVars

-----------------------------------------------------------------------------
PtTypeOK ==
  /\ ptAt \in [TableCalls -> CallOver \cup {"opening", "counted", "joined", "revoking", "ending", "unseating"}]
  /\ ptCount \in [TableCalls -> Nat] /\ ptAlready \in [TableCalls -> BOOLEAN]
  /\ ptMembers \in [TableIds -> SUBSET TablePlayers]
  /\ ptSessions \subseteq TableCalls /\ ptTokens \subseteq TableCalls

Unseats(p, t) ==
  \E d \in TableCalls :
    ptReq[d].op \in {"leave", "delete"} /\ ptReq[d].player = p /\ ptReq[d].table = t

\* An accepted join or session that took its seat itself keeps it until the player leaves or
\* a session of the player's ends: no other player's refusal, and no later join of the player's
\* own at a table that has filled up since, takes it away.
JoinedSeatKept ==
  \A c \in TableCalls :
    ptAt[c] = "accepted" /\ ~ptAlready[c] /\ ~Unseats(ptReq[c].player, ptReq[c].table)
      => ptReq[c].player \in ptMembers[ptReq[c].table]

\* A table holds more than max_players only where requests overlapped, or a session was opened
\* on a full one.
OverfullOnlyByRace ==
  \A t \in TableIds : SeatCount(t) > MaxPlayers =>
    ptOverlap \/ ptForced \/ \E c \in TableCalls : ptAt[c] = "joined" /\ ptReq[c].table = t

\* What the tables promise their players.
TablesKeepSeats == JoinedSeatKept /\ OverfullOnlyByRace

\* "joined": true is answered, and the player is seated.  Two joins of one player at a full table
\* break it: the second finds the seat the first has yet to give up.
AcceptedIsSeated ==
  \A c \in TableCalls :
    ptAt[c] = "accepted" /\ ~Unseats(ptReq[c].player, ptReq[c].table)
      => ptReq[c].player \in ptMembers[ptReq[c].table]
=============================================================================
