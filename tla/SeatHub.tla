------------------------------ MODULE SeatHub ------------------------------
(***************************************************************************)
(* Who sits at one table: Room.claim_seat and leave_session, the WebSocket *)
(* hub that claims a seat for every subscriber and gives it up 45 s after  *)
(* the last socket of a player went, and the demo bots that keep a lone    *)
(* player company.                                                         *)
(*                                                                         *)
(* Threads: one handler per socket, one timer thread per player whose      *)
(* grace ran out, the bot reaper, HTTP requests.  A step is what runs      *)
(* under one lock (Room.lock, Hub.lock, BotManager._lock), or one read the *)
(* thread acts on later.  The fill loop of the reaper takes no lock.       *)
(***************************************************************************)
EXTENDS Integers, FiniteSets, FiniteSetsExt

CONSTANTS
  Players,  \* real players
  Conns,    \* bound: sockets ever opened
  Bots,     \* bound: bot identities the reaper may mint
  NSeats,   \* length of config.seats
  MaxCalls, \* bound: HTTP requests that move a session or a seat
  Nobody    \* not a player or bot

ASSUME SeatAssumption ==
  /\ NSeats \in Nat \ {0} /\ MaxCalls \in Nat
  /\ Players \cap Bots = {} /\ Nobody \notin Players \cup Bots /\ IsFiniteSet(Players \cup Bots)

VARIABLES
  sessions,  \* players with a session in the session store
  seatOf,    \* Room.members: a seat, Standing (a spectator) or Away (not a member)
  hub,       \* Hub.rooms[room]: pairs <<conn, player>>
  handler,   \* where the handler thread of each socket is
  who,       \* the player a subscribe at work resolved to
  pending,   \* Hub._pending_release: none, or whether the entry's timer is running or fired
  stray,     \* players with a timer running that lost its entry
  releaser,  \* where the thread of a player's elapsed timer is
  demo,      \* the room is in _DEMO_ROOMS
  bots,      \* BotManager._bots[room]
  armed,     \* BotManager._armed[room]: off, waiting, or due once the deadline passed
  tick,      \* where the reaper is in _tick
  spawned,   \* the bot being seated
  walkIn,    \* history: members who came by HTTP and never subscribed
  putOut,    \* history: players taken off the table with a socket open, until they claim
  calls      \* bound: HTTP requests served

hubVars == <<sessions, seatOf, hub, handler, who, pending, stray, releaser, demo, bots, armed,
             tick, spawned, walkIn, putOut, calls>>
reaper == <<demo, bots, armed, tick, spawned>>
sockets == <<hub, handler, who, pending, stray>>

Standing == 0
Away == 0 - 1
HubSeats == 1..NSeats
People == Players \cup Bots

Members == {p \in People : seatOf[p] # Away}
Connected(p) == \E c \in Conns : <<c, p>> \in hub
Subscribing(p) == \E c \in Conns : handler[c] \in {"claim", "notify"} /\ who[c] = p

Taken == {seatOf[p] : p \in Members} \ {Standing}
FreeSeats == HubSeats \ Taken

\* Mutant: the claim does not look who sits there.
ClaimedBlindly(p) ==
  [seatOf EXCEPT ![p] = IF @ \in HubSeats THEN @ ELSE 1]

\* Mutant: a full table gives the seat after the last.
ClaimedNext(p) ==
  [seatOf EXCEPT ![p] = IF @ \in HubSeats THEN @ ELSE Min((1..NSeats + 1) \ Taken)]

\* claim_seat(p, "auto"): a seat once held is kept; a full table makes a spectator.
Claimed(p) ==
  [seatOf EXCEPT ![p] = IF @ \in HubSeats THEN @
                        ELSE IF FreeSeats = {} THEN Standing ELSE Min(FreeSeats)]

Left(P) == [p \in People |-> IF p \in P THEN Away ELSE seatOf[p]]

\* _count_real: members the bot registry does not know.
RealCount(seated, registry) ==
  Cardinality({p \in People : seated[p] # Away /\ p \notin registry})

HubInit ==
  /\ sessions = {} /\ seatOf = [p \in People |-> Away]
  /\ hub = {} /\ pending = [p \in Players |-> "none"] /\ stray = {}
  /\ handler = [c \in Conns |-> "fresh"]
  /\ who = [c \in Conns |-> Nobody]
  /\ releaser = [p \in Players |-> "idle"]
  /\ demo = FALSE /\ bots = {} /\ armed = "off" /\ tick = "idle"
  /\ spawned = Nobody
  /\ walkIn = {} /\ putOut = {} /\ calls = 0

-----------------------------------------------------------------------------
(* HTTP.                                                                   *)

Call == calls < MaxCalls /\ calls' = calls + 1

\* open_session and POST /sessions: a session and a seat, without a socket.
OpenSession(p) ==
  /\ Call
  /\ sessions' = sessions \cup {p}
  /\ seatOf' = Claimed(p)
  /\ walkIn' = IF p \in Members \/ Connected(p) \/ Subscribing(p) THEN walkIn
               ELSE walkIn \cup {p}
  /\ UNCHANGED <<sockets, releaser, reaper, putOut>>

\* GET /teen-patti-pro?operator=demo: a session only; the room may have bots now.
DemoLaunch(p) ==
  /\ Call
  /\ sessions' = sessions \cup {p} /\ demo' = TRUE
  /\ UNCHANGED <<seatOf, sockets, releaser, bots, armed, tick, spawned, walkIn, putOut>>

\* POST /rooms/<room>/seat naming a seat: a seated player keeps the one held.
ClaimNamed(p, s) ==
  /\ Call
  /\ p \in sessions /\ seatOf[p] \notin HubSeats /\ s \notin Taken
  /\ seatOf' = [seatOf EXCEPT ![p] = s]
  /\ walkIn' = IF p \in Members \/ Connected(p) \/ Subscribing(p) THEN walkIn
               ELSE walkIn \cup {p}
  /\ UNCHANGED <<sessions, sockets, releaser, reaper, putOut>>

\* h_delete_session: the session ends and its player leaves the table.  The socket
\* stays open and the bot manager is not told.
DeleteSession(p) ==
  /\ Call
  /\ p \in sessions
  /\ sessions' = sessions \ {p}
  /\ seatOf' = Left({p}) /\ walkIn' = walkIn \ {p}
  /\ putOut' = IF Connected(p) THEN putOut \cup {p} ELSE putOut
  /\ UNCHANGED <<sockets, releaser, reaper>>

-----------------------------------------------------------------------------
(* The hub.                                                                *)

\* handle(), a subscribe frame: resolve_session, Hub.join.  Bound: one per socket.
Subscribe(c, p) ==
  /\ handler[c] = "fresh" /\ p \in sessions
  /\ hub' = hub \cup {<<c, p>>} /\ pending' = [pending EXCEPT ![p] = "none"]
  /\ handler' = [handler EXCEPT ![c] = "claim"] /\ who' = [who EXCEPT ![c] = p]
  /\ walkIn' = walkIn \ {p}
  /\ UNCHANGED <<calls, sessions, seatOf, stray, releaser, reaper, putOut>>

HandlerClaim(c) ==
  /\ handler[c] = "claim"
  /\ seatOf' = Claimed(who[c])
  /\ putOut' = putOut \ {who[c]}
  /\ handler' = [handler EXCEPT ![c] = "notify"]
  /\ UNCHANGED <<calls, sessions, hub, who, pending, stray, releaser, reaper, walkIn>>

\* Mutant: the displaced bot leaves the registry and keeps its seat.
DisplacedKeepsSeat(b) == seatOf

Displaced(b) == Left({b})

\* on_player_join: a spectator displaces one bot and stays a spectator; the fill is
\* armed for a lone player and stood down otherwise.
HandlerNotify(c) ==
  LET p == who[c]
      Joined(seated, registry) ==
        /\ seatOf' = seated /\ bots' = registry
        /\ armed' = IF RealCount(seated, registry) = 1 THEN "waiting" ELSE "off"
  IN  /\ handler[c] = "notify"
      /\ \/ ~demo /\ UNCHANGED <<seatOf, bots, armed>>
         \/ /\ demo /\ (seatOf[p] \in HubSeats \/ bots = {})
            /\ Joined(seatOf, bots)
         \/ /\ demo /\ seatOf[p] \notin HubSeats
            /\ \E b \in bots : Joined(Displaced(b), bots \ {b})
      /\ handler' = [handler EXCEPT ![c] = "quiet"] /\ who' = [who EXCEPT ![c] = Nobody]
      /\ UNCHANGED <<calls, sessions, hub, pending, stray, releaser, demo, tick, spawned, walkIn,
                     putOut>>

GoneWith(c) ==
  {p \in Players : <<c, p>> \in hub /\ \A d \in Conns \ {c} : <<d, p>> \notin hub}

\* Mutant: no timer for a player whose last timer fired and is waiting for the lock.
HubLeaveSeesRunning(c) ==
  /\ hub' = {m \in hub : m[1] # c}
  /\ pending' = [p \in Players |-> IF p \in GoneWith(c) /\ releaser[p] = "idle"
                                  THEN "running" ELSE pending[p]]

\* Hub.leave: the socket's memberships go, and each player without another socket gets
\* a grace timer, unless one is pending.
HubLeave(c) ==
  /\ hub' = {m \in hub : m[1] # c}
  /\ pending' = [p \in Players |-> IF p \in GoneWith(c) /\ pending[p] = "none"
                                  THEN "running" ELSE pending[p]]

\* push found the socket dead.
PushDrops(c) ==
  /\ \E p \in Players : <<c, p>> \in hub
  /\ HubLeave(c)
  /\ UNCHANGED <<calls, sessions, seatOf, handler, who, stray, releaser, reaper, walkIn, putOut>>

\* The handler's finally clause.
HandlerEnds(c) ==
  /\ handler[c] = "quiet"
  /\ HubLeave(c)
  /\ handler' = [handler EXCEPT ![c] = "gone"]
  /\ UNCHANGED <<calls, sessions, seatOf, who, stray, releaser, reaper, walkIn, putOut>>

\* SEAT_GRACE_S passed.  A subscribe takes less than that.
GraceElapses(p) ==
  /\ releaser[p] = "idle" /\ ~Subscribing(p)
  /\ \/ pending[p] = "running" /\ pending' = [pending EXCEPT ![p] = "fired"] /\ UNCHANGED stray
     \/ p \in stray /\ stray' = stray \ {p} /\ UNCHANGED pending
  /\ releaser' = [releaser EXCEPT ![p] = "fired"]
  /\ UNCHANGED <<calls, sessions, seatOf, hub, handler, who, reaper, walkIn, putOut>>

\* Mutant: whoever is back is not looked for.
ReleaseUnchecked(p) ==
  /\ releaser[p] = "fired"
  /\ pending' = [pending EXCEPT ![p] = "none"]
  /\ seatOf' = Left({p})
  /\ releaser' = [releaser EXCEPT ![p] = "notify"]
  /\ UNCHANGED <<calls, sessions, hub, handler, who, stray, reaper, walkIn, putOut>>

\* _release_seat, under the hub's lock.  The entry it pops may be of a later timer,
\* which then runs on.
ReleaseCheck(p) ==
  /\ releaser[p] = "fired"
  /\ pending' = [pending EXCEPT ![p] = "none"]
  /\ stray' = IF pending[p] = "running" THEN stray \cup {p} ELSE stray
  /\ releaser' = [releaser EXCEPT ![p] = IF Connected(p) THEN "idle" ELSE "leave"]
  /\ UNCHANGED <<calls, sessions, seatOf, hub, handler, who, reaper, walkIn, putOut>>

\* svc.leave_table, after the lock.
ReleaseLeave(p) ==
  /\ releaser[p] = "leave"
  /\ seatOf' = Left({p}) /\ walkIn' = walkIn \ {p}
  /\ putOut' = IF Connected(p) THEN putOut \cup {p} ELSE putOut
  /\ releaser' = [releaser EXCEPT ![p] = "notify"]
  /\ UNCHANGED <<calls, sessions, sockets, reaper>>

\* on_player_leave: a lone player is armed for; a table with company loses its bots.
ReleaseNotify(p) ==
  /\ releaser[p] = "notify"
  /\ \/ ~demo /\ UNCHANGED <<seatOf, bots, armed>>
     \/ /\ demo /\ RealCount(seatOf, bots) <= 1
        /\ armed' = "waiting" /\ UNCHANGED <<seatOf, bots>>
     \/ /\ demo /\ RealCount(seatOf, bots) > 1
        /\ seatOf' = Left(bots) /\ bots' = {} /\ UNCHANGED armed
  /\ releaser' = [releaser EXCEPT ![p] = "idle"]
  /\ UNCHANGED <<calls, sessions, sockets, demo, tick, spawned, walkIn, putOut>>

-----------------------------------------------------------------------------
(* The bot reaper.                                                         *)

FillDelayPasses ==
  /\ armed = "waiting" /\ armed' = "due"
  /\ UNCHANGED <<calls, sessions, seatOf, sockets, releaser, demo, bots, tick, spawned, walkIn,
                 putOut>>

\* _tick counts without the lock and acts on the count later.
TickCounts ==
  LET real == RealCount(seatOf, bots)
  IN  /\ tick = "idle" /\ armed # "off"
      /\ real = 1 => armed = "due"
      /\ tick' = CASE real >= 2 -> "stand down" [] real = 0 -> "purge" [] OTHER -> "start"
      /\ UNCHANGED <<calls, sessions, seatOf, sockets, releaser, demo, bots, armed, spawned,
                     walkIn, putOut>>

TickActs ==
  /\ tick \in {"stand down", "purge", "start"}
  /\ armed' = "off"
  /\ IF tick = "purge" THEN seatOf' = Left(bots) /\ bots' = {}
     ELSE UNCHANGED <<seatOf, bots>>
  /\ tick' = IF tick = "start" THEN "fill" ELSE "idle"
  /\ UNCHANGED <<calls, sessions, sockets, releaser, demo, spawned, walkIn, putOut>>

\* _fill: two seats taken make the table playable.
FillLooks ==
  /\ tick = "fill"
  /\ tick' = IF Cardinality(Taken) >= 2 \/ FreeSeats = {} THEN "idle" ELSE "spawn"
  /\ UNCHANGED <<calls, sessions, seatOf, sockets, releaser, demo, bots, armed, spawned, walkIn,
                 putOut>>

\* _spawn_bot: the seat may have gone since _fill looked.  A bot that gets none stays
\* among the members, in no registry.
FillSeats ==
  /\ tick = "spawn"
  /\ \E b \in Bots \ Members :
       /\ seatOf' = Claimed(b)
       /\ \/ seatOf'[b] \in HubSeats /\ tick' = "register" /\ spawned' = b
          \/ seatOf'[b] = Standing /\ tick' = "idle" /\ spawned' = Nobody
  /\ UNCHANGED <<calls, sessions, sockets, releaser, demo, bots, armed, walkIn, putOut>>

FillRegisters ==
  /\ tick = "register"
  /\ bots' = bots \cup {spawned} /\ spawned' = Nobody /\ tick' = "fill"
  /\ UNCHANGED <<calls, sessions, seatOf, sockets, releaser, demo, armed, walkIn, putOut>>

-----------------------------------------------------------------------------
HubNext ==
  \/ \E p \in Players :
       \/ OpenSession(p) \/ DemoLaunch(p) \/ DeleteSession(p)
       \/ GraceElapses(p) \/ ReleaseCheck(p) \/ ReleaseLeave(p) \/ ReleaseNotify(p)
       \/ \E s \in HubSeats : ClaimNamed(p, s)
       \/ \E c \in Conns : Subscribe(c, p)
  \/ \E c \in Conns :
       HandlerClaim(c) \/ HandlerNotify(c) \/ PushDrops(c) \/ HandlerEnds(c)
  \/ FillDelayPasses \/ TickCounts \/ TickActs \/ FillLooks \/ FillSeats \/ FillRegisters

HubSpec == HubInit /\ [][HubNext]_hubVars

-----------------------------------------------------------------------------
HubTypeOK ==
  /\ sessions \subseteq Players /\ seatOf \in [People -> HubSeats \cup {Standing, Away}]
  /\ hub \subseteq Conns \X Players /\ stray \subseteq Players
  /\ pending \in [Players -> {"none", "running", "fired"}]
  /\ handler \in [Conns -> {"fresh", "quiet", "claim", "notify", "gone"}]
  /\ who \in [Conns -> Players \cup {Nobody}]
  /\ releaser \in [Players -> {"idle", "fired", "leave", "notify"}]
  /\ demo \in BOOLEAN /\ bots \subseteq Bots /\ spawned \in Bots \cup {Nobody}
  /\ armed \in {"off", "waiting", "due"}
  /\ tick \in {"idle", "stand down", "purge", "start", "fill", "spawn", "register"}
  /\ walkIn \subseteq Players /\ putOut \subseteq Players /\ calls \in 0..MaxCalls

\* No seat has two owners, whoever claims: subscribers, named claims over HTTP, bots.
OneOwnerPerSeat ==
  \A p, q \in Members : seatOf[p] = seatOf[q] /\ seatOf[p] \in HubSeats => p = q

\* Nobody keeps a place for ever after the last socket went (Hub.leave: "every abandoned
\* tab left a ghost member"): the release is due, at work or about to be scheduled.  Not
\* so for a member who came by HTTP and never subscribed.
NoGhostMember ==
  \A p \in Players \cap Members :
    \/ Connected(p) \/ p \in walkIn
    \/ pending[p] = "running" \/ p \in stray
    \/ releaser[p] \in {"fired", "leave"} \/ Subscribing(p)

\* A player with a socket open whose subscribe is through is at the table, unless the
\* session was deleted or the releaser looked before the return and left after it ("a
\* phone that reconnects inside the grace window keeps its seat").
SeatLostOnlyToLateRelease ==
  \A p \in Players \ putOut : Connected(p) /\ ~Subscribing(p) => p \in Members

\* The registry and the seats of the bots agree: _count_real tells bots from players
\* by the registry alone.
BotRegistryExact ==
  /\ \A b \in bots : seatOf[b] \in HubSeats
  /\ \A b \in Bots \ bots :
       seatOf[b] \in HubSeats => tick = "register" /\ b = spawned

\* "Free a bot's seat and re-seat the human if one was waiting" (_release_seat): a bot
\* gives up its seat to the player it was displaced for.
DisplacedForSomeone ==
  [][\A c \in Conns : HandlerNotify(c) /\ bots' # bots => seatOf'[who[c]] \in HubSeats]_hubVars
=============================================================================
