----------------------------- MODULE TableProofs -----------------------------
(***************************************************************************)
(* A room on the game server (SeatHub): for every number of players,       *)
(* sockets, bots, seats and requests, nobody shares a seat, nobody keeps a *)
(* place without a socket or a release at work, and the bot registry       *)
(* agrees with the bots' seats.  And the page (GameClient, PageBets): for   *)
(* every number of refreshes, calls and rounds, a win is celebrated once    *)
(* and what is shown as staked was placed.                                  *)
(***************************************************************************)
EXTENDS MCTable, FoldLemmas, TLAPS

-----------------------------------------------------------------------------
(* The inductive invariant.                                                *)

\* A handler at work knows its player, a timer that ran out its thread.
HubLinks ==
  /\ \A c \in Conns : handler[c] \in {"claim", "notify"} => who[c] \in Players
  /\ \A p \in Players : pending[p] = "fired" => releaser[p] = "fired"

\* The bot being seated has its seat, and is not registered yet.
Registry ==
  /\ BotRegistryExact
  /\ tick = "register" => spawned \in Bots \ bots /\ seatOf[spawned] \in HubSeats

\* A socket is open, or a timer will see to it that none is.
Backed(p) == Connected(p) \/ pending[p] = "running" \/ p \in stray

\* While a handler is at work for a player no timer runs out; once it is through, the
\* player's place is backed without it.
PlacesBacked ==
  \A p \in Players :
    /\ Subscribing(p) => pending[p] # "fired" /\ Backed(p)
    /\ p \in Members => Backed(p) \/ p \in walkIn \/ releaser[p] \in {"fired", "leave"}

\* A connected player has a place or a handler about to claim one.
PlacesClaimed ==
  \A p \in Players \ putOut :
    Connected(p) => p \in Members \/ \E c \in Conns : handler[c] = "claim" /\ who[c] = p

HubInv ==
  HubTypeOK /\ HubLinks /\ OneOwnerPerSeat /\ Registry /\ PlacesBacked /\ PlacesClaimed

-----------------------------------------------------------------------------
(* HubSeats.                                                                  *)

SeatType == seatOf \in [People -> HubSeats \cup {Standing, Away}]

LEMMA SeatNumbers == Standing \notin HubSeats /\ Away \notin HubSeats /\ Standing # Away
  BY SeatAssumption DEF Standing, Away, HubSeats

\* The lowest free seat is free.
LEMMA FreeSeat == FreeSeats # {} => Min(FreeSeats) \in FreeSeats
<1>1. FreeSeats \in SUBSET Nat /\ FreeSeats \in SUBSET HubSeats
  BY SeatAssumption DEF FreeSeats, HubSeats
<1>2. IsFiniteSet(HubSeats)
  BY SeatAssumption, FS_Interval DEF HubSeats
<1>3. IsFiniteSet(FreeSeats)
  BY <1>1, <1>2, FS_Subset
<1> QED
  BY <1>1, <1>3, LeastMember

\* A claim moves one person, to the seat held, a free one, or among the spectators.
LEMMA ClaimMoves ==
  ASSUME NEW p \in People, SeatType, seatOf' = Claimed(p)
  PROVE  /\ SeatType'
         /\ \A q \in People \ {p} : seatOf'[q] = seatOf[q]
         /\ seatOf'[p] \in FreeSeats \cup {Standing} \/ (seatOf[p] \in HubSeats /\ seatOf'[p] = seatOf[p])
<1>1. FreeSeats # {} => Min(FreeSeats) \in HubSeats
  BY FreeSeat DEF FreeSeats
<1> DEFINE place == IF seatOf[p] \in HubSeats THEN seatOf[p]
                    ELSE IF FreeSeats = {} THEN Standing ELSE Min(FreeSeats)
<1>2. seatOf' = [seatOf EXCEPT ![p] = place]
  BY DEF Claimed
<1>3. /\ place \in HubSeats \cup {Standing}
      /\ place \in FreeSeats \cup {Standing} \/ (seatOf[p] \in HubSeats /\ place = seatOf[p])
  <2>1. CASE seatOf[p] \in HubSeats
    BY <2>1
  <2>2. CASE seatOf[p] \notin HubSeats /\ FreeSeats = {}
    <3>1. place = Standing
      BY <2>2
    <3> HIDE DEF place
    <3> QED
      BY <3>1
  <2>3. CASE seatOf[p] \notin HubSeats /\ FreeSeats # {}
    <3>1. place = Min(FreeSeats)
      BY <2>3
    <3> HIDE DEF place
    <3> QED
      BY <2>3, <3>1, <1>1, FreeSeat
  <2> QED
    BY <2>1, <2>2, <2>3
<1> HIDE DEF place
<1> QED
  BY <1>2, <1>3 DEF SeatType

\* Nobody leaves by a claim.
LEMMA ClaimKeeps ==
  ASSUME NEW p \in People, SeatType, seatOf' = Claimed(p)
  PROVE  Members \cup {p} = Members'
<1>1. seatOf'[p] # Away
  BY ClaimMoves, SeatNumbers DEF FreeSeats
<1>2. \A q \in People \ {p} : seatOf'[q] = seatOf[q]
  BY ClaimMoves
<1> QED
  BY <1>1, <1>2 DEF Members

LEMMA LeaveMoves ==
  ASSUME NEW P, SeatType, seatOf' = Left(P)
  PROVE  /\ SeatType'
         /\ \A q \in People : seatOf'[q] = IF q \in P THEN Away ELSE seatOf[q]
  BY DEF Left, SeatType

\* Who changes place in a step.
LEMMA SeatSteps ==
  ASSUME HubTypeOK, HubLinks, [HubNext]_hubVars
  PROVE  \/ UNCHANGED seatOf
         \/ \E p \in People : seatOf' = Claimed(p)
         \/ \E p \in Players, s \in HubSeats : s \notin Taken /\ seatOf' = [seatOf EXCEPT ![p] = s]
         \/ \E P \in SUBSET People : seatOf' = Left(P)
<1>1. CASE UNCHANGED hubVars
  BY <1>1 DEF hubVars
<1>2. ASSUME NEW p \in Players, OpenSession(p)
      PROVE  \E q \in People : seatOf' = Claimed(q)
  BY <1>2 DEF OpenSession, People
<1>3. ASSUME NEW p \in Players, DemoLaunch(p) \/ GraceElapses(p) \/ ReleaseCheck(p)
      PROVE  UNCHANGED seatOf
  BY <1>3 DEF DemoLaunch, GraceElapses, ReleaseCheck
<1>4. ASSUME NEW p \in Players, DeleteSession(p) \/ ReleaseLeave(p)
      PROVE  \E P \in SUBSET People : seatOf' = Left(P)
  BY <1>4 DEF DeleteSession, ReleaseLeave, People
<1>5. ASSUME NEW p \in Players, ReleaseNotify(p)
      PROVE  UNCHANGED seatOf \/ \E P \in SUBSET People : seatOf' = Left(P)
  BY <1>5 DEF ReleaseNotify, People, HubTypeOK
<1>6. ASSUME NEW p \in Players, NEW s \in HubSeats, ClaimNamed(p, s)
      PROVE  s \notin Taken /\ seatOf' = [seatOf EXCEPT ![p] = s]
  BY <1>6 DEF ClaimNamed
<1>7. ASSUME NEW p \in Players, NEW c \in Conns, Subscribe(c, p)
      PROVE  UNCHANGED seatOf
  BY <1>7 DEF Subscribe
<1>8. ASSUME NEW c \in Conns, HandlerClaim(c)
      PROVE  \E q \in People : seatOf' = Claimed(q)
  BY <1>8 DEF HandlerClaim, People, HubLinks
<1>9. ASSUME NEW c \in Conns, HandlerNotify(c)
      PROVE  UNCHANGED seatOf \/ \E P \in SUBSET People : seatOf' = Left(P)
  <2>1. \/ UNCHANGED seatOf
        \/ \E b \in bots : seatOf' = Displaced(b)
    BY <1>9 DEF HandlerNotify
  <2> QED
    BY <2>1 DEF Displaced, People, HubTypeOK
<1>10. ASSUME NEW c \in Conns, PushDrops(c) \/ HandlerEnds(c)
       PROVE  UNCHANGED seatOf
  BY <1>10 DEF PushDrops, HandlerEnds
<1>11. CASE FillDelayPasses \/ TickCounts \/ FillLooks \/ FillRegisters
  BY <1>11 DEF FillDelayPasses, TickCounts, FillLooks, FillRegisters
<1>12. CASE TickActs
  BY <1>12 DEF TickActs, People, HubTypeOK
<1>13. CASE FillSeats
  <2>1. PICK b \in Bots : seatOf' = Claimed(b)
    BY <1>13 DEF FillSeats
  <2> QED
    BY <2>1 DEF People
<1> QED
  BY <1>1, <1>2, <1>3, <1>4, <1>5, <1>6, <1>7, <1>8, <1>9, <1>10, <1>11, <1>12, <1>13 DEF HubNext

LEMMA OneOwnerStep ==
  ASSUME HubTypeOK, HubLinks, OneOwnerPerSeat, [HubNext]_hubVars
  PROVE  SeatType' /\ OneOwnerPerSeat'
<1> USE DEF Members
<1>0. SeatType
  BY DEF HubTypeOK, SeatType
<1>1. CASE UNCHANGED seatOf
  BY <1>0, <1>1 DEF OneOwnerPerSeat, SeatType
<1>2. ASSUME NEW p \in People, seatOf' = Claimed(p)
      PROVE  SeatType' /\ OneOwnerPerSeat'
  <2>1. ASSUME NEW q \in Members', q # p, seatOf'[q] = seatOf'[p], seatOf'[p] \in HubSeats
        PROVE  FALSE
    <3>1. seatOf[q] = seatOf'[p] /\ q \in Members
      BY <1>0, <1>2, <2>1, ClaimMoves
    <3>2. seatOf'[p] \notin FreeSeats
      BY <2>1, <3>1, SeatNumbers DEF FreeSeats, Taken
    <3>3. seatOf[p] = seatOf'[p]
      BY <1>0, <1>2, <2>1, <3>2, ClaimMoves, SeatNumbers
    <3> QED
      BY <2>1, <3>1, <3>3, SeatNumbers DEF OneOwnerPerSeat
  <2> QED
    BY <1>0, <1>2, <2>1, ClaimMoves DEF OneOwnerPerSeat
<1>3. ASSUME NEW p \in Players, NEW s \in HubSeats, s \notin Taken, seatOf' = [seatOf EXCEPT ![p] = s]
      PROVE  SeatType' /\ OneOwnerPerSeat'
  <2>1. \A q \in Members : seatOf[q] # s
    BY <1>3, SeatNumbers DEF Taken
  <2> QED
    BY <1>0, <1>3, <2>1, SeatNumbers DEF OneOwnerPerSeat, SeatType, People
<1>4. ASSUME NEW P \in SUBSET People, seatOf' = Left(P)
      PROVE  SeatType' /\ OneOwnerPerSeat'
  <2>1. \A q \in People : seatOf'[q] = IF q \in P THEN Away ELSE seatOf[q]
    BY <1>0, <1>4, LeaveMoves
  <2> QED
    BY <1>0, <1>4, <2>1, LeaveMoves DEF OneOwnerPerSeat
<1> QED
  BY <1>1, <1>2, <1>3, <1>4, SeatSteps

-----------------------------------------------------------------------------
(* Types and links.                                                        *)

LEMMA HubLeaveTypes ==
  ASSUME HubTypeOK, NEW c \in Conns, HubLeave(c)
  PROVE  hub' \subseteq Conns \X Players /\ pending' \in [Players -> {"none", "running", "fired"}]
<1>1. hub \subseteq Conns \X Players /\ pending \in [Players -> {"none", "running", "fired"}]
  BY DEF HubTypeOK
<1> QED
  BY <1>1 DEF HubLeave

LEMMA TypeStep ==
  ASSUME HubTypeOK, HubLinks, Registry, SeatType', [HubNext]_hubVars
  PROVE  HubTypeOK'
<1> USE DEF SeatType, reaper, sockets
<1>1. CASE UNCHANGED hubVars
  BY <1>1 DEF hubVars, HubTypeOK
<1>2. ASSUME NEW p \in Players,
             OpenSession(p) \/ DemoLaunch(p) \/ DeleteSession(p) \/ \E s \in HubSeats : ClaimNamed(p, s)
      PROVE  HubTypeOK'
  <2>1. calls' \in 0..MaxCalls
    <3>1. Call
      BY <1>2 DEF OpenSession, DemoLaunch, DeleteSession, ClaimNamed
    <3>2. calls \in 0..MaxCalls /\ MaxCalls \in Nat
      BY SeatAssumption DEF HubTypeOK
    <3> QED
      BY <3>1, <3>2 DEF Call
  <2>2. sessions' \subseteq Players /\ walkIn' \subseteq Players /\ putOut' \subseteq Players
    BY <1>2 DEF OpenSession, DemoLaunch, DeleteSession, ClaimNamed, HubTypeOK
  <2>3. /\ UNCHANGED <<sockets, releaser, bots, armed, tick, spawned>>
        /\ demo' \in BOOLEAN
    BY <1>2 DEF OpenSession, DemoLaunch, DeleteSession, ClaimNamed, HubTypeOK
  <2> QED
    BY <2>1, <2>2, <2>3 DEF HubTypeOK
<1>3. ASSUME NEW p \in Players,
             GraceElapses(p) \/ ReleaseCheck(p) \/ ReleaseLeave(p) \/ ReleaseNotify(p)
      PROVE  HubTypeOK'
  BY ZenonT(60), <1>3 DEF GraceElapses, ReleaseCheck, ReleaseLeave, ReleaseNotify, HubTypeOK
<1>4. ASSUME NEW p \in Players, NEW c \in Conns, Subscribe(c, p)
      PROVE  HubTypeOK'
  <2>1. hub' \subseteq Conns \X Players
    <3>1. hub \subseteq Conns \X Players /\ hub' = hub \cup {<<c, p>>}
      BY <1>4 DEF Subscribe, HubTypeOK
    <3> QED
      BY <3>1
  <2>2. handler' \in [Conns -> {"fresh", "quiet", "claim", "notify", "gone"}]
    BY <1>4 DEF Subscribe, HubTypeOK
  <2>3. who' \in [Conns -> Players \cup {Nobody}] /\ pending' \in [Players -> {"none", "running", "fired"}]
    BY <1>4 DEF Subscribe, HubTypeOK
  <2> QED
    BY <1>4, <2>1, <2>2, <2>3 DEF Subscribe, HubTypeOK
<1>5. ASSUME NEW c \in Conns, HandlerClaim(c) \/ HandlerNotify(c)
      PROVE  HubTypeOK'
  BY ZenonT(60), <1>5 DEF HandlerClaim, HandlerNotify, HubTypeOK
<1>6. ASSUME NEW c \in Conns, PushDrops(c) \/ HandlerEnds(c)
      PROVE  HubTypeOK'
  <2>1. HubLeave(c)
    BY <1>6 DEF PushDrops, HandlerEnds
  <2>2. handler' \in [Conns -> {"fresh", "quiet", "claim", "notify", "gone"}]
    BY ZenonT(60), <1>6 DEF PushDrops, HandlerEnds, HubTypeOK
  <2> QED
    BY <1>6, <2>1, <2>2, HubLeaveTypes DEF PushDrops, HandlerEnds, HubTypeOK
<1>7. CASE FillDelayPasses \/ TickCounts \/ FillLooks \/ TickActs
  BY <1>7 DEF FillDelayPasses, TickCounts, FillLooks, TickActs, HubTypeOK
<1>8. CASE FillSeats \/ FillRegisters
  BY <1>8 DEF FillSeats, FillRegisters, HubTypeOK, Registry
<1> QED
  BY <1>1, <1>2, <1>3, <1>4, <1>5, <1>6, <1>7, <1>8 DEF HubNext

\* Neither the handlers nor the timers lose their player.
LEMMA HandlerStep ==
  ASSUME HubTypeOK, HubLinks, [HubNext]_hubVars
  PROVE  \A c \in Conns : handler'[c] \in {"claim", "notify"} => who'[c] \in Players
<1>0. \A c \in Conns : handler[c] \in {"claim", "notify"} => who[c] \in Players
  BY DEF HubLinks
<1>1. handler \in [Conns -> {"fresh", "quiet", "claim", "notify", "gone"}]
      /\ who \in [Conns -> Players \cup {Nobody}]
  BY DEF HubTypeOK
<1>2. ASSUME NEW c \in Conns, handler' = [handler EXCEPT ![c] = "quiet"], who' = [who EXCEPT ![c] = Nobody]
      PROVE  \A d \in Conns : handler'[d] \in {"claim", "notify"} => who'[d] \in Players
  BY <1>0, <1>1, <1>2
<1>3. ASSUME NEW c \in Conns, handler[c] \in {"claim", "quiet"}, UNCHANGED who,
             \/ handler[c] = "claim" /\ handler' = [handler EXCEPT ![c] = "notify"]
             \/ handler' = [handler EXCEPT ![c] = "gone"]
      PROVE  \A d \in Conns : handler'[d] \in {"claim", "notify"} => who'[d] \in Players
  BY <1>0, <1>1, <1>3
<1>4. ASSUME NEW c \in Conns, NEW p \in Players, Subscribe(c, p)
      PROVE  \A d \in Conns : handler'[d] \in {"claim", "notify"} => who'[d] \in Players
  BY <1>0, <1>1, <1>4 DEF Subscribe
<1>5. \/ UNCHANGED <<handler, who>>
      \/ \E c \in Conns, p \in Players : Subscribe(c, p)
      \/ \E c \in Conns : HandlerClaim(c) \/ HandlerNotify(c) \/ HandlerEnds(c)
  BY DEF HubNext, hubVars, sockets, OpenSession, DemoLaunch, DeleteSession, ClaimNamed, GraceElapses, ReleaseCheck,
     ReleaseLeave, ReleaseNotify, PushDrops, FillDelayPasses, TickCounts, TickActs, FillLooks,
     FillSeats, FillRegisters
<1> QED
  BY <1>0, <1>2, <1>3, <1>4, <1>5 DEF HandlerClaim, HandlerNotify, HandlerEnds

\* A timer's entry says that it ran out only while its thread waits for the hub's lock.
LEMMA TimerThreads ==
  ASSUME HubTypeOK, HubLinks, [HubNext]_hubVars
  PROVE  \A p \in Players : pending'[p] = "fired" => releaser'[p] = "fired"
<1>1. SUFFICES ASSUME NEW p \in Players, pending'[p] = "fired" PROVE releaser'[p] = "fired"
  OBVIOUS
<1>t. /\ pending \in [Players -> {"none", "running", "fired"}]
      /\ releaser \in [Players -> {"idle", "fired", "leave", "notify"}]
      /\ pending[p] = "fired" => releaser[p] = "fired"
  BY DEF HubTypeOK, HubLinks
<1>2. CASE UNCHANGED <<pending, releaser>>
  BY <1>1, <1>t, <1>2
<1>3. ASSUME NEW q \in Players, GraceElapses(q)
      PROVE  releaser'[p] = "fired"
  BY <1>1, <1>t, <1>3 DEF GraceElapses
<1>4. ASSUME NEW q \in Players, ReleaseCheck(q)
      PROVE  releaser'[p] = "fired"
  BY <1>1, <1>t, <1>4 DEF ReleaseCheck
<1>5. ASSUME NEW q \in Players, UNCHANGED pending, ReleaseLeave(q) \/ ReleaseNotify(q)
      PROVE  releaser'[p] = "fired"
  BY <1>1, <1>t, <1>5 DEF ReleaseLeave, ReleaseNotify
<1>6. ASSUME NEW q \in Players, NEW c \in Conns, Subscribe(c, q)
      PROVE  releaser'[p] = "fired"
  BY <1>1, <1>t, <1>6 DEF Subscribe
<1>7. ASSUME NEW c \in Conns, PushDrops(c) \/ HandlerEnds(c)
      PROVE  releaser'[p] = "fired"
  <2>1. UNCHANGED releaser /\ HubLeave(c)
    BY <1>7 DEF PushDrops, HandlerEnds
  <2>2. pending[p] = "fired"
    BY <1>1, <2>1 DEF HubLeave
  <2> QED
    BY <1>t, <2>1, <2>2
<1> QED
  BY <1>2, <1>3, <1>4, <1>5, <1>6, <1>7
  DEF HubNext, hubVars, sockets, OpenSession, DemoLaunch, DeleteSession, ClaimNamed, ReleaseLeave, ReleaseNotify,
      HandlerClaim, HandlerNotify, FillDelayPasses, TickCounts, TickActs, FillLooks, FillSeats, FillRegisters

LEMMA RegistryStep ==
  ASSUME HubTypeOK, HubLinks, Registry, [HubNext]_hubVars
  PROVE  Registry'
<1>t. SeatType /\ bots \subseteq Bots
  BY DEF SeatType, HubTypeOK
\* A step that seats and unseats only players changes nothing here.
<1>f. ASSUME \A b \in Bots : seatOf'[b] = seatOf[b], UNCHANGED <<bots, tick, spawned>>
      PROVE  Registry'
  BY <1>f, <1>t DEF Registry, BotRegistryExact
\* Registered bots that leave leave the registry too.
<1>l. ASSUME NEW P \in SUBSET bots, seatOf' = Left(P), bots' = bots \ P,
             (tick' = "register" => tick = "register"), UNCHANGED spawned,
             (tick = "register" => tick' = "register")
      PROVE  Registry'
  <2>1. \A b \in Bots : seatOf'[b] = IF b \in P THEN Away ELSE seatOf[b]
    BY <1>l, <1>t, LeaveMoves DEF People
  <2> QED
    BY <1>l, <1>t, <2>1, SeatNumbers DEF Registry, BotRegistryExact
\* The reaper goes on, before a seat or after the registration.
<1>r. ASSUME UNCHANGED <<seatOf, bots, spawned>>, tick # "register", tick' # "register"
      PROVE  Registry'
  BY <1>r DEF Registry, BotRegistryExact
<1>1. CASE UNCHANGED hubVars
  BY <1>1, <1>f DEF hubVars
<1>2. ASSUME NEW p \in Players, OpenSession(p)
      PROVE  Registry'
  BY <1>2, <1>f, <1>t, ClaimMoves, SeatAssumption DEF OpenSession, People, reaper
<1>3. ASSUME NEW p \in Players, NEW s \in HubSeats, ClaimNamed(p, s)
      PROVE  Registry'
  <2>1. \A b \in Bots : seatOf'[b] = seatOf[b]
    BY <1>3, <1>t, SeatAssumption DEF ClaimNamed, People, SeatType
  <2> QED
    BY <1>3, <1>f, <2>1 DEF ClaimNamed, reaper
<1>4. ASSUME NEW p \in Players, DeleteSession(p) \/ ReleaseLeave(p)
      PROVE  Registry'
  <2>1. seatOf' = Left({p})
    BY <1>4 DEF DeleteSession, ReleaseLeave
  <2>2. \A b \in Bots : seatOf'[b] = seatOf[b]
    BY <1>t, <2>1, LeaveMoves, SeatAssumption DEF People
  <2> QED
    BY <1>4, <1>f, <2>2 DEF DeleteSession, ReleaseLeave, reaper
<1>5. ASSUME NEW p \in Players, DemoLaunch(p) \/ GraceElapses(p) \/ ReleaseCheck(p)
      PROVE  Registry'
  BY <1>5, <1>f DEF DemoLaunch, GraceElapses, ReleaseCheck, reaper
<1>6. ASSUME NEW p \in Players, ReleaseNotify(p)
      PROVE  Registry'
  <2>1. UNCHANGED <<tick, spawned>>
    BY <1>6 DEF ReleaseNotify
  <2>2. \/ UNCHANGED <<seatOf, bots>>
        \/ seatOf' = Left(bots) /\ bots' = bots \ bots
    BY <1>6 DEF ReleaseNotify
  <2>3. CASE UNCHANGED <<seatOf, bots>>
    BY <1>f, <2>1, <2>3
  <2>4. CASE seatOf' = Left(bots) /\ bots' = bots \ bots
    BY <1>l, <2>1, <2>4
  <2> QED
    BY <2>2, <2>3, <2>4
<1>7. ASSUME NEW p \in Players, NEW c \in Conns, Subscribe(c, p)
      PROVE  Registry'
  BY <1>7, <1>f DEF Subscribe, reaper
<1>8. ASSUME NEW c \in Conns, HandlerClaim(c)
      PROVE  Registry'
  <2>1. who[c] \in Players /\ seatOf' = Claimed(who[c])
    BY <1>8 DEF HandlerClaim, HubLinks
  <2>2. \A b \in Bots : seatOf'[b] = seatOf[b]
    BY <1>t, <2>1, ClaimMoves, SeatAssumption DEF People
  <2> QED
    BY <1>8, <1>f, <2>2 DEF HandlerClaim, reaper
<1>9. ASSUME NEW c \in Conns, HandlerNotify(c)
      PROVE  Registry'
  <2>1. UNCHANGED <<tick, spawned>>
    BY <1>9 DEF HandlerNotify
  <2>2. \/ UNCHANGED <<seatOf, bots>>
        \/ \E b \in bots : seatOf' = Left({b}) /\ bots' = bots \ {b}
    BY <1>9 DEF HandlerNotify, Displaced
  <2>3. CASE UNCHANGED <<seatOf, bots>>
    BY <1>f, <2>1, <2>3
  <2>4. ASSUME NEW b \in bots, seatOf' = Left({b}), bots' = bots \ {b}
        PROVE  Registry'
    BY <1>l, <2>1, <2>4
  <2> QED
    BY <2>2, <2>3, <2>4
<1>10. ASSUME NEW c \in Conns, PushDrops(c) \/ HandlerEnds(c)
       PROVE  Registry'
  BY <1>10, <1>f DEF PushDrops, HandlerEnds, reaper
<1>11. CASE FillDelayPasses
  BY <1>11, <1>f DEF FillDelayPasses
<1>12. CASE TickCounts \/ FillLooks
  <2>1. UNCHANGED <<seatOf, bots, spawned>> /\ tick # "register"
    BY <1>12 DEF TickCounts, FillLooks
  <2>2. tick' # "register"
    BY <1>12 DEF TickCounts, FillLooks
  <2> QED
    BY <1>r, <2>1, <2>2
<1>13. CASE TickActs
  <2>1. UNCHANGED spawned /\ tick # "register" /\ tick' # "register"
    BY <1>13 DEF TickActs
  <2>2. \/ UNCHANGED <<seatOf, bots>>
        \/ seatOf' = Left(bots) /\ bots' = bots \ bots
    BY <1>13 DEF TickActs
  <2>3. CASE seatOf' = Left(bots) /\ bots' = bots \ bots
    BY <1>l, <2>1, <2>3
  <2> QED
    BY <1>r, <2>1, <2>2, <2>3
<1>14. CASE FillSeats
  <2>1. PICK b \in Bots \ Members :
          /\ seatOf' = Claimed(b)
          /\ \/ seatOf'[b] \in HubSeats /\ tick' = "register" /\ spawned' = b
             \/ seatOf'[b] = Standing /\ tick' = "idle" /\ spawned' = Nobody
    BY <1>14 DEF FillSeats
  <2>2. \A q \in Bots \ {b} : seatOf'[q] = seatOf[q]
    BY <1>t, <2>1, ClaimMoves DEF People
  <2>3. b \notin bots
    BY <2>1, SeatNumbers DEF Members, People, Registry, BotRegistryExact
  <2>4. tick = "spawn" /\ UNCHANGED bots
    BY <1>14 DEF FillSeats
  <2>5. ASSUME NEW q \in Bots, q # b
        PROVE  (q \in bots => seatOf'[q] \in HubSeats) /\ (seatOf'[q] \in HubSeats => q \in bots)
    BY <2>2, <2>4, <2>5 DEF Registry, BotRegistryExact
  <2> QED
    BY <1>t, <2>1, <2>3, <2>4, <2>5, SeatNumbers DEF Registry, BotRegistryExact
<1>15. CASE FillRegisters
  BY <1>15 DEF FillRegisters, Registry, BotRegistryExact
<1> QED
  BY <1>1, <1>2, <1>3, <1>4, <1>5, <1>6, <1>7, <1>8, <1>9, <1>10, <1>11, <1>12, <1>13, <1>14,
     <1>15 DEF HubNext

-----------------------------------------------------------------------------
(* Places and timers.                                                      *)

\* A socket that goes leaves a timer behind, or another socket.
LEMMA LeaveBacks ==
  ASSUME HubTypeOK, HubLinks, NEW c \in Conns, HubLeave(c), UNCHANGED <<stray, releaser>>,
         NEW p \in Players
  PROVE  /\ pending'[p] = "fired" => pending[p] = "fired"
         /\ Backed(p) => Backed(p)' \/ releaser[p] = "fired"
         /\ Backed(p) /\ pending[p] # "fired" => Backed(p)'
         /\ Connected(p)' => Connected(p)
<1>1. pending'[p] = IF p \in GoneWith(c) /\ pending[p] = "none" THEN "running" ELSE pending[p]
  BY DEF HubLeave
<1>2. pending[p] \in {"none", "running", "fired"}
  BY DEF HubTypeOK
<1>3. Connected(p) => Connected(p)' \/ p \in GoneWith(c)
  BY DEF HubLeave, Connected, GoneWith
<1>4. Connected(p)' => Connected(p)
  BY DEF HubLeave, Connected
<1>5. pending[p] = "fired" => releaser[p] = "fired"
  BY DEF HubLinks
<1> QED
  BY <1>1, <1>2, <1>3, <1>4, <1>5 DEF Backed

\* Who comes to be a member in a step.
LEMMA NewMembers ==
  ASSUME HubTypeOK, HubLinks, [HubNext]_hubVars, NEW p \in Players, p \in Members', p \notin Members
  PROVE  OpenSession(p) \/ (\E s \in HubSeats : ClaimNamed(p, s)) \/ \E c \in Conns : HandlerClaim(c) /\ who[c] = p
<1>t. SeatType /\ p \in People /\ seatOf'[p] # seatOf[p] /\ seatOf'[p] # Away
  BY DEF SeatType, HubTypeOK, People, Members
<1>1. ASSUME NEW P \in SUBSET People, seatOf' = Left(P)
      PROVE  FALSE
  BY <1>1, <1>t, LeaveMoves
<1>2. ASSUME NEW q \in People, seatOf' = Claimed(q)
      PROVE  p = q
  BY <1>2, <1>t, ClaimMoves
<1>3. ASSUME NEW q \in Players, OpenSession(q) PROVE p = q
  BY <1>2, <1>3 DEF OpenSession, People
<1>4. ASSUME NEW q \in Players, NEW s \in HubSeats, ClaimNamed(q, s) PROVE p = q
  BY <1>4, <1>t DEF ClaimNamed, SeatType
<1>5. ASSUME NEW c \in Conns, HandlerClaim(c) PROVE p = who[c]
  BY <1>2, <1>5 DEF HandlerClaim, People, HubLinks
<1>6. ASSUME NEW q \in Players, DeleteSession(q) \/ ReleaseLeave(q) \/ ReleaseNotify(q) PROVE FALSE
  <2>1. (\E P \in SUBSET People : seatOf' = Left(P)) \/ UNCHANGED seatOf
    BY <1>6 DEF DeleteSession, ReleaseLeave, ReleaseNotify, People, HubTypeOK
  <2> QED
    BY <1>1, <1>t, <2>1
<1>7. ASSUME TickActs \/ \E c \in Conns : HandlerNotify(c) PROVE FALSE
  <2>1. (\E P \in SUBSET People : seatOf' = Left(P)) \/ UNCHANGED seatOf
    BY ZenonT(60), <1>7 DEF TickActs, HandlerNotify, Displaced, People, HubTypeOK
  <2> QED
    BY <1>1, <1>t, <2>1
<1>8. ASSUME FillSeats PROVE FALSE
  <2>1. PICK b \in Bots : seatOf' = Claimed(b)
    BY <1>8 DEF FillSeats
  <2> QED
    BY <1>2, <2>1, SeatAssumption DEF People
<1>9. ~UNCHANGED seatOf
  BY <1>t
<1> QED
  BY <1>3, <1>4, <1>5, <1>6, <1>7, <1>8, <1>9
  DEF HubNext, hubVars, DemoLaunch, GraceElapses, ReleaseCheck, Subscribe, PushDrops, HandlerEnds,
      FillDelayPasses, TickCounts, FillLooks, FillRegisters

\* What a step can do to the sockets and timers of a player.
LEMMA TimerSteps ==
  ASSUME [HubNext]_hubVars
  PROVE  \/ UNCHANGED <<hub, pending, stray>>
         \/ \E c \in Conns, q \in Players : Subscribe(c, q)
         \/ \E c \in Conns : HubLeave(c) /\ UNCHANGED <<stray, releaser, who>>
         \/ \E q \in Players : GraceElapses(q) \/ ReleaseCheck(q)
  BY ZenonT(60) DEF HubNext, hubVars, sockets, OpenSession, DemoLaunch, DeleteSession, ClaimNamed, ReleaseLeave,
     ReleaseNotify, HandlerClaim, HandlerNotify, PushDrops, HandlerEnds, FillDelayPasses, TickCounts,
     TickActs, FillLooks, FillSeats, FillRegisters

LEMMA NewSubscribers ==
  ASSUME HubTypeOK, HubLinks, [HubNext]_hubVars, NEW p \in Players, Subscribing(p)', ~Subscribing(p)
  PROVE  \E c \in Conns : Subscribe(c, p)
<1>1. handler \in [Conns -> {"fresh", "quiet", "claim", "notify", "gone"}]
      /\ who \in [Conns -> Players \cup {Nobody}] /\ Nobody # p
  BY SeatAssumption DEF HubTypeOK
<1>2. PICK c \in Conns : handler'[c] \in {"claim", "notify"} /\ who'[c] = p
  BY DEF Subscribing
<1>3. handler[c] \notin {"claim", "notify"} \/ who[c] # p
  BY DEF Subscribing
<1>4. ASSUME NEW d \in Conns, HandlerClaim(d) PROVE FALSE
  BY <1>1, <1>2, <1>3, <1>4 DEF HandlerClaim
<1>5. ASSUME NEW d \in Conns, HandlerNotify(d) PROVE FALSE
  BY <1>1, <1>2, <1>3, <1>5 DEF HandlerNotify
<1>6. ASSUME NEW d \in Conns, HandlerEnds(d) PROVE FALSE
  BY <1>1, <1>2, <1>3, <1>6 DEF HandlerEnds
<1>7. ASSUME NEW d \in Conns, NEW q \in Players, Subscribe(d, q) PROVE q = p
  BY <1>1, <1>2, <1>3, <1>7 DEF Subscribe
<1>8. \/ UNCHANGED <<handler, who>>
      \/ \E d \in Conns, q \in Players : Subscribe(d, q)
      \/ \E d \in Conns : HandlerClaim(d) \/ HandlerNotify(d) \/ HandlerEnds(d)
  BY DEF HubNext, hubVars, sockets, OpenSession, DemoLaunch, DeleteSession, ClaimNamed, GraceElapses, ReleaseCheck,
     ReleaseLeave, ReleaseNotify, PushDrops, FillDelayPasses, TickCounts, TickActs, FillLooks,
     FillSeats, FillRegisters
<1> QED
  BY <1>2, <1>3, <1>4, <1>5, <1>6, <1>7, <1>8

LEMMA SubscribersBacked ==
  ASSUME HubTypeOK, HubLinks, PlacesBacked, [HubNext]_hubVars, NEW p \in Players, Subscribing(p)'
  PROVE  pending'[p] # "fired" /\ Backed(p)'
<1>t. pending \in [Players -> {"none", "running", "fired"}]
  BY DEF HubTypeOK
<1>1. ASSUME NEW c \in Conns, Subscribe(c, p)
      PROVE  pending'[p] # "fired" /\ Backed(p)'
  BY <1>1, <1>t DEF Subscribe, Backed, Connected
<1>2. CASE Subscribing(p)
  <2>0. pending[p] # "fired" /\ Backed(p)
    BY <1>2 DEF PlacesBacked
  <2>1. CASE UNCHANGED <<hub, pending, stray>>
    BY <2>0, <2>1 DEF Backed, Connected
  <2>2. ASSUME NEW c \in Conns, NEW q \in Players, Subscribe(c, q), q # p
        PROVE  pending'[p] # "fired" /\ Backed(p)'
    BY <1>t, <2>0, <2>2 DEF Subscribe, Backed, Connected
  <2>3. ASSUME NEW c \in Conns, HubLeave(c), UNCHANGED <<stray, releaser>>
        PROVE  pending'[p] # "fired" /\ Backed(p)'
    BY <2>0, <2>3, LeaveBacks
  <2>4. ASSUME NEW q \in Players, GraceElapses(q)
        PROVE  pending'[p] # "fired" /\ Backed(p)'
    <3>1. q # p
      BY <1>2, <2>4 DEF GraceElapses
    <3> QED
      BY <1>t, <2>0, <2>4, <3>1 DEF GraceElapses, Backed, Connected
  <2>5. ASSUME NEW q \in Players, ReleaseCheck(q)
        PROVE  pending'[p] # "fired" /\ Backed(p)'
    BY <1>t, <2>0, <2>5 DEF ReleaseCheck, Backed, Connected
  <2> QED
    BY <1>1, <2>1, <2>2, <2>3, <2>4, <2>5, TimerSteps
<1> QED
  BY <1>1, <1>2, NewSubscribers

\* What backs a place beside the sockets and timers, and how it ends.
LEMMA WalkInSteps ==
  ASSUME HubTypeOK, [HubNext]_hubVars, NEW p \in Players
  PROVE  /\ p \in walkIn /\ p \notin walkIn' => p \notin Members' \/ \E c \in Conns : Subscribe(c, p)
         /\ OpenSession(p) \/ (\E s \in HubSeats : ClaimNamed(p, s))
              => p \in Members \/ Connected(p) \/ Subscribing(p) \/ p \in walkIn'
<1>t. SeatType
  BY DEF SeatType, HubTypeOK
<1>1. OpenSession(p) \/ (\E s \in HubSeats : ClaimNamed(p, s))
        => p \in Members \/ Connected(p) \/ Subscribing(p) \/ p \in walkIn'
  BY DEF OpenSession, ClaimNamed
<1>2. ASSUME NEW q \in Players, DeleteSession(q) \/ ReleaseLeave(q)
      PROVE  seatOf' = Left({q}) /\ walkIn' = walkIn \ {q}
  BY <1>2 DEF DeleteSession, ReleaseLeave
<1>3. ASSUME NEW q \in Players, seatOf' = Left({q}), q = p
      PROVE  p \notin Members'
  BY <1>3 DEF Left, Members, People
<1>4. \/ walkIn \subseteq walkIn'
      \/ \E q \in Players : DeleteSession(q) \/ ReleaseLeave(q)
      \/ \E q \in Players, c \in Conns : Subscribe(c, q)
  BY DEF HubNext, hubVars, sockets, OpenSession, DemoLaunch, ClaimNamed, GraceElapses, ReleaseCheck,
     ReleaseNotify, HandlerClaim, HandlerNotify, PushDrops, HandlerEnds, FillDelayPasses, TickCounts,
     TickActs, FillLooks, FillSeats, FillRegisters
<1>5. ASSUME NEW q \in Players, NEW c \in Conns, Subscribe(c, q)
      PROVE  walkIn' = walkIn \ {q}
  BY <1>5 DEF Subscribe
<1> QED
  BY <1>1, <1>2, <1>3, <1>4, <1>5

LEMMA BackingKept ==
  ASSUME HubTypeOK, HubLinks, [HubNext]_hubVars, NEW p \in Players, Backed(p)
  PROVE  Backed(p)' \/ releaser'[p] \in {"fired", "leave"}
<1>t. /\ pending \in [Players -> {"none", "running", "fired"}]
      /\ releaser \in [Players -> {"idle", "fired", "leave", "notify"}]
  BY DEF HubTypeOK
<1>1. CASE UNCHANGED <<hub, pending, stray>>
  BY <1>1 DEF Backed, Connected
<1>2. ASSUME NEW c \in Conns, NEW q \in Players, Subscribe(c, q)
      PROVE  Backed(p)'
  BY <1>t, <1>2 DEF Subscribe, Backed, Connected
<1>3. ASSUME NEW c \in Conns, HubLeave(c), UNCHANGED <<stray, releaser>>
      PROVE  Backed(p)' \/ releaser'[p] \in {"fired", "leave"}
  BY <1>3, LeaveBacks
<1>4. ASSUME NEW q \in Players, GraceElapses(q)
      PROVE  Backed(p)' \/ releaser'[p] \in {"fired", "leave"}
  BY <1>t, <1>4 DEF GraceElapses, Backed, Connected
<1>5. ASSUME NEW q \in Players, ReleaseCheck(q)
      PROVE  Backed(p)' \/ releaser'[p] \in {"fired", "leave"}
  BY <1>t, <1>5 DEF ReleaseCheck, Backed, Connected
<1> QED
  BY <1>1, <1>2, <1>3, <1>4, <1>5, TimerSteps

LEMMA ReleaseKept ==
  ASSUME HubTypeOK, [HubNext]_hubVars, NEW p \in Players, releaser[p] \in {"fired", "leave"}
  PROVE  Backed(p)' \/ releaser'[p] \in {"fired", "leave"} \/ p \notin Members'
<1>t. releaser \in [Players -> {"idle", "fired", "leave", "notify"}]
  BY DEF HubTypeOK
<1>1. ASSUME NEW q \in Players, GraceElapses(q)
      PROVE  releaser'[p] \in {"fired", "leave"}
  BY <1>t, <1>1 DEF GraceElapses
<1>2. ASSUME NEW q \in Players, ReleaseCheck(q)
      PROVE  Backed(p)' \/ releaser'[p] \in {"fired", "leave"}
  BY <1>t, <1>2 DEF ReleaseCheck, Backed, Connected
<1>3. ASSUME NEW q \in Players, ReleaseLeave(q)
      PROVE  releaser'[p] \in {"fired", "leave"} \/ p \notin Members'
  BY <1>t, <1>3 DEF ReleaseLeave, Left, Members, People
<1>4. ASSUME NEW q \in Players, ReleaseNotify(q)
      PROVE  releaser'[p] \in {"fired", "leave"}
  BY <1>t, <1>4 DEF ReleaseNotify
<1>5. \/ UNCHANGED releaser
      \/ \E q \in Players : GraceElapses(q) \/ ReleaseCheck(q) \/ ReleaseLeave(q) \/ ReleaseNotify(q)
  BY DEF HubNext, hubVars, OpenSession, DemoLaunch, DeleteSession, ClaimNamed, Subscribe, HandlerClaim,
     HandlerNotify, PushDrops, HandlerEnds, FillDelayPasses, TickCounts, TickActs, FillLooks, FillSeats,
     FillRegisters
<1> QED
  BY <1>1, <1>2, <1>3, <1>4, <1>5

LEMMA BackedStep ==
  ASSUME HubTypeOK, HubLinks, PlacesBacked, [HubNext]_hubVars
  PROVE  PlacesBacked'
<1>1. SUFFICES ASSUME NEW p \in Players, p \in Members'
               PROVE  Backed(p)' \/ p \in walkIn' \/ releaser'[p] \in {"fired", "leave"}
  BY SubscribersBacked DEF PlacesBacked
<1>2. ASSUME NEW c \in Conns, Subscribe(c, p)
      PROVE  Backed(p)'
  BY <1>2 DEF Subscribe, Backed, Connected
<1>3. CASE p \in Members
  BY <1>1, <1>2, <1>3, WalkInSteps, BackingKept, ReleaseKept DEF PlacesBacked
<1>4. CASE p \notin Members
  <2>1. CASE OpenSession(p) \/ \E s \in HubSeats : ClaimNamed(p, s)
    <3>1. UNCHANGED <<hub, pending, stray>>
      BY <2>1 DEF OpenSession, ClaimNamed, sockets
    <3>2. Backed(p) \/ p \in walkIn'
      BY <1>4, <2>1, WalkInSteps DEF PlacesBacked, Backed
    <3> QED
      BY <3>1, <3>2 DEF Backed, Connected
  <2>2. ASSUME NEW c \in Conns, HandlerClaim(c), who[c] = p
        PROVE  Backed(p)'
    <3>1. handler'[c] = "notify" /\ who'[c] = p
      BY <2>2 DEF HandlerClaim, HubTypeOK
    <3> QED
      BY <3>1, SubscribersBacked DEF Subscribing
  <2> QED
    BY <1>1, <1>4, <2>1, <2>2, NewMembers
<1> QED
  BY <1>3, <1>4

-----------------------------------------------------------------------------
(* Connected players.                                                      *)

LEMMA ClaimedStep ==
  ASSUME HubTypeOK, HubLinks, PlacesClaimed, [HubNext]_hubVars
  PROVE  PlacesClaimed'
<1>1. SUFFICES ASSUME NEW p \in Players, p \notin putOut', Connected(p)'
               PROVE  p \in Members' \/ \E c \in Conns : handler'[c] = "claim" /\ who'[c] = p
  BY DEF PlacesClaimed
<1>t. /\ handler \in [Conns -> {"fresh", "quiet", "claim", "notify", "gone"}]
      /\ who \in [Conns -> Players \cup {Nobody}] /\ SeatType /\ p \in People /\ bots \subseteq Bots /\ p \notin Bots
  BY SeatAssumption DEF HubTypeOK, SeatType, People
<1>2. ASSUME NEW c \in Conns, Subscribe(c, p)
      PROVE  handler'[c] = "claim" /\ who'[c] = p
  BY <1>t, <1>2 DEF Subscribe
<1>3. ASSUME NEW c \in Conns, HandlerClaim(c), who[c] = p
      PROVE  p \in Members'
  BY <1>t, <1>3, ClaimKeeps DEF HandlerClaim
<1>4. CASE Connected(p) /\ p \notin putOut
  <2>1. CASE p \in Members
    <3>1. ASSUME NEW q \in Players, DeleteSession(q) \/ ReleaseLeave(q)
          PROVE  p \in Members'
      <4>1. q # p
        BY <1>1, <1>4, <3>1 DEF DeleteSession, ReleaseLeave
      <4>2. seatOf' = Left({q})
        BY <3>1 DEF DeleteSession, ReleaseLeave
      <4> QED
        BY <1>t, <2>1, <4>1, <4>2, LeaveMoves DEF Members
    <3>2. ASSUME NEW q \in People, seatOf' = Claimed(q)
          PROVE  p \in Members'
      BY <1>t, <2>1, <3>2, ClaimKeeps
    <3>3. ASSUME NEW q \in Players, NEW s \in HubSeats, ClaimNamed(q, s)
          PROVE  p \in Members'
      BY <1>t, <2>1, <3>3, SeatNumbers DEF Members, ClaimNamed, SeatType
    <3>4. ASSUME NEW P \in SUBSET Bots, seatOf' = Left(P)
          PROVE  p \in Members'
      BY <1>t, <2>1, <3>4, LeaveMoves DEF Members, People
    <3>5. \/ UNCHANGED seatOf
          \/ \E q \in Players : OpenSession(q) \/ DeleteSession(q) \/ ReleaseLeave(q) \/ ReleaseNotify(q)
          \/ \E q \in Players, s \in HubSeats : ClaimNamed(q, s)
          \/ \E c \in Conns : HandlerClaim(c) \/ HandlerNotify(c)
          \/ TickActs \/ FillSeats
      BY DEF HubNext, hubVars, DemoLaunch, GraceElapses, ReleaseCheck, Subscribe, PushDrops, HandlerEnds,
         FillDelayPasses, TickCounts, FillLooks, FillRegisters
    <3>6. ASSUME (\E q \in Players : ReleaseNotify(q)) \/ (\E c \in Conns : HandlerNotify(c)) \/ TickActs
          PROVE  UNCHANGED seatOf \/ \E P \in SUBSET Bots : seatOf' = Left(P)
      BY ZenonT(60), <1>t, <3>6 DEF ReleaseNotify, HandlerNotify, TickActs, Displaced
    <3>7. ASSUME (\E q \in Players : OpenSession(q)) \/ (\E c \in Conns : HandlerClaim(c)) \/ FillSeats
          PROVE  \E q \in People : seatOf' = Claimed(q)
      <4>1. CASE FillSeats
        <5>1. PICK b \in Bots : seatOf' = Claimed(b)
          BY <4>1 DEF FillSeats
        <5> QED
          BY <5>1 DEF People
      <4> QED
        BY <3>7, <4>1 DEF OpenSession, HandlerClaim, HubLinks, People
    <3>8. UNCHANGED seatOf => p \in Members'
      BY <2>1 DEF Members
    <3> QED
      BY <3>1, <3>2, <3>3, <3>4, <3>5, <3>6, <3>7, <3>8
  <2>2. ASSUME NEW c \in Conns, handler[c] = "claim", who[c] = p
        PROVE  p \in Members' \/ (handler'[c] = "claim" /\ who'[c] = p)
    <3>1. CASE HandlerClaim(c)
      BY <1>3, <2>2, <3>1
    <3>2. ASSUME NEW d \in Conns, HandlerClaim(d) \/ HandlerNotify(d) \/ HandlerEnds(d), d # c
          PROVE  handler'[c] = "claim" /\ who'[c] = p
      BY <1>t, <2>2, <3>2 DEF HandlerClaim, HandlerNotify, HandlerEnds
    <3>3. ASSUME NEW d \in Conns, NEW q \in Players, Subscribe(d, q)
          PROVE  handler'[c] = "claim" /\ who'[c] = p
      BY <1>t, <2>2, <3>3 DEF Subscribe
    <3>4. \/ UNCHANGED <<handler, who>>
          \/ \E d \in Conns, q \in Players : Subscribe(d, q)
          \/ \E d \in Conns : HandlerClaim(d) \/ HandlerNotify(d) \/ HandlerEnds(d)
      BY ZenonT(60) DEF HubNext, hubVars, sockets, OpenSession, DemoLaunch, DeleteSession, ClaimNamed, GraceElapses, ReleaseCheck,
         ReleaseLeave, ReleaseNotify, PushDrops, FillDelayPasses, TickCounts, TickActs, FillLooks,
         FillSeats, FillRegisters
    <3>5. ~HandlerNotify(c) /\ ~HandlerEnds(c)
      BY <2>2 DEF HandlerNotify, HandlerEnds
    <3> QED
      BY <2>2, <3>1, <3>2, <3>3, <3>4, <3>5
  <2> QED
    BY <1>4, <2>1, <2>2 DEF PlacesClaimed
<1>5. CASE ~Connected(p)
  <2>1. \/ hub' \subseteq hub
        \/ \E c \in Conns, q \in Players : Subscribe(c, q)
    <3>1. ASSUME NEW c \in Conns, HubLeave(c) PROVE hub' \subseteq hub
      BY <3>1 DEF HubLeave
    <3> QED
      BY <3>1, TimerSteps DEF GraceElapses, ReleaseCheck
  <2>2. ~(hub' \subseteq hub)
    BY <1>1, <1>5 DEF Connected
  <2>3. ASSUME NEW c \in Conns, NEW q \in Players, Subscribe(c, q), q # p
        PROVE  FALSE
    BY <1>1, <1>5, <2>3 DEF Subscribe, Connected
  <2> QED
    BY <1>2, <2>1, <2>2, <2>3
<1>6. CASE p \in putOut
  <2>1. \/ putOut \subseteq putOut'
        \/ \E c \in Conns : HandlerClaim(c)
    BY ZenonT(60) DEF HubNext, hubVars, sockets, OpenSession, DemoLaunch, DeleteSession, ClaimNamed, Subscribe, GraceElapses,
       ReleaseCheck, ReleaseLeave, ReleaseNotify, HandlerNotify, PushDrops, HandlerEnds, FillDelayPasses,
       TickCounts, TickActs, FillLooks, FillSeats, FillRegisters
  <2>2. PICK c \in Conns : HandlerClaim(c)
    BY <1>1, <1>6, <2>1
  <2>3. who[c] = p
    BY <1>1, <1>6, <2>2 DEF HandlerClaim
  <2> QED
    BY <1>3, <2>2, <2>3
<1> QED
  BY <1>4, <1>5, <1>6

-----------------------------------------------------------------------------
(* The invariant holds.                                                    *)

LEMMA HubInitial == HubInit => HubInv
<1> SUFFICES ASSUME HubInit PROVE HubInv
  OBVIOUS
<1>1. Members = {}
  BY DEF HubInit, Members
<1>2. HubTypeOK
  <2>1. calls \in 0..MaxCalls
    BY SeatAssumption DEF HubInit
  <2>2. seatOf \in [People -> HubSeats \cup {Standing, Away}]
    BY DEF HubInit
  <2>3. /\ sessions \subseteq Players /\ hub \subseteq Conns \X Players /\ stray \subseteq Players
        /\ walkIn \subseteq Players /\ putOut \subseteq Players /\ bots \subseteq Bots
    BY DEF HubInit
  <2> QED
    BY <2>1, <2>2, <2>3 DEF HubInit, HubTypeOK
<1>3. \A p \in Players : ~Subscribing(p) /\ ~Connected(p)
  BY DEF HubInit, Subscribing, Connected
<1>4. Registry
  BY SeatNumbers DEF HubInit, Registry, BotRegistryExact, People
<1> QED
  BY <1>1, <1>2, <1>3, <1>4
  DEF HubInit, HubInv, HubLinks, OneOwnerPerSeat, PlacesBacked, PlacesClaimed

LEMMA HubStep == HubInv /\ [HubNext]_hubVars => HubInv'
<1> SUFFICES ASSUME HubInv, [HubNext]_hubVars PROVE HubInv'
  OBVIOUS
<1>1. HubTypeOK /\ HubLinks /\ OneOwnerPerSeat /\ Registry /\ PlacesBacked /\ PlacesClaimed
  BY DEF HubInv
<1>2. SeatType' /\ OneOwnerPerSeat'
  BY <1>1, OneOwnerStep
<1>3. HubTypeOK'
  BY <1>1, <1>2, TypeStep
<1>4. HubLinks'
  BY <1>1, HandlerStep, TimerThreads DEF HubLinks
<1> QED
  BY <1>1, <1>2, <1>3, <1>4, RegistryStep, BackedStep, ClaimedStep DEF HubInv

LEMMA HubSafety == HubSpec => []HubInv
  BY HubInitial, HubStep, PTL DEF HubSpec

\* HubInv gives the four promises of the table.
LEMMA HubPromises ==
  HubInv => OneOwnerPerSeat /\ NoGhostMember /\ SeatLostOnlyToLateRelease /\ BotRegistryExact
<1> SUFFICES ASSUME HubInv
             PROVE  OneOwnerPerSeat /\ NoGhostMember /\ SeatLostOnlyToLateRelease /\ BotRegistryExact
  OBVIOUS
<1>1. OneOwnerPerSeat /\ BotRegistryExact
  BY DEF HubInv, Registry
<1>2. NoGhostMember
  BY DEF HubInv, PlacesBacked, Backed, NoGhostMember
<1>3. SeatLostOnlyToLateRelease
  BY DEF HubInv, PlacesClaimed, SeatLostOnlyToLateRelease, Subscribing
<1> QED
  BY <1>1, <1>2, <1>3

\* Whoever claims (subscribers, named claims, bots), no seat has two owners
\* (Room.claim_seat).
THEOREM SeatsOwned == HubSpec => []OneOwnerPerSeat
  BY HubSafety, HubPromises, PTL

\* No member is left behind without a socket, a timer or a releaser (Hub.leave,
\* _release_seat), but one who came by HTTP.
THEOREM NoGhosts == HubSpec => []NoGhostMember
  BY HubSafety, HubPromises, PTL

\* A connected player whose subscribe is through is at the table, but for a deleted
\* session or a releaser that looked too early.
THEOREM SeatsKept == HubSpec => []SeatLostOnlyToLateRelease
  BY HubSafety, HubPromises, PTL

\* The bot registry and the bots' seats agree (BotManager).
THEOREM BotsRegistered == HubSpec => []BotRegistryExact
  BY HubSafety, HubPromises, PTL

\* Seats, sockets, timers and bots hold what their types say.
THEOREM TableTypes == HubSpec => []HubTypeOK
<1>1. HubInv => HubTypeOK
  BY DEF HubInv
<1> QED
  BY <1>1, HubSafety, PTL

-----------------------------------------------------------------------------
(* How the page bets (client/game.js: placeBet, doRepeat; api.py).         *)

PageCall == [kind : {"none", "tap", "repeat", "guarded"},
             at : {"unused", "done", "sent", "history", "naming", "checked", "accepted", "refused"},
             named : 0..PageRounds, landed : 0..PageRounds, left : 0..3, turned : BOOLEAN]

PageTypes ==
  /\ pbNow \in [round : 1..PageRounds, open : BOOLEAN] /\ pbShown \in RoundShown
  /\ pbBusy \in {"no", "sending", "cooling"} /\ pbPlaced \in [1..PageRounds -> Nat]
  /\ pbMine \in [round : 0..PageRounds, bets : Nat, foreign : BOOLEAN]
  /\ pbCalls \in [PageCalls -> PageCall]

\* A tap is one bet; while it is under way betBusy is set, so that there is no other.
TapOut(c) == pbCalls[c].kind = "tap" /\ pbCalls[c].at \in {"sent", "accepted", "refused"}
TapsAlone ==
  \A c \in PageCalls :
    /\ pbCalls[c].kind = "tap" => TapOut(c) /\ pbCalls[c].left = 0
    /\ TapOut(c) => pbBusy = "sending" /\ \A d \in PageCalls : TapOut(d) => d = c

\* A round that was compared is still the round there is, or has turned since.
GuardHolds ==
  \A c \in PageCalls : pbCalls[c].kind = "guarded" =>
    /\ pbCalls[c].at \in {"naming", "checked", "accepted", "refused"} /\ pbCalls[c].left = 0
    /\ pbCalls[c].at = "naming" => pbCalls[c].landed = 0
    /\ pbCalls[c].at = "checked" => pbCalls[c].named = pbNow.round \/ pbCalls[c].turned
    /\ pbCalls[c].landed # 0 => pbCalls[c].landed = pbCalls[c].named \/ pbCalls[c].turned

\* What is shown as staked is covered, with room for the tap that is accepted and not yet shown.
Landed(c, round) == TapOut(c) /\ pbCalls[c].at = "accepted" /\ pbCalls[c].landed = round
StakesCovered ==
  /\ \A c \in PageCalls : TapOut(c) /\ pbCalls[c].at = "accepted" =>
       pbCalls[c].landed \in 1..PageRounds /\ pbPlaced[pbCalls[c].landed] >= 1
  /\ ~pbMine.foreign =>
       /\ pbMine.round = 0 => pbMine.bets = 0
       /\ pbMine.round # 0 => pbMine.bets <= pbPlaced[pbMine.round]
       /\ pbMine.round # 0 /\ (\E c \in PageCalls : Landed(c, pbMine.round)) =>
            pbMine.bets + 1 <= pbPlaced[pbMine.round]

PbInv == PageTypes /\ TapsAlone /\ GuardHolds /\ StakesCovered

LEMMA BetsBegin == PbInit => PbInv
<1> SUFFICES ASSUME PbInit PROVE PbInv
  OBVIOUS
<1>1. Unused \in PageCall /\ Unused.kind = "none" /\ Unused.at = "unused"
  BY PageAssumption DEF Unused, PbCall, PageCall
<1>2. \A c \in PageCalls : pbCalls[c] = Unused /\ ~TapOut(c)
  BY <1>1 DEF PbInit, TapOut
<1>3. PageTypes
  BY <1>1, PageAssumption DEF PbInit, PageTypes, RoundShown
<1> QED BY <1>1, <1>2, <1>3 DEF PbInit, PbInv, TapsAlone, GuardHolds, StakesCovered, Landed

LEMMA BetsStep == PbInv /\ [PbNext]_pbVars => PbInv'
<1> SUFFICES ASSUME PbInv, [PbNext]_pbVars PROVE PbInv'
  OBVIOUS
<1>t. /\ pbNow \in [round : 1..PageRounds, open : BOOLEAN] /\ pbShown \in RoundShown
      /\ pbBusy \in {"no", "sending", "cooling"} /\ pbPlaced \in [1..PageRounds -> Nat]
      /\ pbMine \in [round : 0..PageRounds, bets : Nat, foreign : BOOLEAN]
      /\ pbCalls \in [PageCalls -> PageCall]
  BY DEF PbInv, PageTypes
<1>a. PageRounds \in Nat \ {0}
  BY PageAssumption
<1>s. Spent \in PageCall /\ Spent.kind = "none" /\ Spent.at = "done" /\ Spent.left = 0 /\ Spent.landed = 0
      /\ Unused \in PageCall /\ Unused.kind = "none" /\ Unused.landed = 0 /\ Unused.left = 0
  <2>1. Spent = [kind |-> "none", at |-> "done", named |-> 0, landed |-> 0, left |-> 0, turned |-> FALSE]
    BY DEF Spent, PbCall
  <2>2. Unused = [kind |-> "none", at |-> "unused", named |-> 0, landed |-> 0, left |-> 0, turned |-> FALSE]
    BY DEF Unused, PbCall
  <2>3. 0 \in 0..PageRounds /\ 0 \in 0..3
    BY <1>a
  <2> QED BY <2>1, <2>2, <2>3 DEF PageCall
\* A step that touches one call, and neither the round there is nor the server's bets.
<1>c. ASSUME NEW c \in PageCalls, NEW e \in PageCall, pbCalls' = [pbCalls EXCEPT ![c] = e],
             UNCHANGED <<pbNow, pbPlaced>>,
             e.kind = "tap" => e.at \in {"sent", "accepted", "refused"} /\ e.left = 0 /\ pbBusy' = "sending",
             e.kind = "tap" => \A d \in PageCalls \ {c} : ~TapOut(d),
             pbBusy' = pbBusy \/ \A d \in PageCalls \ {c} : ~TapOut(d),
             e.kind = "tap" => e.at # "accepted",
             e.kind = "guarded" =>
               /\ e.at \in {"naming", "checked", "refused"} /\ e.left = 0
               /\ e.at = "naming" => e.landed = 0
               /\ e.at = "checked" => e.named = pbNow.round
               /\ e.landed # 0 => pbCalls[c].kind = "guarded" /\ e.landed = pbCalls[c].landed /\ e.named = pbCalls[c].named
                                  /\ e.turned = pbCalls[c].turned,
             pbBusy' \in {"no", "sending", "cooling"}
      PROVE  TapsAlone' /\ GuardHolds' /\ pbCalls' \in [PageCalls -> PageCall]
             /\ \A d \in PageCalls : (TapOut(d) /\ pbCalls[d].at = "accepted")' => d # c /\ TapOut(d) /\ pbCalls[d].at = "accepted" /\ pbCalls'[d] = pbCalls[d]
  <2>1. pbCalls'[c] = e /\ \A d \in PageCalls : d # c => pbCalls'[d] = pbCalls[d]
    BY <1>c, <1>t
  <2>2. pbCalls' \in [PageCalls -> PageCall]
    BY <1>c, <1>t
  <2>3. TapsAlone'
    BY <1>c, <2>1 DEF PbInv, TapsAlone, TapOut
  <2>4. GuardHolds'
    BY <1>c, <2>1 DEF PbInv, GuardHolds
  <2>5. \A d \in PageCalls : (TapOut(d) /\ pbCalls[d].at = "accepted")' => d # c /\ TapOut(d) /\ pbCalls[d].at = "accepted" /\ pbCalls'[d] = pbCalls[d]
    BY <1>c, <2>1 DEF TapOut
  <2> QED BY <2>2, <2>3, <2>4, <2>5
\* Nor does it disturb what is shown as staked.
<1>d. ASSUME NEW c \in PageCalls, UNCHANGED <<pbPlaced, pbMine>>,
             \A d \in PageCalls : (TapOut(d) /\ pbCalls[d].at = "accepted")' => d # c /\ TapOut(d) /\ pbCalls[d].at = "accepted" /\ pbCalls'[d] = pbCalls[d]
      PROVE  StakesCovered'
  BY <1>d DEF PbInv, StakesCovered, Landed
<1>1. ASSUME RoundTurns PROVE PbInv'
  <2>1. pbNow' \in [round : 1..PageRounds, open : BOOLEAN]
    <3>1. CASE pbNow' = [pbNow EXCEPT !.open = FALSE]
      BY <3>1, <1>t
    <3>2. CASE pbNow.round < PageRounds /\ pbNow' = [round |-> pbNow.round + 1, open |-> TRUE]
      BY <3>2, <1>t, <1>a
    <3> QED BY <3>1, <3>2, <1>1 DEF RoundTurns
  <2>2. \A c \in PageCalls :
          pbCalls'[c] \in PageCall /\ pbCalls'[c].kind = pbCalls[c].kind /\ pbCalls'[c].at = pbCalls[c].at
          /\ pbCalls'[c].named = pbCalls[c].named /\ pbCalls'[c].landed = pbCalls[c].landed /\ pbCalls'[c].left = pbCalls[c].left
          /\ pbCalls'[c].turned = (pbCalls[c].turned \/ pbCalls[c].at = "checked")
    <3> SUFFICES ASSUME NEW c \in PageCalls
                 PROVE  pbCalls'[c] \in PageCall /\ pbCalls'[c].kind = pbCalls[c].kind /\ pbCalls'[c].at = pbCalls[c].at
          /\ pbCalls'[c].named = pbCalls[c].named /\ pbCalls'[c].landed = pbCalls[c].landed /\ pbCalls'[c].left = pbCalls[c].left
          /\ pbCalls'[c].turned = (pbCalls[c].turned \/ pbCalls[c].at = "checked")
      OBVIOUS
    <3>1. pbCalls'[c] = [pbCalls[c] EXCEPT !.turned = pbCalls[c].turned \/ pbCalls[c].at = "checked"] /\ pbCalls[c] \in PageCall
      BY <1>1, <1>t DEF RoundTurns
    <3>2. (pbCalls[c].turned \/ pbCalls[c].at = "checked") \in BOOLEAN
      OBVIOUS
    <3> QED BY <3>1, <3>2 DEF PageCall
  <2>3. pbCalls' \in [PageCalls -> PageCall]
    BY <2>2, <1>1 DEF RoundTurns
  <2>4. UNCHANGED <<pbPlaced, pbShown, pbMine, pbBusy>>
    BY <1>1 DEF RoundTurns
  <2>5. PageTypes'
    BY <1>t, <2>1, <2>3, <2>4 DEF PageTypes
  <2>6. \A c \in PageCalls : TapOut(c)' <=> TapOut(c)
    BY <2>2 DEF TapOut
  <2>7. TapsAlone'
    BY <2>2, <2>4, <2>6 DEF PbInv, TapsAlone
  <2>8. GuardHolds'
    <3> SUFFICES ASSUME NEW c \in PageCalls, pbCalls'[c].kind = "guarded"
                 PROVE  /\ pbCalls'[c].at \in {"naming", "checked", "accepted", "refused"} /\ pbCalls'[c].left = 0
                        /\ pbCalls'[c].at = "naming" => pbCalls'[c].landed = 0
                        /\ pbCalls'[c].at = "checked" => pbCalls'[c].named = pbNow'.round \/ pbCalls'[c].turned
                        /\ pbCalls'[c].landed # 0 => pbCalls'[c].landed = pbCalls'[c].named \/ pbCalls'[c].turned
      BY DEF GuardHolds
    <3>1. /\ pbCalls[c].at \in {"naming", "checked", "accepted", "refused"} /\ pbCalls[c].left = 0
          /\ pbCalls[c].at = "naming" => pbCalls[c].landed = 0
          /\ pbCalls[c].landed # 0 => pbCalls[c].landed = pbCalls[c].named \/ pbCalls[c].turned
      BY <2>2 DEF PbInv, GuardHolds
    <3>2. /\ pbCalls'[c].at = pbCalls[c].at /\ pbCalls'[c].named = pbCalls[c].named /\ pbCalls'[c].landed = pbCalls[c].landed
          /\ pbCalls'[c].left = pbCalls[c].left
          /\ pbCalls'[c].turned = (pbCalls[c].turned \/ pbCalls[c].at = "checked")
      BY <2>2
    <3> QED BY <3>1, <3>2
  <2>9. StakesCovered'
    BY <2>2, <2>4, <2>6 DEF PbInv, StakesCovered, Landed
  <2> QED BY <2>5, <2>7, <2>8, <2>9 DEF PbInv
<1>2. ASSUME PageShows PROVE PbInv'
  <2>1. PICK view \in RoundShown : view.round \in 1..pbNow.round /\ pbShown' = view /\ pbMine' = BetsFor(view.round)
    BY <1>2 DEF PageShows
  <2>2. UNCHANGED <<pbNow, pbPlaced, pbBusy, pbCalls>>
    BY <1>2 DEF PageShows
  <2>3. \/ pbMine' = pbMine
        \/ pbMine' = [round |-> view.round, bets |-> 0, foreign |-> FALSE]
    BY <2>1 DEF BetsFor
  <2>4. view.round \in 1..PageRounds
    BY <2>1, <1>t, <1>a
  <2>5. PageTypes'
    <3>1. view.round \in 0..PageRounds /\ pbMine' \in [round : 0..PageRounds, bets : Nat, foreign : BOOLEAN]
      <4>1. view.round \in 0..PageRounds /\ 0 \in Nat /\ FALSE \in BOOLEAN
        BY <1>a, <2>4
      <4>2. [round |-> view.round, bets |-> 0, foreign |-> FALSE] \in [round : 0..PageRounds, bets : Nat, foreign : BOOLEAN]
        BY <4>1
      <4> QED BY <4>1, <4>2, <1>t, <2>3
    <3> QED BY <1>t, <2>1, <2>2, <3>1 DEF PageTypes
  <2>6. TapsAlone' /\ GuardHolds'
    BY <2>2 DEF PbInv, TapsAlone, GuardHolds, TapOut
  <2>7. StakesCovered'
    <3>1. CASE pbMine' = pbMine
      BY <3>1, <2>2 DEF PbInv, StakesCovered, Landed, TapOut
    <3>2. CASE pbMine' = [round |-> view.round, bets |-> 0, foreign |-> FALSE]
      <4>1. pbMine'.round = view.round /\ pbMine'.bets = 0 /\ pbPlaced[view.round] \in Nat
        BY <3>2, <2>4, <1>t
      <4> QED BY <4>1, <2>2, <2>4 DEF PbInv, StakesCovered, Landed, TapOut
    <3> QED BY <2>3, <3>1, <3>2
  <2> QED BY <2>5, <2>6, <2>7 DEF PbInv
<1>3. ASSUME Cooled PROVE PbInv'
  <2>1. UNCHANGED <<pbNow, pbPlaced, pbShown, pbMine, pbCalls>> /\ pbBusy' = "no" /\ pbBusy = "cooling"
    BY <1>3 DEF Cooled
  <2> QED BY <2>1, <1>t DEF PbInv, PageTypes, TapsAlone, GuardHolds, StakesCovered, Landed, TapOut
<1>4. ASSUME NEW c \in PageCalls, Taps(c) PROVE PbInv'
  <2> DEFINE e == PbCall("tap", "sent", pbShown.round)
  <2>1. /\ pbCalls[c] = Unused /\ pbCalls' = [pbCalls EXCEPT ![c] = e] /\ pbBusy = "no" /\ pbBusy' = "sending"
        /\ UNCHANGED <<pbNow, pbPlaced, pbShown, pbMine>>
    BY <1>4 DEF Taps, PbStarts
  <2>2. e \in PageCall /\ e.kind = "tap" /\ e.at = "sent" /\ e.left = 0
    <3>1. e = [kind |-> "tap", at |-> "sent", named |-> pbShown.round, landed |-> 0, left |-> 0, turned |-> FALSE]
      BY DEF Unused, PbCall
    <3>2. 0 \in 0..PageRounds /\ 0 \in 0..3 /\ pbShown.round \in 0..PageRounds
      BY <1>a, <1>t DEF RoundShown
    <3> HIDE DEF e
    <3> QED BY <3>1, <3>2 DEF PageCall
  <2>3. \A d \in PageCalls : ~TapOut(d)
    BY <2>1 DEF PbInv, TapsAlone
  <2> HIDE DEF e
  <2>4. TapsAlone' /\ GuardHolds' /\ pbCalls' \in [PageCalls -> PageCall] /\ StakesCovered'
    BY <2>1, <2>2, <2>3, <1>c, <1>d
  <2> QED BY <2>1, <2>4, <1>t DEF PbInv, PageTypes
<1>5. ASSUME NEW c \in PageCalls, Repeats(c) \/ NamesRound(c) PROVE PbInv'
  <2>1. \E kind \in {"repeat", "guarded"}, at \in {"history", "naming"}, round \in 0..PageRounds :
          /\ kind = "guarded" => at = "naming"
          /\ pbCalls' = [pbCalls EXCEPT ![c] = PbCall(kind, at, round)]
    <3>1. CASE Repeats(c)
      BY <3>1, <1>t DEF Repeats, PbStarts, RoundShown
    <3>2. CASE NamesRound(c)
      <4>1. PICK round \in 1..pbNow.round : PbStarts(c, "guarded", "naming", round)
        BY <3>2 DEF NamesRound
      <4>2. round \in 0..PageRounds
        BY <1>t, <1>a
      <4> QED BY <4>1, <4>2 DEF PbStarts
    <3> QED BY <1>5, <3>1, <3>2
  <2>2. PICK kind \in {"repeat", "guarded"}, at \in {"history", "naming"}, round \in 0..PageRounds :
          /\ kind = "guarded" => at = "naming"
          /\ pbCalls' = [pbCalls EXCEPT ![c] = PbCall(kind, at, round)]
    BY <2>1
  <2> DEFINE e == PbCall(kind, at, round)
  <2>3. e \in PageCall /\ e.kind = kind /\ e.at = at /\ e.left = 0 /\ e.landed = 0
    <3>1. e = [kind |-> kind, at |-> at, named |-> round, landed |-> 0, left |-> 0, turned |-> FALSE]
      BY DEF Unused, PbCall
    <3>2. 0 \in 0..PageRounds /\ 0 \in 0..3
      BY <1>a
    <3> HIDE DEF e
    <3> QED BY <3>1, <3>2, <2>2 DEF PageCall
  <2>4. UNCHANGED <<pbNow, pbPlaced, pbShown, pbMine, pbBusy>>
    BY <1>5 DEF Repeats, NamesRound
  <2>5. pbCalls' = [pbCalls EXCEPT ![c] = e]
    BY <2>2
  <2> HIDE DEF e
  <2>6. TapsAlone' /\ GuardHolds' /\ pbCalls' \in [PageCalls -> PageCall] /\ StakesCovered'
    BY ZenonT(60), <2>2, <2>3, <2>4, <2>5, <1>c, <1>d, <1>t
  <2> QED BY <2>4, <2>6, <1>t DEF PbInv, PageTypes
<1>6. ASSUME NEW c \in PageCalls, ReadsHistory(c) PROVE PbInv'
  <2>1. /\ pbCalls[c].at = "history" /\ UNCHANGED <<pbNow, pbPlaced, pbShown, pbMine, pbBusy>>
        /\ \/ pbCalls' = [pbCalls EXCEPT ![c] = Spent]
           \/ \E n \in 1..3 : pbCalls' = [pbCalls EXCEPT ![c] = [pbCalls[c] EXCEPT !.left = n, !.at = "sent"]]
    <3>1. pbPlaced[pbNow.round] \in Nat
      BY <1>t
    <3>2. pbPlaced[pbNow.round] # 0 => (IF pbPlaced[pbNow.round] < 3 THEN pbPlaced[pbNow.round] ELSE 3) \in 1..3
      BY <3>1
    <3>3. ASSUME NEW n, pbCalls' = [pbCalls EXCEPT ![c].left = n, ![c].at = "sent"]
          PROVE  pbCalls' = [pbCalls EXCEPT ![c] = [pbCalls[c] EXCEPT !.left = n, !.at = "sent"]]
      BY <3>3, <1>t DEF PageCall
    <3> DEFINE n == IF pbPlaced[pbNow.round] < 3 THEN pbPlaced[pbNow.round] ELSE 3
    <3>4. /\ pbCalls[c].at = "history" /\ UNCHANGED <<pbNow, pbPlaced, pbShown, pbMine, pbBusy>>
          /\ \/ pbCalls' = [pbCalls EXCEPT ![c] = Spent]
             \/ pbPlaced[pbNow.round] # 0 /\ pbCalls' = [pbCalls EXCEPT ![c].left = n, ![c].at = "sent"]
      BY <1>6 DEF ReadsHistory, PbEnds
    <3>5. pbPlaced[pbNow.round] # 0 => n \in 1..3
      BY <3>2
    <3> HIDE DEF n
    <3> QED BY <3>3, <3>4, <3>5
  <2>2. pbCalls[c].kind \notin {"tap", "guarded"}
    BY <2>1 DEF PbInv, TapsAlone, GuardHolds, TapOut
  <2>3. PICK e \in PageCall : e.kind \notin {"tap", "guarded"} /\ pbCalls' = [pbCalls EXCEPT ![c] = e]
    <3>1. ASSUME NEW n \in 1..3, pbCalls' = [pbCalls EXCEPT ![c] = [pbCalls[c] EXCEPT !.left = n, !.at = "sent"]]
          PROVE  \E e \in PageCall : e.kind \notin {"tap", "guarded"} /\ pbCalls' = [pbCalls EXCEPT ![c] = e]
      <4>1. [pbCalls[c] EXCEPT !.left = n, !.at = "sent"] \in PageCall
            /\ [pbCalls[c] EXCEPT !.left = n, !.at = "sent"].kind = pbCalls[c].kind
        <5>1. pbCalls[c] \in PageCall /\ n \in 0..3
          BY <1>t
        <5>2. [pbCalls[c] EXCEPT !.left = n] \in PageCall /\ [pbCalls[c] EXCEPT !.left = n].kind = pbCalls[c].kind
          BY <5>1 DEF PageCall
        <5> QED BY <5>1, <5>2 DEF PageCall
      <4> QED BY <3>1, <4>1, <2>2
    <3> QED BY <2>1, <3>1, <1>s
  <2>4. TapsAlone' /\ GuardHolds' /\ pbCalls' \in [PageCalls -> PageCall] /\ StakesCovered'
    BY <2>1, <2>3, <1>c, <1>d, <1>t
  <2> QED BY <2>1, <2>4, <1>t DEF PbInv, PageTypes
<1>7. ASSUME NEW c \in PageCalls, ChecksRound(c) PROVE PbInv'
  <2>1. pbCalls[c].at = "naming" /\ UNCHANGED <<pbNow, pbPlaced, pbShown, pbMine, pbBusy>> /\ pbCalls[c].kind # "tap"
    BY <1>7 DEF ChecksRound, PbInv, TapsAlone, TapOut
  <2>2. PICK e \in PageCall :
          /\ pbCalls' = [pbCalls EXCEPT ![c] = e] /\ e.kind # "tap"
          /\ e.kind = "guarded" => e.at = "checked" /\ e.named = pbNow.round /\ e.left = 0 /\ e.landed = 0
    <3>1. CASE pbCalls[c].named = pbNow.round /\ pbCalls' = [pbCalls EXCEPT ![c].at = "checked"]
      <4>1. pbCalls' = [pbCalls EXCEPT ![c] = [pbCalls[c] EXCEPT !.at = "checked"]]
        BY <3>1
      <4>2. [pbCalls[c] EXCEPT !.at = "checked"] \in PageCall
        BY ZenonT(60), <1>t DEF PageCall
      <4>3. pbCalls[c].kind = "guarded" => pbCalls[c].left = 0 /\ pbCalls[c].landed = 0
        BY <2>1 DEF PbInv, GuardHolds
      <4>4. /\ [pbCalls[c] EXCEPT !.at = "checked"].kind = pbCalls[c].kind
            /\ [pbCalls[c] EXCEPT !.at = "checked"].at = "checked"
            /\ [pbCalls[c] EXCEPT !.at = "checked"].named = pbCalls[c].named
            /\ [pbCalls[c] EXCEPT !.at = "checked"].left = pbCalls[c].left
            /\ [pbCalls[c] EXCEPT !.at = "checked"].landed = pbCalls[c].landed
        BY <1>t DEF PageCall
      <4> QED BY ZenonT(60), <4>1, <4>2, <4>3, <4>4, <2>1, <3>1
    <3>2. CASE pbCalls' = [pbCalls EXCEPT ![c] = Spent]
      BY <3>2, <1>s
    <3> QED BY <1>7, <3>1, <3>2 DEF ChecksRound, PbGo, PbEnds
  <2>3. TapsAlone' /\ GuardHolds' /\ pbCalls' \in [PageCalls -> PageCall] /\ StakesCovered'
    BY <2>1, <2>2, <1>c, <1>d, <1>t
  <2> QED BY <2>1, <2>3, <1>t DEF PbInv, PageTypes
<1>8. ASSUME NEW c \in PageCalls, ServerBets(c) PROVE PbInv'
  <2>0. pbCalls[c].at \in {"sent", "checked"} /\ UNCHANGED <<pbNow, pbShown, pbMine, pbBusy>> /\ pbCalls[c] \in PageCall
    BY <1>8, <1>t DEF ServerBets
  <2>1. CASE ~pbNow.open
    <3> DEFINE e == [pbCalls[c] EXCEPT !.at = "refused"]
    <3>1. pbCalls' = [pbCalls EXCEPT ![c] = e] /\ UNCHANGED pbPlaced
      BY <1>8, <2>1 DEF ServerBets, PbGo
    <3>2. /\ e \in PageCall /\ e.at = "refused" /\ e.kind = pbCalls[c].kind /\ e.named = pbCalls[c].named
          /\ e.landed = pbCalls[c].landed /\ e.left = pbCalls[c].left /\ e.turned = pbCalls[c].turned
      BY <2>0 DEF PageCall
    <3>3. e.kind = "tap" => e.left = 0 /\ pbBusy' = "sending" /\ \A d \in PageCalls \ {c} : ~TapOut(d)
      BY <2>0, <3>2 DEF PbInv, TapsAlone, TapOut
    <3>4. e.kind = "guarded" => e.left = 0
      BY <3>2 DEF PbInv, GuardHolds
    <3> HIDE DEF e
    <3>5. TapsAlone' /\ GuardHolds' /\ pbCalls' \in [PageCalls -> PageCall] /\ StakesCovered'
      BY <2>0, <3>1, <3>2, <3>3, <3>4, <1>c, <1>d, <1>t
    <3> QED BY <2>0, <3>1, <3>5, <1>t DEF PbInv, PageTypes
  <2>2. CASE pbNow.open
    <3> DEFINE e == [pbCalls[c] EXCEPT !.at = "accepted", !.landed = pbNow.round]
    <3>1. pbCalls' = [pbCalls EXCEPT ![c] = e] /\ pbPlaced' = [pbPlaced EXCEPT ![pbNow.round] = @ + 1]
      BY <1>8, <2>2, <1>t DEF ServerBets, PageCall
    <3>2. /\ e \in PageCall /\ e.at = "accepted" /\ e.kind = pbCalls[c].kind /\ e.named = pbCalls[c].named
          /\ e.landed = pbNow.round /\ e.left = pbCalls[c].left /\ e.turned = pbCalls[c].turned
      <4>1. pbNow.round \in 0..PageRounds
        BY <1>t, <1>a
      <4>2. e = [kind |-> pbCalls[c].kind, at |-> "accepted", named |-> pbCalls[c].named, landed |-> pbNow.round,
                 left |-> pbCalls[c].left, turned |-> pbCalls[c].turned]
        <5>1. [pbCalls[c] EXCEPT !.at = "accepted"] =
                [kind |-> pbCalls[c].kind, at |-> "accepted", named |-> pbCalls[c].named, landed |-> pbCalls[c].landed,
                 left |-> pbCalls[c].left, turned |-> pbCalls[c].turned]
          BY <2>0 DEF PageCall
        <5>2. e = [[pbCalls[c] EXCEPT !.at = "accepted"] EXCEPT !.landed = pbNow.round]
          OBVIOUS
        <5> HIDE DEF e
        <5> QED BY <5>1, <5>2
      <4> HIDE DEF e
      <4> QED BY <4>1, <4>2, <2>0 DEF PageCall
    <3>3. pbCalls'[c] = e /\ \A d \in PageCalls : d # c => pbCalls'[d] = pbCalls[d]
      BY <3>1, <1>t
    <3>4. pbNow.round \in 1..PageRounds /\ pbPlaced' \in [1..PageRounds -> Nat]
          /\ pbPlaced'[pbNow.round] = pbPlaced[pbNow.round] + 1
          /\ \A r \in 1..PageRounds : pbPlaced'[r] >= pbPlaced[r] /\ pbPlaced[r] \in Nat /\ pbPlaced'[r] \in Nat
      BY <3>1, <1>t
    <3>5. pbCalls' \in [PageCalls -> PageCall]
      BY <3>1, <3>2, <1>t
    <3> HIDE DEF e
    <3>6. TapsAlone'
      BY <2>0, <3>2, <3>3 DEF PbInv, TapsAlone, TapOut
    <3>7. GuardHolds'
      BY <2>0, <3>2, <3>3 DEF PbInv, GuardHolds
    <3>8. StakesCovered'
      <4>1. \A d \in PageCalls : (TapOut(d) /\ pbCalls[d].at = "accepted")' =>
              pbCalls'[d].landed \in 1..PageRounds /\ pbPlaced'[pbCalls'[d].landed] >= 1
        <5> SUFFICES ASSUME NEW d \in PageCalls, (TapOut(d) /\ pbCalls[d].at = "accepted")'
                     PROVE  pbCalls'[d].landed \in 1..PageRounds /\ pbPlaced'[pbCalls'[d].landed] >= 1
          OBVIOUS
        <5>1. CASE d = c
          BY <5>1, <3>2, <3>3, <3>4
        <5>2. CASE d # c
          <6>1. pbCalls[d].landed \in 1..PageRounds /\ pbPlaced[pbCalls[d].landed] >= 1
            BY <5>2, <3>3 DEF PbInv, StakesCovered, TapOut
          <6> QED BY <6>1, <5>2, <3>3, <3>4
        <5> QED BY <5>1, <5>2
      <4>2. ASSUME ~pbMine'.foreign, pbMine'.round # 0 PROVE pbMine'.bets <= pbPlaced'[pbMine'.round]
        <5>1. pbMine.bets <= pbPlaced[pbMine.round] /\ pbMine.round \in 1..PageRounds /\ pbMine.bets \in Nat
          BY <4>2, <2>0, <1>t, <1>a DEF PbInv, StakesCovered
        <5> QED BY <5>1, <3>4, <2>0
      <4>3. ASSUME ~pbMine'.foreign, pbMine'.round # 0, NEW d \in PageCalls, Landed(d, pbMine.round)'
            PROVE  pbMine'.bets + 1 <= pbPlaced'[pbMine'.round]
        <5>0. pbMine.round \in 1..PageRounds /\ pbMine.bets \in Nat /\ pbMine' = pbMine
          BY <4>3, <2>0, <1>t, <1>a
        <5>1. CASE d = c
          <6>1. pbMine.round = pbNow.round
            BY <5>1, <4>3, <5>0, <3>2, <3>3 DEF Landed
          <6>2. pbMine.bets <= pbPlaced[pbMine.round]
            BY <4>3, <5>0 DEF PbInv, StakesCovered
          <6> QED BY <6>1, <6>2, <3>4, <5>0
        <5>2. CASE d # c
          <6>1. Landed(d, pbMine.round)
            BY <5>2, <4>3, <5>0, <3>3 DEF Landed, TapOut
          <6>2. pbMine.bets + 1 <= pbPlaced[pbMine.round]
            BY <6>1, <4>3, <5>0 DEF PbInv, StakesCovered
          <6> QED BY <6>2, <3>4, <5>0
        <5> QED BY <5>1, <5>2
      <4>4. ~pbMine'.foreign /\ pbMine'.round = 0 => pbMine'.bets = 0
        BY <2>0 DEF PbInv, StakesCovered
      <4> QED BY <4>1, <4>2, <4>3, <4>4 DEF StakesCovered
    <3> QED BY <2>0, <3>4, <3>5, <3>6, <3>7, <3>8, <1>t DEF PbInv, PageTypes
  <2> QED BY <2>1, <2>2
<1>9. ASSUME NEW c \in PageCalls, AnswerRefuses(c) \/ NetworkFails(c) PROVE PbInv'
  <2>1. /\ pbCalls' = [pbCalls EXCEPT ![c] = Spent] /\ UNCHANGED <<pbNow, pbPlaced, pbShown, pbMine>>
        /\ pbBusy' = IF pbCalls[c].kind = "tap" THEN "cooling" ELSE pbBusy
    BY <1>9 DEF AnswerRefuses, NetworkFails, PbEnds, Cooling
  <2>2. pbBusy' = pbBusy \/ \A d \in PageCalls \ {c} : ~TapOut(d)
    BY <2>1 DEF PbInv, TapsAlone
  <2>3. TapsAlone' /\ GuardHolds' /\ pbCalls' \in [PageCalls -> PageCall] /\ StakesCovered'
    BY <2>1, <2>2, <1>s, <1>c, <1>d, <1>t
  <2> QED BY <2>1, <2>3, <1>t DEF PbInv, PageTypes
<1>10. ASSUME NEW c \in PageCalls, AnswerAccepts(c) PROVE PbInv'
  <2>0. /\ pbCalls[c].at = "accepted" /\ pbCalls[c] \in PageCall /\ UNCHANGED <<pbNow, pbPlaced, pbShown>>
        /\ pbBusy' = IF pbCalls[c].kind = "tap" THEN "cooling" ELSE pbBusy
    BY <1>10, <1>t DEF AnswerAccepts, Cooling
  <2>1. pbCalls[c].left > 1 => pbCalls[c].kind \notin {"tap", "guarded"}
    BY DEF PbInv, TapsAlone, GuardHolds
  <2>2. PICK e \in PageCall : e.kind \notin {"tap", "guarded"} /\ pbCalls' = [pbCalls EXCEPT ![c] = e]
    <3>1. CASE pbCalls[c].left > 1
      <4>1. pbCalls[c].left - 1 \in 0..3
        BY <2>0, <3>1 DEF PageCall
      <4>2. pbCalls' = [pbCalls EXCEPT ![c] = [pbCalls[c] EXCEPT !.left = pbCalls[c].left - 1, !.at = "sent"]]
        BY <1>10, <3>1, <1>t DEF AnswerAccepts, PageCall
      <4>3. [pbCalls[c] EXCEPT !.left = pbCalls[c].left - 1, !.at = "sent"] \in PageCall
            /\ [pbCalls[c] EXCEPT !.left = pbCalls[c].left - 1, !.at = "sent"].kind = pbCalls[c].kind
        BY <4>1, <2>0 DEF PageCall
      <4> QED BY <4>2, <4>3, <3>1, <2>1
    <3>2. CASE ~(pbCalls[c].left > 1)
      BY <1>10, <3>2, <1>s DEF AnswerAccepts, PbEnds
    <3> QED BY <3>1, <3>2
  <2>3. pbBusy' = pbBusy \/ \A d \in PageCalls \ {c} : ~TapOut(d)
    BY <2>0 DEF PbInv, TapsAlone
  <2>4. /\ TapsAlone' /\ GuardHolds' /\ pbCalls' \in [PageCalls -> PageCall]
        /\ \A d \in PageCalls : (TapOut(d) /\ pbCalls[d].at = "accepted")' => d # c /\ TapOut(d) /\ pbCalls[d].at = "accepted" /\ pbCalls'[d] = pbCalls[d]
    BY <2>0, <2>2, <2>3, <1>c, <1>t
  <2>5. CASE pbCalls[c].kind # "tap"
    <3>1. UNCHANGED pbMine
      BY <1>10, <2>5 DEF AnswerAccepts
    <3>2. StakesCovered'
      BY <3>1, <2>0, <2>4, <1>d
    <3> QED BY <2>0, <2>4, <2>5, <3>1, <3>2, <1>t DEF PbInv, PageTypes
  <2>6. CASE pbCalls[c].kind = "tap"
    <3>1. /\ pbMine'.round = pbMine.round /\ pbMine'.bets = pbMine.bets + 1
          /\ pbMine'.foreign = (pbMine.foreign \/ pbMine.round # pbCalls[c].landed)
          /\ pbMine' \in [round : 0..PageRounds, bets : Nat, foreign : BOOLEAN]
      <4>1. pbMine' = [pbMine EXCEPT !.bets = @ + 1, !.foreign = @ \/ pbMine.round # pbCalls[c].landed]
        BY <1>10, <2>6 DEF AnswerAccepts
      <4>2. pbMine.bets + 1 \in Nat /\ (pbMine.foreign \/ pbMine.round # pbCalls[c].landed) \in BOOLEAN
        BY <1>t
      <4> QED BY <4>1, <4>2, <1>t
    <3>2. TapOut(c) /\ \A d \in PageCalls : TapOut(d) => d = c
      BY <2>0, <2>6 DEF PbInv, TapsAlone, TapOut
    <3>3. \A d \in PageCalls : ~(TapOut(d) /\ pbCalls[d].at = "accepted")'
      BY <2>4, <3>2
    <3>4. pbCalls[c].landed \in 1..PageRounds
      BY <2>0, <3>2 DEF PbInv, StakesCovered
    <3>5. ASSUME ~pbMine'.foreign PROVE pbMine'.round # 0 /\ pbMine'.bets <= pbPlaced'[pbMine'.round]
      <4>1. ~pbMine.foreign /\ pbMine.round = pbCalls[c].landed
        BY <3>1, <3>5
      <4>2. Landed(c, pbMine.round) /\ pbMine.round # 0
        BY <4>1, <3>2, <3>4, <2>0 DEF Landed
      <4>3. pbMine.bets + 1 <= pbPlaced[pbMine.round]
        BY <4>1, <4>2 DEF PbInv, StakesCovered
      <4> QED BY <4>2, <4>3, <3>1, <2>0
    <3>6. StakesCovered'
      BY <3>3, <3>5 DEF StakesCovered, Landed
    <3>7. pbBusy' \in {"no", "sending", "cooling"}
      BY <2>0, <2>6
    <3> QED BY <2>0, <2>4, <3>1, <3>6, <3>7, <1>t DEF PbInv, PageTypes
  <2> QED BY <2>5, <2>6
<1>11. CASE UNCHANGED pbVars
  BY <1>11 DEF pbVars, PbInv, PageTypes, TapsAlone, GuardHolds, StakesCovered, Landed, TapOut
<1> QED BY <1>1, <1>2, <1>3, <1>4, <1>5, <1>6, <1>7, <1>8, <1>9, <1>10, <1>11 DEF PbNext

LEMMA BetsKeep == PbInv => PageBetsSound /\ PbTypeOK
<1> SUFFICES ASSUME PbInv PROVE PageBetsSound /\ PbTypeOK
  OBVIOUS
<1>1. MyBetsBacked
  BY DEF PbInv, StakesCovered, MyBetsBacked
<1>2. TapsOneAtATime
  <2>1. CASE UnderWay({"tap"}) = {}
    BY <2>1, FS_EmptySet DEF TapsOneAtATime
  <2>2. ASSUME NEW c \in UnderWay({"tap"}) PROVE TapsOneAtATime
    <3>1. UnderWay({"tap"}) = {c}
      BY DEF UnderWay, PbInv, TapsAlone, TapOut
    <3>2. Cardinality({c}) = 1
      BY FS_Singleton
    <3> QED BY <3>1, <3>2 DEF TapsOneAtATime
  <2> QED BY <2>1, <2>2
<1>3. NamedRoundBets
  BY DEF PbInv, GuardHolds, NamedRoundBets
<1>4. PbTypeOK
  <2>1. pbNow \in RoundShown
    BY PageAssumption DEF PbInv, PageTypes, RoundShown
  <2> QED BY <2>1 DEF PbInv, PageTypes, PbTypeOK, PageCall
<1> QED BY <1>1, <1>2, <1>3, <1>4 DEF PageBetsSound

-----------------------------------------------------------------------------
(* What the page shows (client/game.js: refresh, connect).                 *)

\* A view the server has been at; of one that hides the winners it is known why.
Reached(view) == view \in FirstView..gcNow /\ (ViewVersion(view) = 2 => RoundOf(view) \in gcParked)
Held(view) == view = NoView \/ Reached(view)

ViewTypes ==
  /\ gcNow \in FirstView..LastView /\ Reached(gcNow) /\ Held(gcSnap)
  /\ gcParked \subseteq ViewRounds /\ gcSlipped \subseteq ViewRounds
  /\ gcRound \in {0} \cup ViewRounds /\ gcLastSv \in NoView..3
  /\ gcCall \in [Refreshes -> [at : {"free", "asked", "answered", "resetting"},
                               prev : {0} \cup ViewRounds, got : NoView..LastView]]
  /\ gcSocket \in {"open", "closed"}
  /\ gcWire = <<>> \/ \E msg \in [kind : {"snapshot", "event"}, view : NoView..LastView] : gcWire = <<msg>>
  /\ gcInOrder \in BOOLEAN /\ gcShown \in [ViewRounds -> Nat]

Arrivals ==
  /\ \A r \in Refreshes :
       /\ gcCall[r].at \in {"answered", "resetting"} => Reached(gcCall[r].got)
       /\ gcCall[r].at = "resetting" => gcSnap # NoView
  /\ gcWire # <<>> /\ Head(gcWire).kind = "snapshot" => Reached(Head(gcWire).view)

\* A win is remembered from when it is celebrated until the page is past its round.
Remembered(round) ==
  \/ RoundOf(gcSnap) > round
  \/ RoundOf(gcSnap) = round /\ HasWinners(gcSnap) /\ gcLastWin = <<round, TRUE>>
WinsRemembered ==
  gcInOrder => \A round \in ViewRounds \ (gcParked \cup gcSlipped) :
    gcShown[round] <= 1 /\ (gcShown[round] = 1 => Remembered(round))

GcInv == ViewTypes /\ Arrivals /\ WinsRemembered

\* A view is of one round at one version, and later views are of later ones.
LEMMA ViewOrder ==
  /\ \A v \in Nat : RoundOf(v) \in Nat \ {0} /\ ViewVersion(v) \in 0..3 /\ v = 4 * (RoundOf(v) - 1) + ViewVersion(v)
  /\ RoundOf(NoView) = 0
<1>1. ASSUME NEW v \in Nat PROVE RoundOf(v) \in Nat \ {0} /\ ViewVersion(v) \in 0..3 /\ v = 4 * (RoundOf(v) - 1) + ViewVersion(v)
  <2>1. v # NoView
    BY DEF NoView
  <2>2. v \div 4 \in Nat /\ (v % 4) \in 0..3 /\ v = 4 * (v \div 4) + (v % 4)
    OBVIOUS
  <2> QED BY <2>1, <2>2 DEF RoundOf, ViewVersion
<1> QED BY <1>1 DEF RoundOf

LEMMA LaterView ==
  ASSUME NEW v \in Nat, NEW w \in Nat, v <= w
  PROVE  RoundOf(v) <= RoundOf(w) /\ (RoundOf(v) = RoundOf(w) => ViewVersion(v) <= ViewVersion(w))
<1>1. ASSUME NEW a \in Nat, NEW b \in Nat, NEW i \in 0..3, NEW j \in 0..3, v = 4 * (a - 1) + i, w = 4 * (b - 1) + j
      PROVE  a <= b /\ (a = b => i <= j)
  BY <1>1
<1>2. /\ RoundOf(v) \in Nat /\ ViewVersion(v) \in 0..3 /\ v = 4 * (RoundOf(v) - 1) + ViewVersion(v)
      /\ RoundOf(w) \in Nat /\ ViewVersion(w) \in 0..3 /\ w = 4 * (RoundOf(w) - 1) + ViewVersion(w)
  BY ViewOrder
<1> QED BY <1>1, <1>2

LEMMA ViewReached ==
  ASSUME ViewTypes, NEW view, Reached(view)
  PROVE  view \in Nat /\ view \in FirstView..LastView /\ view \in NoView..LastView /\ RoundOf(view) \in ViewRounds
         /\ ViewVersion(view) \in 0..3 /\ view # NoView
<1>1. FirstView \in Nat /\ LastView \in Nat /\ gcNow \in FirstView..LastView /\ view \in FirstView..gcNow
  BY ClientAssumption DEF ViewTypes, Reached
<1>2. view \in Nat /\ view \in FirstView..LastView /\ view \in NoView..LastView /\ view # NoView /\ view <= LastView
  BY <1>1 DEF NoView
<1>3. RoundOf(view) \in Nat \ {0} /\ ViewVersion(view) \in 0..3 /\ RoundOf(LastView) \in Nat
  BY <1>1, <1>2, ViewOrder
<1>4. RoundOf(view) <= RoundOf(LastView)
  BY <1>1, <1>2, LaterView
<1> QED BY <1>2, <1>3, <1>4 DEF ViewRounds

LEMMA ViewsBegin == GcInit => GcInv
<1> SUFFICES ASSUME GcInit PROVE GcInv
  OBVIOUS
<1>1. FirstView \in Nat /\ LastView \in Nat /\ FirstView <= LastView
  BY ClientAssumption
<1>2. RoundOf(FirstView) \in ViewRounds /\ ViewVersion(FirstView) \in 0..3
  <2>1. RoundOf(FirstView) <= RoundOf(LastView) /\ RoundOf(FirstView) \in Nat \ {0} /\ RoundOf(LastView) \in Nat
    BY <1>1, ViewOrder, LaterView
  <2> QED BY <2>1, <1>1, ViewOrder DEF ViewRounds
<1>3. Reached(gcNow) /\ gcNow \in FirstView..LastView /\ gcParked \subseteq ViewRounds
  BY <1>1, <1>2 DEF GcInit, Reached
<1>4. \A r \in Refreshes : gcCall[r] = [at |-> "free", prev |-> 0, got |-> NoView]
  BY DEF GcInit, FreeCall
<1>5. gcCall \in [Refreshes -> [at : {"free", "asked", "answered", "resetting"}, prev : {0} \cup ViewRounds, got : NoView..LastView]]
  <2>1. NoView \in NoView..LastView
    BY <1>1 DEF NoView
  <2>2. [at |-> "free", prev |-> 0, got |-> NoView] \in
          [at : {"free", "asked", "answered", "resetting"}, prev : {0} \cup ViewRounds, got : NoView..LastView]
    BY <2>1
  <2> QED BY <2>2 DEF GcInit, FreeCall
<1>6. gcShown \in [ViewRounds -> Nat] /\ \A r \in ViewRounds : gcShown[r] = 0
  BY DEF GcInit
<1>7. gcLastSv \in NoView..3
  BY DEF GcInit, NoView
<1>8. ViewTypes
  BY <1>3, <1>5, <1>6, <1>7 DEF GcInit, ViewTypes, Held
<1>9. Arrivals
  BY <1>4 DEF GcInit, Arrivals
<1>10. WinsRemembered
  BY <1>6 DEF WinsRemembered
<1> QED BY <1>8, <1>9, <1>10 DEF GcInv

\* As long as the snapshots come in order, what is remembered stays so under a later one.
LEMMA LaterSnapshot ==
  ASSUME GcInv, NEW view, Reached(view), gcSnap <= view, NEW round \in ViewRounds \ gcParked, Remembered(round)
  PROVE  RoundOf(view) > round \/ (RoundOf(view) = round /\ HasWinners(view) /\ RoundOf(gcSnap) = round /\ gcLastWin = <<round, TRUE>>)
<1>1. view \in Nat /\ ViewVersion(view) \in 0..3 /\ round \in Nat \ {0}
  BY ViewReached DEF GcInv, ViewRounds
<1>2. gcSnap # NoView /\ Reached(gcSnap) /\ gcSnap \in Nat
  <2>1. gcSnap # NoView
    <3> SUFFICES ASSUME gcSnap = NoView PROVE FALSE
      OBVIOUS
    <3>1. RoundOf(gcSnap) = 0
      BY ViewOrder
    <3>2. RoundOf(gcSnap) > round \/ RoundOf(gcSnap) = round
      BY DEF Remembered
    <3> QED BY <3>1, <3>2, <1>1
  <2> QED BY <2>1, ViewReached DEF GcInv, ViewTypes, Held
<1>3. RoundOf(gcSnap) <= RoundOf(view) /\ (RoundOf(gcSnap) = RoundOf(view) => ViewVersion(gcSnap) <= ViewVersion(view))
      /\ RoundOf(gcSnap) \in Nat /\ RoundOf(view) \in Nat /\ ViewVersion(gcSnap) \in 0..3
  BY <1>1, <1>2, LaterView, ViewOrder
<1>4. CASE RoundOf(gcSnap) > round
  <2>1. RoundOf(view) > round
    BY <1>1, <1>3, <1>4
  <2> QED BY <2>1
<1>5. CASE RoundOf(gcSnap) = round /\ HasWinners(gcSnap) /\ gcLastWin = <<round, TRUE>>
  <2>1. CASE RoundOf(view) = round
    <3>1. ViewVersion(view) \in {1, 2, 3}
      BY <2>1, <1>1, <1>3, <1>5 DEF HasWinners
    <3>2. ViewVersion(view) # 2
      BY <2>1 DEF Reached
    <3> QED BY <2>1, <3>1, <3>2, <1>5 DEF HasWinners
  <2>2. CASE RoundOf(view) # round
    BY <2>2, <1>1, <1>3, <1>5
  <2> QED BY <2>1, <2>2
<1> QED BY <1>4, <1>5 DEF Remembered

\* The rest of a refresh: it celebrates at most once, and remembers the key.
LEMMA ShowsOnce ==
  ASSUME GcInv, NEW r \in Refreshes, NEW view, NEW key, Reached(view), gcSnap' = view,
         Shows(r, view, key), gcParked' = gcParked, gcSlipped \subseteq gcSlipped',
         gcInOrder' => gcInOrder /\ gcSnap <= view,
         key = WinKey(view) \/ RoundOf(view) \in gcSlipped'
  PROVE  WinsRemembered'
<1>0. RoundOf(view) \in ViewRounds /\ gcShown \in [ViewRounds -> Nat] /\ ViewRounds \subseteq Nat
  BY ViewReached DEF GcInv, ViewTypes, ViewRounds
<1>1. gcLastWin' = key /\ gcSnap' = view /\ gcShown' \in [ViewRounds -> Nat]
      /\ \A round \in ViewRounds : round # RoundOf(view) => gcShown'[round] = gcShown[round]
  <2>1. gcLastWin' = key /\ gcSnap' = view
    BY DEF Shows
  <2>2. gcShown' = [gcShown EXCEPT ![RoundOf(view)] = @ + 1] \/ gcShown' = gcShown
    BY DEF Shows
  <2> QED BY <2>1, <2>2, <1>0
<1>2. gcShown'[RoundOf(view)] = gcShown[RoundOf(view)]
      \/ (gcShown'[RoundOf(view)] = gcShown[RoundOf(view)] + 1 /\ key # gcLastWin /\ HasWinners(view))
  BY <1>0 DEF Shows, Celebrates
<1> SUFFICES ASSUME gcInOrder', NEW round \in ViewRounds, round \notin gcParked, round \notin gcSlipped'
             PROVE  gcShown'[round] <= 1 /\ (gcShown'[round] = 1 => Remembered(round)')
  BY DEF WinsRemembered, GcInv
<1>3. gcShown[round] \in Nat /\ gcShown[round] <= 1 /\ (gcShown[round] = 1 => Remembered(round)) /\ gcSnap <= view
  BY <1>0 DEF GcInv, WinsRemembered
<1>4. gcShown[round] = 1 => RoundOf(view) > round \/ (RoundOf(view) = round /\ HasWinners(view) /\ RoundOf(gcSnap) = round /\ gcLastWin = <<round, TRUE>>)
  BY <1>3, LaterSnapshot
<1>5. CASE round = RoundOf(view)
  <2>1. key = <<round, HasWinners(view)>>
    BY <1>5 DEF WinKey
  <2>2. gcShown[round] = 1 => gcLastWin = <<round, TRUE>> /\ HasWinners(view)
    <3>1. ~(RoundOf(view) > round)
      BY <1>0, <1>5
    <3> QED BY <3>1, <1>4
  <2>3. HasWinners(view) \in BOOLEAN
    BY DEF HasWinners
  <2>4. gcShown[round] = 1 => gcShown'[round] = 1
    BY <1>2, <1>5, <2>1, <2>2, <2>3
  <2>5. gcShown[round] \in {0, 1} /\ gcShown'[round] \in {0, 1}
    BY <1>2, <1>3, <1>5, <2>4
  <2>6. gcShown'[round] = 1 => HasWinners(view)
    BY <1>2, <1>5, <2>2, <2>5
  <2>7. gcShown'[round] = 1 => gcLastWin' = <<round, TRUE>>
    <3>1. HasWinners(view) => key = <<round, TRUE>>
      BY <2>1, <2>3
    <3> QED BY <1>1, <2>6, <3>1
  <2>8. gcShown'[round] <= 1
    BY <2>5
  <2> QED BY <1>1, <1>5, <2>6, <2>7, <2>8 DEF Remembered
<1>6. CASE round # RoundOf(view)
  BY <1>1, <1>3, <1>4, <1>6 DEF Remembered
<1> QED BY <1>5, <1>6

LEMMA ViewsStep == GcInv /\ [GcNext]_gcVars => GcInv'
<1> SUFFICES ASSUME GcInv, [GcNext]_gcVars PROVE GcInv'
  OBVIOUS
<1> DEFINE Calls == [at : {"free", "asked", "answered", "resetting"}, prev : {0} \cup ViewRounds, got : NoView..LastView]
           Msgs == [kind : {"snapshot", "event"}, view : NoView..LastView]
<1>t. /\ gcNow \in FirstView..LastView /\ Reached(gcNow) /\ Held(gcSnap)
      /\ gcParked \subseteq ViewRounds /\ gcSlipped \subseteq ViewRounds
      /\ gcRound \in {0} \cup ViewRounds /\ gcLastSv \in NoView..3 /\ gcCall \in [Refreshes -> Calls]
      /\ gcSocket \in {"open", "closed"} /\ (gcWire = <<>> \/ \E msg \in Msgs : gcWire = <<msg>>)
      /\ gcInOrder \in BOOLEAN /\ gcShown \in [ViewRounds -> Nat]
  BY DEF GcInv, ViewTypes
<1>a. FirstView \in Nat /\ LastView \in Nat /\ NoView \in NoView..LastView /\ gcNow \in Nat
  BY <1>t, ClientAssumption DEF NoView
<1>s. gcSnap \in NoView..LastView /\ RoundOf(gcSnap) \in {0} \cup ViewRounds
  BY <1>a, <1>t, ViewOrder, ViewReached DEF GcInv, Held
<1>f. FreeCall \in Calls /\ FreeCall.at = "free"
  BY <1>a DEF FreeCall
<1> HIDE DEF Calls, Msgs
\* What a refresh asked for is free of claims until it is answered.
<1>k. ASSUME Asks \/ UNCHANGED gcCall
      PROVE  gcCall' \in [Refreshes -> Calls] /\ \A r \in Refreshes :
               gcCall'[r].at \in {"answered", "resetting"} => gcCall'[r] = gcCall[r]
  <2>1. CASE UNCHANGED gcCall
    BY <2>1, <1>t
  <2>2. ASSUME NEW r \in Refreshes, gcCall' = [gcCall EXCEPT ![r] = [at |-> "asked", prev |-> RoundOf(gcSnap), got |-> NoView]]
        PROVE gcCall' \in [Refreshes -> Calls] /\ \A q \in Refreshes :
               gcCall'[q].at \in {"answered", "resetting"} => gcCall'[q] = gcCall[q]
    <3>1. [at |-> "asked", prev |-> RoundOf(gcSnap), got |-> NoView] \in Calls
      BY <1>a, <1>s DEF Calls
    <3> QED BY <2>2, <3>1, <1>t
  <2> QED BY <1>k, <2>1, <2>2 DEF Asks
\* Where the page and the server stay as they are.
<1>p. ASSUME UNCHANGED <<gcNow, gcParked>>, UNCHANGED gcPage, UNCHANGED gcLink, gcCall' \in [Refreshes -> Calls],
             \A r \in Refreshes : /\ gcCall'[r].at \in {"answered", "resetting"} => Reached(gcCall'[r].got)
                                  /\ gcCall'[r].at = "resetting" => gcCall'[r] = gcCall[r]
      PROVE  GcInv'
  BY ZenonT(60), <1>p DEF GcInv, ViewTypes, Arrivals, WinsRemembered, Remembered, Reached, Held, gcPage, gcLink, Calls
<1>1. ASSUME ServerMoves PROVE GcInv'
  <2>1. gcNow' \in FirstView..LastView /\ gcNow' >= gcNow /\ gcNow' \in Nat
        /\ (gcNow' = gcNow + 1 \/ (ViewVersion(gcNow) = 1 /\ gcNow' = gcNow + 2))
    BY <1>1, <1>a, <1>t DEF ServerMoves
  <2>2. ViewVersion(gcNow') = 2 => RoundOf(gcNow') = RoundOf(gcNow)
    <3>1. ASSUME NEW a \in Nat, NEW b \in Nat, NEW i \in 0..3, gcNow = 4 * (a - 1) + i, gcNow' = 4 * (b - 1) + 2,
                 gcNow' = gcNow + 1 \/ (i = 1 /\ gcNow' = gcNow + 2)
          PROVE  a = b
      BY <3>1
    <3>2. /\ RoundOf(gcNow) \in Nat /\ ViewVersion(gcNow) \in 0..3 /\ gcNow = 4 * (RoundOf(gcNow) - 1) + ViewVersion(gcNow)
          /\ RoundOf(gcNow') \in Nat /\ ViewVersion(gcNow') \in 0..3
          /\ gcNow' = 4 * (RoundOf(gcNow') - 1) + ViewVersion(gcNow')
      BY <2>1, <1>a, ViewOrder
    <3> QED BY <3>1, <3>2, <2>1
  <2>3. gcParked \subseteq gcParked' /\ gcParked' \subseteq ViewRounds
    BY <1>1, <1>t, ViewReached DEF ServerMoves, GcInv
  <2>4. \A view : Reached(view) => Reached(view)'
    <3> SUFFICES ASSUME NEW view, Reached(view) PROVE Reached(view)'
      OBVIOUS
    <3>1. view \in FirstView..gcNow'
      BY <2>1, <1>a DEF Reached
    <3> QED BY <3>1, <2>3 DEF Reached
  <2>5. Reached(gcNow)'
    <3>1. ViewVersion(gcNow') = 2 => RoundOf(gcNow') \in gcParked'
      BY <2>2, <1>1 DEF ServerMoves
    <3> QED BY <3>1, <2>1, <1>a DEF Reached
  <2>6. UNCHANGED <<gcCall, gcSocket, gcSnap, gcRound, gcLastSv, gcLastWin, gcInOrder, gcSlipped, gcShown>> /\ gcWire' = Pushed
    BY <1>1 DEF ServerMoves, gcPage
  <2>7. (gcWire' = <<>> \/ \E msg \in Msgs : gcWire' = <<msg>>)
        /\ (gcWire' # <<>> /\ Head(gcWire').kind = "snapshot" => gcWire' = gcWire)
    <3>1. CASE gcSocket = "open" /\ gcWire = <<>>
      <4>1. gcWire' = <<[kind |-> "event", view |-> NoView]>>
        BY <3>1, <2>6 DEF Pushed
      <4>2. [kind |-> "event", view |-> NoView] \in Msgs
        BY <1>a DEF Msgs
      <4>3. Head(gcWire').kind = "event"
        BY <4>1
      <4> QED BY <4>1, <4>2, <4>3
    <3>2. CASE ~(gcSocket = "open" /\ gcWire = <<>>)
      BY <3>2, <2>6, <1>t DEF Pushed
    <3> QED BY <3>1, <3>2
  <2>8. ViewTypes'
    BY <2>1, <2>3, <2>4, <2>5, <2>6, <2>7, <1>t DEF ViewTypes, Held, Calls, Msgs
  <2>9. Arrivals'
    BY <2>4, <2>6, <2>7 DEF GcInv, Arrivals
  <2>10. WinsRemembered'
    BY <2>3, <2>6 DEF GcInv, WinsRemembered, Remembered
  <2> QED BY <2>8, <2>9, <2>10 DEF GcInv
<1>2. ASSUME RefreshAsked PROVE GcInv'
  <2>1. UNCHANGED <<gcNow, gcParked>> /\ UNCHANGED gcPage /\ UNCHANGED gcLink /\ Asks
    BY <1>2 DEF RefreshAsked
  <2>2. \A r \in Refreshes : gcCall[r].at \in {"answered", "resetting"} => Reached(gcCall[r].got)
    BY DEF GcInv, Arrivals
  <2>3. gcCall' \in [Refreshes -> Calls] /\ \A r \in Refreshes : gcCall'[r].at \in {"answered", "resetting"} => gcCall'[r] = gcCall[r]
    BY <2>1, <1>k
  <2>4. \A r \in Refreshes : (gcCall'[r].at \in {"answered", "resetting"} => Reached(gcCall'[r].got))
                             /\ (gcCall'[r].at = "resetting" => gcCall'[r] = gcCall[r])
    BY <2>2, <2>3
  <2> QED BY <2>1, <2>3, <2>4, <1>p
<1>3. ASSUME NEW r \in Refreshes, RefreshAnswered(r) PROVE GcInv'
  <2> DEFINE e == [gcCall[r] EXCEPT !.at = "answered", !.got = gcNow]
  <2>1. UNCHANGED <<gcNow, gcParked>> /\ UNCHANGED gcPage /\ UNCHANGED gcLink /\ gcCall' = [gcCall EXCEPT ![r] = e]
    BY <1>3, <1>t DEF RefreshAnswered
  <2>2. e \in Calls /\ e.at = "answered" /\ e.got = gcNow
    <3>1. [gcCall[r] EXCEPT !.at = "answered"] \in Calls /\ [gcCall[r] EXCEPT !.at = "answered"].at = "answered"
      BY <1>t DEF Calls
    <3>2. e = [[gcCall[r] EXCEPT !.at = "answered"] EXCEPT !.got = gcNow]
      OBVIOUS
    <3>3. gcNow \in NoView..LastView
      BY <1>a, <1>t DEF NoView
    <3> HIDE DEF e
    <3> QED BY <3>1, <3>2, <3>3 DEF Calls
  <2> HIDE DEF e
  <2>3. \A q \in Refreshes : /\ gcCall'[q].at \in {"answered", "resetting"} => Reached(gcCall'[q].got)
                             /\ gcCall'[q].at = "resetting" => gcCall'[q] = gcCall[q]
    BY <2>1, <2>2, <1>t DEF GcInv, Arrivals
  <2>4. gcCall' \in [Refreshes -> Calls]
    BY <2>1, <2>2, <1>t
  <2> QED BY <2>1, <2>3, <2>4, <1>p
<1>4. ASSUME NEW r \in Refreshes, RefreshFails(r) PROVE GcInv'
  <2>1. UNCHANGED <<gcNow, gcParked>> /\ UNCHANGED gcPage /\ UNCHANGED gcLink /\ gcCall' = [gcCall EXCEPT ![r] = FreeCall]
    BY <1>4 DEF RefreshFails
  <2>2. \A q \in Refreshes : /\ gcCall'[q].at \in {"answered", "resetting"} => Reached(gcCall'[q].got)
                             /\ gcCall'[q].at = "resetting" => gcCall'[q] = gcCall[q]
    BY <2>1, <1>f, <1>t DEF GcInv, Arrivals
  <2>3. gcCall' \in [Refreshes -> Calls]
    BY <2>1, <1>f, <1>t
  <2> QED BY <2>1, <2>2, <2>3, <1>p
<1>5. ASSUME NEW r \in Refreshes, AnswerShown(r) PROVE GcInv'
  <2> DEFINE view == gcCall[r].got
  <2>0. gcCall[r].at = "answered" /\ Reached(view)
    BY <1>5 DEF AnswerShown, GcInv, Arrivals
  <2>1. /\ gcSnap' = view /\ gcInOrder' = (gcInOrder /\ gcSnap <= view)
        /\ UNCHANGED <<gcNow, gcParked, gcSlipped, gcSocket, gcWire>>
    BY <1>5 DEF AnswerShown, gcLink
  <2>2. view \in Nat /\ RoundOf(view) \in ViewRounds /\ ViewVersion(view) \in 0..3 /\ view # NoView
    BY <2>0, ViewReached DEF GcInv
  <2> HIDE DEF view
  <2>3. CASE gcRound # 0 /\ RoundOf(view) # gcRound
    <3>1. gcCall' = [gcCall EXCEPT ![r].at = "resetting"] /\ UNCHANGED <<gcRound, gcLastSv, gcLastWin, gcShown>>
      BY <2>3, <1>5 DEF AnswerShown, view
    <3>2. [gcCall[r] EXCEPT !.at = "resetting"] \in Calls /\ [gcCall[r] EXCEPT !.at = "resetting"].got = view
      BY <1>t DEF Calls, view
    <3>3. gcCall' \in [Refreshes -> Calls] /\ gcCall'[r].got = view /\ \A q \in Refreshes : q # r => gcCall'[q] = gcCall[q]
      BY <3>1, <3>2, <1>t
    <3>4. ViewTypes'
      BY <2>0, <2>1, <3>1, <3>3, <1>t DEF ViewTypes, Held, Reached, Calls, Msgs
    <3>5. Arrivals'
      BY <2>0, <2>1, <2>2, <3>3 DEF GcInv, Arrivals, Reached
    <3>6. WinsRemembered'
      <4> SUFFICES ASSUME gcInOrder', NEW round \in ViewRounds \ (gcParked \cup gcSlipped), gcShown[round] = 1
                   PROVE  Remembered(round)'
        BY <2>1, <3>1 DEF GcInv, WinsRemembered
      <4>1. Remembered(round) /\ gcSnap <= view
        BY <2>1 DEF GcInv, WinsRemembered
      <4>2. RoundOf(view) > round \/ (RoundOf(view) = round /\ HasWinners(view) /\ gcLastWin = <<round, TRUE>>)
        BY <4>1, <2>0, LaterSnapshot
      <4> QED BY <4>2, <2>1, <3>1 DEF Remembered
    <3> QED BY <3>4, <3>5, <3>6 DEF GcInv
  <2>4. CASE ~(gcRound # 0 /\ RoundOf(view) # gcRound)
    <3>1. Shows(r, view, WinKey(view))
      BY <2>4, <1>5 DEF AnswerShown, view
    <3>2. WinsRemembered'
      BY <3>1, <2>0, <2>1, ShowsOnce
    <3>3. gcCall' = [gcCall EXCEPT ![r] = FreeCall] /\ gcRound' = RoundOf(view) /\ gcLastSv' = ViewVersion(view)
          /\ gcShown' \in [ViewRounds -> Nat]
      BY <3>1, <2>2, <1>t DEF Shows
    <3>4. gcLastSv' \in NoView..3
      BY <3>3, <2>2 DEF NoView
    <3>5. gcCall' \in [Refreshes -> Calls] /\ gcCall'[r].at = "free" /\ \A q \in Refreshes : q # r => gcCall'[q] = gcCall[q]
      BY <3>3, <1>f, <1>t
    <3>6. ViewTypes'
      BY <2>0, <2>1, <2>2, <3>3, <3>4, <3>5, <1>t DEF ViewTypes, Held, Reached, Calls, Msgs
    <3>7. Arrivals'
      BY <2>1, <2>2, <3>5 DEF GcInv, Arrivals, Reached
    <3> QED BY <3>2, <3>6, <3>7 DEF GcInv
  <2> QED BY <2>3, <2>4
<1>6. ASSUME NEW r \in Refreshes, ResetOver(r) PROVE GcInv'
  <2>0. gcCall[r].at = "resetting" /\ Reached(gcSnap) /\ gcSnap # NoView
    BY <1>6, <1>t DEF ResetOver, GcInv, Arrivals, Held
  <2>1. /\ Shows(r, gcSnap, WinKey(gcCall[r].got)) /\ UNCHANGED <<gcNow, gcParked, gcSnap, gcInOrder, gcSocket, gcWire>>
        /\ gcSlipped' = IF WinKey(gcCall[r].got) = WinKey(gcSnap) THEN gcSlipped ELSE gcSlipped \cup {RoundOf(gcSnap)}
    BY <1>6 DEF ResetOver, gcLink
  <2>2. gcSnap \in Nat /\ RoundOf(gcSnap) \in ViewRounds /\ ViewVersion(gcSnap) \in 0..3
    BY <2>0, ViewReached DEF GcInv
  <2>3. gcSnap <= gcSnap
    BY <2>2
  <2>4. WinsRemembered'
    BY <2>0, <2>1, <2>3, ShowsOnce
  <2>5. gcCall' = [gcCall EXCEPT ![r] = FreeCall] /\ gcRound' = RoundOf(gcSnap) /\ gcLastSv' = ViewVersion(gcSnap)
        /\ gcShown' \in [ViewRounds -> Nat] /\ gcSlipped' \subseteq ViewRounds
    BY <2>1, <2>2, <1>t DEF Shows
  <2>6. gcLastSv' \in NoView..3
    BY <2>2, <2>5 DEF NoView
  <2>7. gcCall' \in [Refreshes -> Calls] /\ gcCall'[r].at = "free" /\ \A q \in Refreshes : q # r => gcCall'[q] = gcCall[q]
    BY <2>5, <1>f, <1>t
  <2>8. ViewTypes'
    BY <2>1, <2>2, <2>5, <2>6, <2>7, <1>t DEF ViewTypes, Held, Reached, Calls, Msgs
  <2>9. Arrivals'
    BY <2>1, <2>7 DEF GcInv, Arrivals, Reached
  <2> QED BY <2>4, <2>8, <2>9 DEF GcInv
<1>7. ASSUME SocketOpens PROVE GcInv'
  <2>1. /\ gcSocket' = "open" /\ gcWire' = <<[kind |-> "snapshot", view |-> gcNow]>> /\ Asks
        /\ UNCHANGED <<gcNow, gcParked>> /\ UNCHANGED gcPage
    BY <1>7 DEF SocketOpens
  <2>2. gcCall' \in [Refreshes -> Calls] /\ \A r \in Refreshes : gcCall'[r].at \in {"answered", "resetting"} => gcCall'[r] = gcCall[r]
    BY <2>1, <1>k
  <2>3. [kind |-> "snapshot", view |-> gcNow] \in Msgs /\ Head(gcWire').view = gcNow
    BY <2>1, <1>a, <1>t DEF Msgs, NoView
  <2>4. ViewTypes'
    BY <2>1, <2>2, <2>3, <1>t DEF ViewTypes, Held, Reached, Calls, Msgs, gcPage
  <2>5. Arrivals'
    BY <2>1, <2>2, <2>3, <1>t DEF GcInv, Arrivals, Reached, gcPage
  <2>6. WinsRemembered'
    BY <2>1 DEF GcInv, WinsRemembered, Remembered, gcPage
  <2> QED BY <2>4, <2>5, <2>6 DEF GcInv
<1>8. ASSUME MessageHandled PROVE GcInv'
  <2>0. /\ gcWire # <<>> /\ gcWire' = Tail(gcWire) /\ gcSocket = "open"
        /\ UNCHANGED <<gcNow, gcParked, gcRound, gcLastSv, gcLastWin, gcSlipped, gcShown, gcSocket>>
    BY <1>8 DEF MessageHandled
  <2>1. gcWire' = <<>>
    <3>1. PICK msg \in Msgs : gcWire = <<msg>>
      BY <2>0, <1>t
    <3> QED BY <2>0, <3>1
  <2>2. (Asks /\ UNCHANGED <<gcSnap, gcInOrder>>)
        \/ (Head(gcWire).kind = "snapshot" /\ gcSnap' = Head(gcWire).view /\ gcInOrder' = (gcInOrder /\ gcSnap <= gcSnap') /\ UNCHANGED gcCall)
    BY <1>8 DEF MessageHandled
  <2>3. gcCall' \in [Refreshes -> Calls] /\ \A r \in Refreshes : gcCall'[r].at \in {"answered", "resetting"} => gcCall'[r] = gcCall[r]
    BY <2>2, <1>k
  <2>4. CASE UNCHANGED <<gcSnap, gcInOrder>>
    <3>1. ViewTypes'
      BY <2>0, <2>1, <2>3, <2>4, <1>t DEF ViewTypes, Held, Reached, Calls, Msgs
    <3>2. Arrivals'
      BY <2>0, <2>1, <2>3, <2>4 DEF GcInv, Arrivals, Reached
    <3>3. WinsRemembered'
      BY <2>0, <2>4 DEF GcInv, WinsRemembered, Remembered
    <3> QED BY <3>1, <3>2, <3>3 DEF GcInv
  <2>5. CASE Head(gcWire).kind = "snapshot" /\ gcSnap' = Head(gcWire).view /\ gcInOrder' = (gcInOrder /\ gcSnap <= gcSnap')
    <3>0. Reached(gcSnap') /\ gcSnap' # NoView /\ gcInOrder' \in BOOLEAN
      BY <2>0, <2>5, ViewReached, <1>t DEF GcInv, Arrivals
    <3>1. ViewTypes'
      BY <2>0, <2>1, <2>3, <2>5, <3>0, <1>t DEF ViewTypes, Held, Reached, Calls, Msgs
    <3>2. Arrivals'
      BY <2>0, <2>1, <2>3, <3>0 DEF GcInv, Arrivals, Reached
    <3>3. WinsRemembered'
      <4> SUFFICES ASSUME gcInOrder', NEW round \in ViewRounds \ (gcParked \cup gcSlipped), gcShown[round] = 1
                   PROVE  Remembered(round)'
        BY <2>0, <2>5 DEF GcInv, WinsRemembered
      <4>1. Remembered(round) /\ gcSnap <= gcSnap'
        BY <2>5 DEF GcInv, WinsRemembered
      <4>2. RoundOf(gcSnap') > round \/ (RoundOf(gcSnap') = round /\ HasWinners(gcSnap') /\ gcLastWin = <<round, TRUE>>)
        BY <4>1, <3>0, LaterSnapshot
      <4> QED BY <4>2, <2>0 DEF Remembered
    <3> QED BY <3>1, <3>2, <3>3 DEF GcInv
  <2> QED BY <2>2, <2>4, <2>5
<1>9. ASSUME SocketCloses PROVE GcInv'
  <2>1. gcSocket' = "closed" /\ gcWire' = <<>> /\ UNCHANGED <<gcNow, gcParked, gcCall>> /\ UNCHANGED gcPage
    BY <1>9 DEF SocketCloses
  <2> QED BY <2>1, <1>t DEF GcInv, ViewTypes, Arrivals, WinsRemembered, Remembered, Held, Reached, gcPage, Calls, Msgs
<1>10. CASE UNCHANGED gcVars
  BY <1>10 DEF gcVars, GcInv, ViewTypes, Arrivals, WinsRemembered, Remembered, Held, Reached
<1> QED BY <1>1, <1>2, <1>3, <1>4, <1>5, <1>6, <1>7, <1>8, <1>9, <1>10 DEF GcNext

LEMMA ViewsKeep == GcInv => WinShownOnce /\ GcTypeOK
<1> SUFFICES ASSUME GcInv PROVE WinShownOnce /\ GcTypeOK
  OBVIOUS
<1>1. WinShownOnce
  BY DEF GcInv, WinsRemembered, WinShownOnce
<1>2. FirstView \in Nat /\ LastView \in Nat /\ gcNow \in FirstView..LastView
  BY ClientAssumption DEF GcInv, ViewTypes
<1>3. gcNow \in 0..LastView /\ gcSnap \in NoView..LastView
  <2>1. NoView \in NoView..LastView
    BY <1>2 DEF NoView
  <2> QED BY <1>2, <2>1, ViewReached DEF GcInv, ViewTypes, Held
<1> QED BY <1>1, <1>3 DEF GcInv, ViewTypes, GcTypeOK

\* A step of the room is a step of one of its parts, and leaves every other as it is.
LEMMA OnePartMoves == [TableNext]_tableVars => [GcNext]_gcVars /\ [PbNext]_pbVars
BY DEF TableNext, tableVars

\* "Animate only a transition this client actually observed" and "One in-flight bet at a time"
\* (client/game.js): with any number of refreshes, taps, repeats and rounds, a win is celebrated
\* once, one tap is under way at a time, a bet that named its round is placed in it, and what is
\* shown as staked was placed, each with the exceptions its definition names.
THEOREM PageKept == TableSpec => []PageSound
<1>1. TableInit => GcInit /\ PbInit
  BY DEF TableInit
<1>2. GcInv /\ PbInv => PageSound
  BY ViewsKeep, BetsKeep DEF PageSound
<1> QED BY <1>1, <1>2, OnePartMoves, ViewsBegin, ViewsStep, BetsBegin, BetsStep, PTL DEF TableSpec
=============================================================================
