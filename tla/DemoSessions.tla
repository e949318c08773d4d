----------------------------- MODULE DemoSessions -----------------------------
(***************************************************************************)
(* Demo sessions, as the game server keeps them in memory                   *)
(* (common/session.py DemoSessionStore behind api.py, one store made on     *)
(* first use by whichever thread comes first) and as the staging instances  *)
(* keep them in Redis (staging/demo.py, a record with a life of its own and *)
(* a counter per address).  One address asks.  A tick is a quarter of an   *)
(* hour.                                                                    *)
(***************************************************************************)
EXTENDS Integers, FiniteSets

CONSTANTS
  DemoKinds,     \* "memory", "redis"
  DemoCalls,     \* bound: requests
  DemoLimit,     \* sessions of an address in an hour
  DemoEnd        \* bound: the last tick

ASSUME DemoAssumption ==
  /\ IsFiniteSet(DemoCalls) /\ "none" \notin DemoCalls
  /\ DemoLimit \in Nat \ {0} /\ DemoEnd \in Nat \ {0}

VARIABLES dsKind, dsNow, dsStores, dsStore, dsSessions, dsRate, dsCalls, dsRaced, dsUnlived
dsVars == <<dsKind, dsNow, dsStores, dsStore, dsSessions, dsRate, dsCalls, dsRaced, dsUnlived>>

Hour == 4
SessionLife == 2
Unstored == "none"
NoSession == [status |-> "none", store |-> Unstored, made |-> 0, expires |-> 0, until |-> 0]
Quit == [op |-> "none", at |-> "idle", target |-> Unstored, read |-> NoSession, store |-> Unstored]

\* A session is named for the request that made it.
DsInit ==
  /\ dsKind \in DemoKinds /\ dsNow = 1
  /\ dsStores = {} /\ dsStore = Unstored          \* the stores made, the one installed
  /\ dsSessions = [s \in DemoCalls |-> NoSession]
  /\ dsRate = [count |-> 0, until |-> 0]
  /\ dsCalls = [c \in DemoCalls |-> Quit]
  /\ dsRaced = FALSE /\ dsUnlived = FALSE

DsGo(c, at) == dsCalls' = [dsCalls EXCEPT ![c].at = at]

DsAsk(c) ==
  /\ dsCalls[c].at = "idle"
  /\ \E op \in {"create", "get", "close"}, s \in DemoCalls :
       /\ op # "create" => dsCalls[s].at = "made"
       /\ op = "create" => s = c
       /\ dsCalls' = [dsCalls EXCEPT ![c] = [Quit EXCEPT !.op = op, !.at = "asked", !.target = s]]
  /\ UNCHANGED <<dsKind, dsNow, dsStores, dsStore, dsSessions, dsRate, dsRaced, dsUnlived>>

(***************************************************************************)
(* In memory.                                                               *)
(***************************************************************************)
\* getattr(self.svc, 'demo_store', None); a thread that found none makes one.
FindStore(c) ==
  /\ dsKind = "memory" /\ dsCalls[c].at = "asked" /\ dsCalls[c].op = "create"
  /\ dsCalls' = [dsCalls EXCEPT ![c].at = IF dsStore = Unstored THEN "install" ELSE "create", ![c].store = dsStore]
  /\ UNCHANGED <<dsKind, dsNow, dsStores, dsStore, dsSessions, dsRate, dsRaced, dsUnlived>>

InstallStore(c) ==
  /\ dsCalls[c].at = "install"
  /\ dsStores' = dsStores \cup {c} /\ dsStore' = c
  /\ dsRaced' = (dsRaced \/ dsStore # Unstored)
  /\ dsCalls' = [dsCalls EXCEPT ![c].at = "create", ![c].store = c]
  /\ UNCHANGED <<dsKind, dsNow, dsSessions, dsRate, dsUnlived>>

\* Expired sessions are dropped, from the address's list too; the rest of the last hour count.
Cleaned(store) ==
  [s \in DemoCalls |-> IF dsSessions[s].store = store /\ dsSessions[s].expires < dsNow
                       THEN [dsSessions[s] EXCEPT !.status = "dropped"] ELSE dsSessions[s]]
Recent(store) ==
  {s \in DemoCalls : LET x == Cleaned(store)[s] IN
     x.store = store /\ x.status # "dropped" /\ x.made > dsNow - Hour}

CheckLimit(c) ==
  LET store == dsCalls[c].store IN
  /\ dsCalls[c].at = "create"
  /\ dsSessions' = Cleaned(store)
  /\ DsGo(c, IF Cardinality(Recent(store)) < DemoLimit THEN "append" ELSE "limited")
  /\ dsRaced' = (dsRaced \/ \E other \in DemoCalls \ {c} : dsCalls[other].at = "append")
  /\ UNCHANGED <<dsKind, dsNow, dsStores, dsStore, dsRate, dsUnlived>>

AppendDemo(c) ==
  /\ dsCalls[c].at = "append"
  /\ dsSessions' = [dsSessions EXCEPT ![c] = [status |-> "ACTIVE", store |-> dsCalls[c].store, made |-> dsNow,
                                              expires |-> dsNow + SessionLife, until |-> 0]]
  /\ DsGo(c, "made")
  /\ UNCHANGED <<dsKind, dsNow, dsStores, dsStore, dsRate, dsRaced, dsUnlived>>

\* get; and close, whose path the route of get takes first, with "<id>/close" for an id.
GetDemo(c) ==
  LET call == dsCalls[c]
      found == call.op = "get" /\ dsStore # Unstored /\ dsSessions[call.target].store = dsStore
               /\ dsSessions[call.target].status = "ACTIVE"
  IN
  /\ dsKind = "memory" /\ call.at = "asked" /\ call.op # "create"
  /\ DsGo(c, IF found THEN "found" ELSE "missing")
  /\ UNCHANGED <<dsKind, dsNow, dsStores, dsStore, dsSessions, dsRate, dsRaced, dsUnlived>>

(***************************************************************************)
(* In Redis, command by command.                                            *)
(***************************************************************************)
CountDemo(c) ==
  LET count == IF dsRate.count = 0 THEN 1 ELSE dsRate.count + 1 IN
  /\ dsKind = "redis" /\ dsCalls[c].at = "asked" /\ dsCalls[c].op = "create"
  /\ dsRate' = [count |-> count, until |-> IF dsRate.count = 0 THEN DemoEnd + Hour + 1 ELSE dsRate.until]
  /\ DsGo(c, CASE count = 1 -> "life" [] count > DemoLimit -> "limited" [] OTHER -> "set")
  /\ UNCHANGED <<dsKind, dsNow, dsStores, dsStore, dsSessions, dsRaced, dsUnlived>>

RateLife(c) ==
  /\ dsCalls[c].at = "life"
  /\ dsRate' = [dsRate EXCEPT !.until = dsNow + Hour]
  /\ DsGo(c, "set")
  /\ UNCHANGED <<dsKind, dsNow, dsStores, dsStore, dsSessions, dsRaced, dsUnlived>>

SetDemo(c) ==
  /\ dsCalls[c].at = "set"
  /\ dsSessions' = [dsSessions EXCEPT ![c] = [status |-> "active", store |-> "redis", made |-> dsNow,
                                              expires |-> dsNow + SessionLife, until |-> dsNow + SessionLife]]
  /\ DsGo(c, "made")
  /\ UNCHANGED <<dsKind, dsNow, dsStores, dsStore, dsRate, dsRaced, dsUnlived>>

\* The record as it was read decides: gone, past its end, ended before, or live.
ReadDemo(c) ==
  LET call == dsCalls[c]
      record == dsSessions[call.target]
  IN
  /\ dsKind = "redis" /\ call.at = "asked" /\ call.op # "create"
  /\ dsCalls' = [dsCalls EXCEPT ![c].read = record,
                   ![c].at = CASE record.until <= dsNow -> "missing"
                               [] record.until > dsNow /\ (record.status # "active" \/ record.expires <= dsNow) -> "end"
                               [] OTHER -> IF call.op = "get" THEN "found" ELSE "close"]
  /\ UNCHANGED <<dsKind, dsNow, dsStores, dsStore, dsSessions, dsRate, dsRaced, dsUnlived>>

\* The end of a session is written back over whatever is there, to stay for a minute.
EndStatus(read) == IF read.expires <= dsNow THEN "expired" ELSE read.status

WriteEnd(c) ==
  LET call == dsCalls[c] IN
  /\ call.at \in {"end", "close"}
  /\ dsSessions' = [dsSessions EXCEPT ![call.target] =
       [call.read EXCEPT !.status = IF call.at = "close" THEN "closed" ELSE EndStatus(call.read), !.until = dsNow + 1]]
  /\ DsGo(c, IF call.at = "close" THEN "closed" ELSE "ended")
  /\ UNCHANGED <<dsKind, dsNow, dsStores, dsStore, dsRate, dsRaced, dsUnlived>>

DsStop(c) ==
  /\ dsKind = "redis" /\ ~dsUnlived /\ dsCalls[c].at = "life"
  /\ dsUnlived' = TRUE
  /\ DsGo(c, "stopped")
  /\ UNCHANGED <<dsKind, dsNow, dsStores, dsStore, dsSessions, dsRate, dsRaced>>

DsTick ==
  /\ dsNow < DemoEnd
  /\ dsNow' = dsNow + 1
  /\ dsRate' = IF dsRate.until <= dsNow' THEN [count |-> 0, until |-> 0] ELSE dsRate
  /\ UNCHANGED <<dsKind, dsStores, dsStore, dsSessions, dsCalls, dsRaced, dsUnlived>>

DsNext ==
  \/ DsTick
  \/ \E c \in DemoCalls :
       \/ DsAsk(c) \/ FindStore(c) \/ InstallStore(c) \/ CheckLimit(c) \/ AppendDemo(c) \/ GetDemo(c)
       \/ CountDemo(c) \/ RateLife(c) \/ SetDemo(c) \/ ReadDemo(c) \/ WriteEnd(c) \/ DsStop(c)

(***************************************************************************)
(* Properties.                                                              *)
(***************************************************************************)
DsTypeOK == dsKind \in DemoKinds /\ dsNow \in 1..DemoEnd /\ dsStore \in DemoCalls \cup {Unstored}

\* A session that was answered to a player is found until it expires, unless two first
\* requests each made a store (dsRaced).
DemoFound ==
  \A c \in DemoCalls :
    (dsKind = "memory" /\ dsCalls[c].at = "missing" /\ dsCalls[c].op = "get" /\ ~dsRaced) =>
      dsSessions[dsCalls[c].target].expires < dsNow

\* An ended session is never live again, whatever requests overlapped its end.
DemoEndsForGood ==
  \A c \in DemoCalls : dsKind = "redis" /\ dsCalls[c].at = "closed" =>
    dsSessions[dsCalls[c].target].status # "active"

\* An address never has more than its limit of live sessions in one store, unless two requests
\* were checked at once; the counter of an address ends, unless its request stopped before
\* setting its life.
DemoLimited ==
  /\ dsRaced \/ \A store \in dsStores : Cardinality({s \in DemoCalls :
       dsSessions[s].store = store /\ dsSessions[s].status = "ACTIVE" /\ dsSessions[s].expires > dsNow}) <= DemoLimit
  /\ dsRate.until > DemoEnd + Hour => dsUnlived \/ \E c \in DemoCalls : dsCalls[c].at = "life"

\* At most DemoLimit sessions of an address in an hour, which the store does not keep: a
\* session that expired no longer counts.
HourlyLimit ==
  dsRaced \/ \A store \in dsStores :
    Cardinality({s \in DemoCalls : dsSessions[s].store = store /\ dsSessions[s].made > dsNow - Hour}) <= DemoLimit

\* What demo sessions promise.
DemoSessionsSafe == DemoFound /\ DemoEndsForGood /\ DemoLimited
===============================================================================
