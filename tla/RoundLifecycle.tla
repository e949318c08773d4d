--------------------------- MODULE RoundLifecycle ---------------------------
(***************************************************************************)
(* The round life cycle of common/lifecycle.py: the statuses, the table of *)
(* allowed transitions every validated status write goes through, and the  *)
(* retry budget of a settlement that failed.  Constant-level: the modules  *)
(* with behaviour INSTANCE or EXTEND it.                                   *)
(***************************************************************************)
EXTENDS Naturals

UPCOMING          == "UPCOMING"
ABOUT_TO_START    == "ABOUT_TO_START"
BETTING_OPEN      == "BETTING_OPEN"
BETTING_CLOSED    == "BETTING_CLOSED"
RESULT_PROCESSING == "RESULT_PROCESSING"
RESULT            == "RESULT"
RESULT_DECLARED   == "RESULT_DECLARED"
SETTLED           == "SETTLED"
CLOSED            == "CLOSED"
SETTLED_PENDING   == "SETTLED_PENDING"
SETTLE_FAILED     == "SETTLE_FAILED"

RoundStatus ==
  {UPCOMING, ABOUT_TO_START, BETTING_OPEN, BETTING_CLOSED, RESULT_PROCESSING,
   RESULT, RESULT_DECLARED, SETTLED, CLOSED, SETTLED_PENDING, SETTLE_FAILED}

\* _ALLOWED, as a set of edges.
Allowed ==
  ({UPCOMING} \X {BETTING_OPEN, ABOUT_TO_START, CLOSED})
    \cup ({ABOUT_TO_START} \X {BETTING_OPEN, CLOSED})
    \cup ({BETTING_OPEN} \X {BETTING_CLOSED, CLOSED})
    \cup ({BETTING_CLOSED} \X {RESULT_PROCESSING, CLOSED, SETTLED_PENDING})
    \cup ({RESULT_PROCESSING} \X {RESULT, CLOSED, SETTLED_PENDING})
    \cup ({RESULT} \X {SETTLED, RESULT_DECLARED, CLOSED, SETTLED_PENDING})
    \cup ({RESULT_DECLARED} \X {SETTLED, CLOSED, SETTLED_PENDING})
    \cup ({SETTLED} \X {CLOSED})
    \cup ({CLOSED} \X {SETTLED_PENDING})
    \cup ({SETTLED_PENDING} \X {BETTING_CLOSED, RESULT, CLOSED, SETTLE_FAILED})
    \cup ({SETTLE_FAILED} \X {CLOSED, SETTLED_PENDING})

CanTransition(frm, to) == <<frm, to>> \in Allowed

\* A round a new one may replace (Room.start_round, ensure_round).
Replaceable(s) == s \in {SETTLED, CLOSED}

=============================================================================
