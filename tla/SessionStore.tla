----------------------------- MODULE SessionStore -----------------------------
(***************************************************************************)
(* The persistent session store (session/persistent_store.rs, events.rs):  *)
(* a map of sessions and the events that rebuild it after a restart, with  *)
(* the requests that use it: login and logout (rbac/auth_handlers.rs), the *)
(* session middleware, which reads a session and writes it back            *)
(* (middleware.rs), and the cleanup of expired sessions (manager.rs).      *)
(*                                                                         *)
(* A session is its expiry: no handler changes its data after the login.   *)
(* An event is applied to the map under the lock of the map and appended   *)
(* and flushed afterwards, under the lock of the event store: two steps    *)
(* here, and others may come between.  Errors of the event store are left  *)
(* out (ModelStore has them).                                              *)
(***************************************************************************)
EXTENDS Integers, Sequences

CONSTANTS
    SessionId,              \* tokens
    Request,                \* handlers that run at the same time
    MaxTime,                \* bound: the clock runs from 1 to MaxTime
    Lifetime,               \* session_duration
    MaxSessionRestarts,     \* bound: crashes
    MaxSessionEvents,       \* bound: no request begins once the log is this long
    NoToken                 \* no token

ASSUME NoTokenAssumption == NoToken \notin SessionId \cup Request
ASSUME SessionAssumption ==
    MaxTime \in Nat \ {0} /\ Lifetime \in Nat /\ MaxSessionRestarts \in Nat

Clock == 1..MaxTime
Expiry == 1..(MaxTime + Lifetime)
Gone == 0                       \* no session with this id

\* SessionCreated, SessionUpdated and SessionDeleted; a deletion has no expiry.
SessionEvent ==
    [kind : {"created", "updated"}, id : SessionId, expires : Expiry]
    \cup [kind : {"deleted"}, id : SessionId, expires : {Gone}]

\* What a request is doing.  "read": it has the session from get; "writes": set
\* or delete has its event; "applied": the event is in the map, not in the log.
NoRequest == [step |-> "idle"]
Requests ==
    {NoRequest}
    \cup [step : {"read"}, for : {"touch", "logout"}, id : SessionId, expires : Expiry]
    \cup [step : {"writes", "applied"}, for : {"login", "touch", "logout", "expire"},
          event : SessionEvent]

VARIABLES
    clock,
    session,                \* SessionState: expiry of each session, or Gone
    sessionLog,             \* events on disk
    request,                \* [Request -> Requests]
    expired, deleting,      \* cleanup_expired: ids still to delete, and its event
    sessionRestarts,
    loggedOut,              \* history: tokens whose logout was answered
    overlapped              \* history: a request had read or was writing the
                            \* session when another one deleted it

sessionVars == <<clock, session, sessionLog, request, expired, deleting, sessionRestarts,
                 loggedOut, overlapped>>

SessionInit ==
    /\ clock = 1
    /\ session = [i \in SessionId |-> Gone]
    /\ sessionLog = <<>>
    /\ request = [r \in Request |-> NoRequest]
    /\ expired = {} /\ deleting = NoToken
    /\ sessionRestarts = 0 /\ loggedOut = {} /\ overlapped = {}

----------------------------------------------------------------------------
(* Events. *)

\* apply of the three events: an update keeps the expiry it finds.
ApplyEvent(s, e) ==
    CASE e.kind = "created" -> [s EXCEPT ![e.id] = e.expires]
      [] e.kind = "updated" -> s
      [] e.kind = "deleted" -> [s EXCEPT ![e.id] = Gone]

\* As a bug would have it: a deletion parses as nothing.
ReplayWithoutDeletions(s, e, now) ==
    IF e.kind = "deleted" THEN s ELSE [s EXCEPT ![e.id] = e.expires]

\* A line of the log when it is replayed.  All three have the same fields, so
\* each of them parses as SessionCreated: an update sets the expiry, and a
\* deletion inserts a session that expires at the time of the replay.
ReplayLine(s, e, now) ==
    [s EXCEPT ![e.id] = IF e.kind = "deleted" THEN now ELSE e.expires]

\* PersistentSessionStore::new.
ReplayedSessions(evs, now) ==
    LET s[i \in 0..Len(evs)] ==
            IF i = 0 THEN [t \in SessionId |-> Gone] ELSE ReplayLine(s[i - 1], evs[i], now)
    IN s[Len(evs)]

IsExpired(expires, now) == now >= expires

\* The id a request is about, NoToken if it is idle.
TokenOf(q) ==
    CASE q.step = "idle" -> NoToken
      [] q.step = "read" -> q.id
      [] OTHER -> q.event.id

----------------------------------------------------------------------------
(* Requests. *)

\* handle_rbac_login: a token nobody had before, and set; set looks whether the
\* session is there.
Login(r, t) ==
    /\ request[r] = NoRequest /\ Len(sessionLog) < MaxSessionEvents
    /\ session[t] = Gone
    /\ \A i \in DOMAIN sessionLog : sessionLog[i].id # t
    /\ \A q \in Request : TokenOf(request[q]) # t
    /\ request' = [request EXCEPT ![r] =
           [step |-> "writes", for |-> "login",
            event |-> [kind |-> "created", id |-> t, expires |-> clock + Lifetime]]]
    /\ UNCHANGED <<clock, session, sessionLog, expired, deleting, sessionRestarts, loggedOut,
                   overlapped>>

\* extract_session and handle_rbac_logout start with get; a request without a
\* session ends here.
Get(r, why, t) ==
    /\ request[r] = NoRequest /\ Len(sessionLog) < MaxSessionEvents
    /\ session[t] # Gone
    /\ request' = [request EXCEPT ![r] =
           [step |-> "read", for |-> why, id |-> t, expires |-> session[t]]]
    /\ UNCHANGED <<clock, session, sessionLog, expired, deleting, sessionRestarts, loggedOut,
                   overlapped>>

\* As a bug would have it: the session is written back with a new expiry.
DecideRenewing(r) ==
    LET q == request[r]
        event(kind, expires) == [kind |-> kind, id |-> q.id, expires |-> expires]
    IN
    /\ q.step = "read" /\ q.for = "touch" /\ ~IsExpired(q.expires, clock)
    /\ request' = [request EXCEPT ![r] =
           [step |-> "writes", for |-> "touch",
            event |-> event(IF session[q.id] # Gone THEN "updated" ELSE "created",
                            clock + Lifetime)]]
    /\ UNCHANGED <<clock, session, sessionLog, expired, deleting, sessionRestarts, loggedOut,
                   overlapped>>

\* The middleware deletes an expired session and writes the others back; set
\* takes SessionUpdated or SessionCreated by what is in the map now.  Logout
\* deletes.
Decide(r) ==
    LET q == request[r]
        event(kind, expires) == [kind |-> kind, id |-> q.id, expires |-> expires]
        writes(why, e) == [step |-> "writes", for |-> why, event |-> e]
    IN
    /\ q.step = "read"
    /\ request' = [request EXCEPT ![r] =
           IF q.for = "logout" THEN writes("logout", event("deleted", Gone))
           ELSE IF IsExpired(q.expires, clock) THEN writes("expire", event("deleted", Gone))
           ELSE writes("touch", event(IF session[q.id] # Gone THEN "updated" ELSE "created",
                                      q.expires))]
    /\ UNCHANGED <<clock, session, sessionLog, expired, deleting, sessionRestarts, loggedOut,
                   overlapped>>

\* Which tokens a deletion of t by p (a request, or NoToken for the cleanup)
\* leaves in the hands of others.
LeftWith(p, t) ==
    IF \/ \E q \in Request \ {p} : TokenOf(request[q]) = t
       \/ deleting = t
    THEN {t} ELSE {}

\* apply_event, first half.
Apply(r) ==
    LET q == request[r] IN
    /\ q.step = "writes"
    /\ session' = ApplyEvent(session, q.event)
    /\ request' = [request EXCEPT ![r] = [q EXCEPT !.step = "applied"]]
    /\ overlapped' = IF q.event.kind = "deleted" THEN overlapped \cup LeftWith(r, q.event.id)
                     ELSE overlapped
    /\ UNCHANGED <<clock, sessionLog, expired, deleting, sessionRestarts, loggedOut>>

\* apply_event, second half, and the answer.
Persist(r) ==
    LET q == request[r] IN
    /\ q.step = "applied"
    /\ sessionLog' = Append(sessionLog, q.event)
    /\ request' = [request EXCEPT ![r] = NoRequest]
    /\ loggedOut' = IF q.for = "logout" THEN loggedOut \cup {q.event.id} ELSE loggedOut
    /\ UNCHANGED <<clock, session, expired, deleting, sessionRestarts, overlapped>>

----------------------------------------------------------------------------
(* The cleanup task, time and restarts. *)

\* As a bug would have it: one unit too early.
CollectEarly ==
    /\ expired = {} /\ deleting = NoToken
    /\ expired' = {t \in SessionId : session[t] # Gone /\ IsExpired(session[t], clock + 1)}
    /\ expired' # {}
    /\ UNCHANGED <<clock, session, sessionLog, request, deleting, sessionRestarts, loggedOut,
                   overlapped>>

\* cleanup_expired collects the ids under the read lock ...
CollectExpired ==
    /\ expired = {} /\ deleting = NoToken
    /\ expired' = {t \in SessionId : session[t] # Gone /\ IsExpired(session[t], clock)}
    /\ expired' # {}
    /\ UNCHANGED <<clock, session, sessionLog, request, deleting, sessionRestarts, loggedOut,
                   overlapped>>

\* ... and deletes them one after the other, without another look.
DeleteExpired(t) ==
    /\ t \in expired /\ deleting = NoToken
    /\ expired' = expired \ {t}
    /\ session' = ApplyEvent(session, [kind |-> "deleted", id |-> t, expires |-> Gone])
    /\ deleting' = t
    /\ overlapped' = overlapped \cup LeftWith(NoToken, t)
    /\ UNCHANGED <<clock, sessionLog, request, sessionRestarts, loggedOut>>

PersistExpired ==
    /\ deleting # NoToken
    /\ sessionLog' = Append(sessionLog, [kind |-> "deleted", id |-> deleting, expires |-> Gone])
    /\ deleting' = NoToken
    /\ UNCHANGED <<clock, session, request, expired, sessionRestarts, loggedOut, overlapped>>

Tick ==
    /\ clock < MaxTime
    /\ clock' = clock + 1
    /\ UNCHANGED <<session, sessionLog, request, expired, deleting, sessionRestarts, loggedOut,
                   overlapped>>

\* A crash drops what was under way; new replays the log.
RestartStore ==
    /\ sessionRestarts < MaxSessionRestarts
    /\ sessionRestarts' = sessionRestarts + 1
    /\ session' = ReplayedSessions(sessionLog, clock)
    /\ request' = [r \in Request |-> NoRequest]
    /\ expired' = {} /\ deleting' = NoToken
    /\ UNCHANGED <<clock, sessionLog, loggedOut, overlapped>>

SessionNext ==
    \/ \E r \in Request, t \in SessionId :
         Login(r, t) \/ Get(r, "touch", t) \/ Get(r, "logout", t)
    \/ \E r \in Request : Decide(r) \/ Apply(r) \/ Persist(r)
    \/ CollectExpired \/ PersistExpired \/ (\E t \in SessionId : DeleteExpired(t))
    \/ Tick \/ RestartStore

SessionSpec == SessionInit /\ [][SessionNext]_sessionVars

----------------------------------------------------------------------------
(* Properties. *)

SessionTypeOK ==
    /\ clock \in Clock
    /\ session \in [SessionId -> Expiry \cup {Gone}]
    /\ sessionLog \in Seq(SessionEvent)
    /\ request \in [Request -> Requests]
    /\ expired \subseteq SessionId
    /\ deleting \in SessionId \cup {NoToken}
    /\ sessionRestarts \in 0..MaxSessionRestarts
    /\ loggedOut \subseteq SessionId /\ overlapped \subseteq SessionId

Valid(s, t) == s[t] # Gone /\ ~IsExpired(s[t], clock)

\* A token whose logout was answered is not valid again, not even after
\* restarts, which bring the session back without its expiry - unless another
\* request had the session in its hands when it was deleted: the middleware
\* then writes it back.
LoggedOutStaysOut ==
    \A t \in loggedOut \ overlapped : ~Valid(session, t)

\* A session nobody works on is valid after a restart exactly if it is valid
\* now, and to the same time: the map and the log, which are changed under
\* different locks, say the same, although a replay reads every line as a
\* creation.
SessionsSurvive ==
    \A t \in SessionId \ overlapped :
       (deleting # t /\ \A r \in Request : TokenOf(request[r]) # t) =>
          LET s == ReplayedSessions(sessionLog, clock) IN
          /\ Valid(s, t) <=> Valid(session, t)
          /\ Valid(s, t) => s[t] = session[t]

\* The cleanup looks once and deletes later, but never a session that is valid
\* when it is deleted.
CleanupSparesTheValid ==
    [][\A t \in expired : (t \notin expired' /\ deleting' = t) => ~Valid(session, t)]_sessionVars
=============================================================================
