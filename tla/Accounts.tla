------------------------------ MODULE Accounts ------------------------------
(***************************************************************************)
(* Registration, login, session lookup and logout: service/auth over       *)
(* repo/mysql/session_repository and user_repository, the controllers of   *)
(* auth_controller.cpp and the authentication step of the router.          *)
(*                                                                         *)
(* A worker thread serves one request.  A step is one SQL statement        *)
(* (autocommit) or one critical section of g_auth_cache_lock.  Sessions    *)
(* are kept twice: in the table user_sessions and in the process-wide      *)
(* cache g_auth_sessions.  A statement may fail; the process may crash,    *)
(* which loses the cache and the requests in flight.                       *)
(***************************************************************************)
EXTENDS Naturals, FiniteSets

CONSTANTS
    Workers,
    Users,
    Tokens,      \* what make_session_token returns: each value once
    None,
    Ttl,         \* kSessionTtlSeconds, in ticks
    Threshold,   \* kSessionRefreshThresholdSeconds, in ticks
    MaxTime,     \* bound: ticks of the clock
    MaxFaults,   \* bound: statements that fail, and crashes
    Ops          \* the requests that are sent

AllOps == {"register", "login", "access", "logout", "logout_all"}

ASSUME AccountAssumption ==
    /\ Ttl \in Nat /\ Threshold \in Nat /\ Threshold < Ttl
    /\ MaxTime \in Nat /\ MaxFaults \in Nat
    /\ Ops \subseteq AllOps
    /\ None \notin Users \cup Tokens
    /\ IsFiniteSet(Workers)

VARIABLES
    now,              \* the clock, the same for time() and NOW()
    users,            \* rows of users: "absent", "enabled" or "disabled"
    user_sessions,    \* rows of user_sessions: token -> [user, expires_at]
    g_auth_users,     \* cached user names
    g_auth_sessions,  \* cached sessions: token -> [user, expires_at]
    req,              \* what each worker does
    issued,           \* tokens generated so far
    known,            \* tokens a client has received
    faults,           \* failed statements and crashes so far
    revoked,          \* history: tokens whose removal was reported and met no other request
    usable,           \* history: tokens whose owner nobody has tried to log out since
    unfinished        \* history: logins per user that stopped before they removed the others

caches == <<g_auth_users, g_auth_sessions>>
tables == <<users, user_sessions>>
history == <<revoked, usable, unfinished>>
vars == <<now, tables, caches, req, issued, known, faults, history>>

Idle == [pc |-> "idle", op |-> None, user |-> None, token |-> None, now |-> 0, exp |-> 0,
         quiet |-> {}, solo |-> FALSE]

Empty == [t \in {} |-> None]
Put(f, k, v) == [x \in DOMAIN f \cup {k} |-> IF x = k THEN v ELSE f[x]]
Minus(f, S) == [x \in DOMAIN f \ S |-> f[x]]
Of(f, u) == {t \in DOMAIN f : f[t].user = u}
Entry(u, e) == [user |-> u, expires_at |-> e]

Init ==
    /\ now = 0
    /\ users \in [Users -> {"absent", "enabled"}]
    /\ user_sessions = Empty /\ g_auth_sessions = Empty
    /\ g_auth_users = {u \in Users : users[u] # "absent"}
    /\ req = [w \in Workers |-> Idle]
    /\ issued = {} /\ known = {} /\ faults = 0
    /\ revoked = {} /\ usable = {} /\ unfinished = [u \in Users |-> 0]

Busy(w) == req[w].pc # "idle"
At(w, p) == req[w].pc = p
Move(w, r) == req' = [req EXCEPT ![w] = r]
Goto(w, p) == Move(w, [req[w] EXCEPT !.pc = p])
Return(w) == Move(w, Idle)

\* A statement fails: mysql_query returns non-zero.
Fault == faults < MaxFaults /\ faults' = faults + 1
Ok == UNCHANGED faults
-----------------------------------------------------------------------------
(***************************************************************************)
(* register_user                                                           *)
(***************************************************************************)

\* The rate limiter may refuse, the fields may be invalid, the name may be
\* cached as taken or the password hash may fail: nothing is changed.
register_user(w, u) ==
    /\ ~Busy(w) /\ "register" \in Ops
    /\ u \notin g_auth_users
    /\ Move(w, [Idle EXCEPT !.pc = "insert_user", !.op = "register", !.user = u, !.now = now])
    /\ UNCHANGED <<now, tables, caches, issued, known, faults, history>>

\* INSERT into users; the unique key refuses a name that exists.
insert_user(w) ==
    LET u == req[w].user
    IN  /\ At(w, "insert_user")
        /\ \/ users[u] = "absent" /\ Ok
              /\ users' = [users EXCEPT ![u] = "enabled"] /\ Goto(w, "cache_user")
           \/ users[u] # "absent" /\ Ok /\ UNCHANGED users /\ Return(w)
           \/ Fault /\ UNCHANGED users /\ Return(w)
        /\ UNCHANGED <<now, user_sessions, caches, issued, known, history>>

cache_user(w) ==
    /\ At(w, "cache_user")
    /\ g_auth_users' = g_auth_users \cup {req[w].user}
    /\ Return(w)
    /\ UNCHANGED <<now, tables, g_auth_sessions, issued, known, faults, history>>
-----------------------------------------------------------------------------
(***************************************************************************)
(* login_user                                                              *)
(***************************************************************************)

\* Requests that remove or add sessions of u.
Changing(v, u) == Busy(v) /\ req[v].user = u /\ req[v].op \in {"login", "logout_all"}

\* The password matches a row that is not disabled, and a token is drawn.  A
\* refused login (rate limit, unknown name, wrong password, no entropy) changes
\* nothing.
login_user(w, u, t) ==
    /\ ~Busy(w) /\ "login" \in Ops
    /\ users[u] = "enabled"
    /\ t \in Tokens \ issued
    /\ issued' = issued \cup {t}
    /\ req' = [v \in Workers |->
                  IF v = w THEN [Idle EXCEPT !.pc = "upsert_session", !.op = "login", !.user = u,
                                     !.token = t, !.now = now,
                                     !.solo = \A x \in Workers : ~Changing(x, u)]
                  ELSE IF Changing(v, u) THEN [req[v] EXCEPT !.solo = FALSE] ELSE req[v]]
    /\ UNCHANGED <<now, tables, caches, known, faults, history>>

\* INSERT ... SELECT id FROM users WHERE disabled_at IS NULL
upsert_session(w) ==
    LET r == req[w]
    IN  /\ At(w, "upsert_session")
        /\ \/ users[r.user] = "enabled" /\ Ok /\ Goto(w, "cache_session")
              /\ user_sessions' = Put(user_sessions, r.token, Entry(r.user, now + Ttl))
           \/ users[r.user] # "enabled" /\ Ok /\ Return(w) /\ UNCHANGED user_sessions
           \/ Fault /\ Return(w) /\ UNCHANGED user_sessions
        /\ UNCHANGED <<now, users, caches, issued, known, history>>

\* The second half of persist_session; mark_user_login follows, whatever it
\* returns.
persist_session(w) ==
    LET r == req[w]
    IN  /\ At(w, "cache_session")
        /\ g_auth_sessions' = Put(g_auth_sessions, r.token, Entry(r.user, now + Ttl))
        /\ Goto(w, "forget_others")
        /\ UNCHANGED <<now, tables, g_auth_users, issued, known, faults, history>>

\* The tokens that a removal takes away while no other request works on them.
Undisturbed(w, S) == {t \in S : \A v \in Workers \ {w} : req[v].token # t}

\* remove_user_sessions, first the cache.  After a login every session but the
\* new one goes, after logout_all every session.
remove_user_sessions(w) ==
    LET r == req[w]
        kept == IF r.op = "login" THEN {r.token} ELSE {}
        others == (Of(g_auth_sessions, r.user) \cup Of(user_sessions, r.user)) \ kept
    IN  /\ At(w, "forget_others")
        /\ g_auth_sessions' = Minus(g_auth_sessions, Of(g_auth_sessions, r.user) \ kept)
        /\ Move(w, [r EXCEPT !.pc = "delete_others", !.quiet = Undisturbed(w, others)])
        /\ usable' = usable \ others
        /\ UNCHANGED <<now, tables, g_auth_users, issued, known, faults, revoked, unfinished>>

\* A plausible slip: the new token is not excepted from the DELETE.
DeleteAllSessions(w) ==
    LET r == req[w]
    IN  /\ At(w, "delete_others") /\ Ok
        /\ user_sessions' = Minus(user_sessions, Of(user_sessions, r.user))
        /\ known' = IF r.op = "login" THEN known \cup {r.token} ELSE known
        /\ usable' = IF r.op = "login" /\ r.solo THEN usable \cup {r.token} ELSE usable
        /\ revoked' = revoked \cup r.quiet
        /\ Return(w)
        /\ UNCHANGED <<now, users, caches, issued, unfinished>>

\* A plausible slip: a login reports success without deleting the other rows.
DeleteNothing(w) ==
    LET r == req[w]
    IN  /\ At(w, "delete_others") /\ Ok
        /\ UNCHANGED <<now, tables, caches, issued, unfinished>>
        /\ known' = IF r.op = "login" THEN known \cup {r.token} ELSE known
        /\ usable' = IF r.op = "login" /\ r.solo THEN usable \cup {r.token} ELSE usable
        /\ revoked' = revoked \cup r.quiet
        /\ Return(w)

\* Then the table.  Only now is the login or the logout reported as done; a
\* login that cannot remove the others takes its own session back.
delete_user_sessions(w) ==
    LET r == req[w]
        kept == IF r.op = "login" THEN {r.token} ELSE {}
    IN  /\ At(w, "delete_others")
        /\ \/ /\ Ok
              /\ user_sessions' = Minus(user_sessions, Of(user_sessions, r.user) \ kept)
              /\ known' = known \cup kept
              /\ usable' = IF r.solo /\ users[r.user] = "enabled" THEN usable \cup kept ELSE usable
              /\ revoked' = revoked \cup r.quiet
              /\ Return(w)
              /\ UNCHANGED unfinished
           \/ /\ Fault
              /\ IF r.op = "login"
                 THEN /\ Goto(w, "forget")
                      /\ unfinished' = [unfinished EXCEPT ![r.user] = @ + 1]
                 ELSE Return(w) /\ UNCHANGED unfinished
              /\ UNCHANGED <<user_sessions, known, usable, revoked>>
        /\ UNCHANGED <<now, users, caches, issued>>
-----------------------------------------------------------------------------
(***************************************************************************)
(* lookup_session, called by the router before every private request       *)
(***************************************************************************)

\* The token is good: a private request goes on, a logout starts to remove.
\* Logins of the same user that are under way are no longer alone.
Accepted(w, r, q) ==
    IF r.op = "access" THEN [q EXCEPT ![w] = Idle]
    ELSE [v \in Workers |->
             IF v = w THEN [r EXCEPT !.pc = IF r.op = "logout" THEN "forget" ELSE "forget_others"]
             ELSE IF r.op = "logout_all" /\ Changing(v, r.user)
                  THEN [q[v] EXCEPT !.solo = FALSE] ELSE q[v]]

Accept(w, r) == req' = Accepted(w, r, req)
Disturb(t) == [v \in Workers |-> [req[v] EXCEPT !.quiet = @ \ {t}]]

\* A client presents a token it once received: the first critical section finds
\* a hit, a hit that is about to expire, an expired entry (erased) or a miss.  A
\* removal of that token which is under way no longer runs undisturbed.
lookup_session(w, op, t) ==
    LET hit == t \in DOMAIN g_auth_sessions
        entry == g_auth_sessions[t]
        r == [Idle EXCEPT !.op = op, !.token = t, !.now = now,
                          !.user = IF hit /\ entry.expires_at > now THEN entry.user ELSE None]
    IN  /\ ~Busy(w) /\ op \in Ops \ {"register", "login"}
        /\ t \in known
        /\ \/ /\ hit /\ entry.expires_at > now + Threshold
              /\ req' = Accepted(w, r, Disturb(t))
              /\ UNCHANGED g_auth_sessions
           \/ /\ hit /\ entry.expires_at > now /\ entry.expires_at <= now + Threshold
              /\ req' = [Disturb(t) EXCEPT ![w] = [r EXCEPT !.pc = "refresh"]]
              /\ UNCHANGED g_auth_sessions
           \/ /\ hit => entry.expires_at <= now
              /\ req' = [Disturb(t) EXCEPT ![w] = [r EXCEPT !.pc = "find"]]
              /\ g_auth_sessions' = Minus(g_auth_sessions, {t})
        /\ UNCHANGED <<now, tables, g_auth_users, issued, known, faults, history>>

\* UPDATE user_sessions ... WHERE: the rows it matches.
refresh_matches(t, u) ==
    /\ t \in DOMAIN user_sessions
    /\ user_sessions[t].user = u
    /\ user_sessions[t].expires_at > now
    /\ users[u] = "enabled"

\* refresh_session.  An UPDATE that leaves the value as it was counts as no
\* affected row.  "refresh" follows a cache hit, "refresh_found" a row that was
\* just read, whose result is ignored.
refresh_session(w) ==
    LET r == req[w]
        renewed == refresh_matches(r.token, r.user)
                   /\ user_sessions[r.token].expires_at # now + Ttl
    IN  /\ r.pc \in {"refresh", "refresh_found"}
        /\ \/ /\ renewed /\ Ok
              /\ user_sessions' = [user_sessions EXCEPT ![r.token].expires_at = now + Ttl]
              /\ Goto(w, "cache_refreshed")
           \/ /\ ~renewed /\ Ok /\ UNCHANGED user_sessions
              /\ IF r.pc = "refresh" THEN Goto(w, "erase") ELSE Accept(w, r)
           \/ /\ Fault /\ UNCHANGED user_sessions
              /\ IF r.pc = "refresh" THEN Goto(w, "erase") ELSE Accept(w, r)
        /\ UNCHANGED <<now, users, caches, issued, known, history>>

cache_refreshed(w) ==
    LET r == req[w]
    IN  /\ At(w, "cache_refreshed")
        /\ g_auth_sessions' = Put(g_auth_sessions, r.token, Entry(r.user, now + Ttl))
        /\ Accept(w, r)
        /\ UNCHANGED <<now, tables, g_auth_users, issued, known, faults, history>>

\* The refresh after a hit failed: the entry goes and the table decides.
erase_entry(w) ==
    /\ At(w, "erase")
    /\ g_auth_sessions' = Minus(g_auth_sessions, {req[w].token})
    /\ Goto(w, "find")
    /\ UNCHANGED <<now, tables, g_auth_users, issued, known, faults, history>>

\* find_active_session; a failure of the query is treated like a missing row.
find_active_session(w) ==
    LET r == req[w]
        active == /\ r.token \in DOMAIN user_sessions
                  /\ user_sessions[r.token].expires_at > now
                  /\ users[user_sessions[r.token].user] = "enabled"
        row == user_sessions[r.token]
    IN  /\ At(w, "find")
        /\ \/ active /\ Ok /\ UNCHANGED usable
              /\ Move(w, [r EXCEPT !.pc = "cache_found", !.user = row.user, !.exp = row.expires_at])
           \/ ~active /\ Ok /\ Goto(w, "cleanup") /\ UNCHANGED usable
           \/ Fault /\ Goto(w, "cleanup") /\ usable' = usable \ {r.token}
        /\ UNCHANGED <<now, tables, caches, issued, known, revoked, unfinished>>

\* A plausible slip: a row that was found is cached with a lifetime of its own.
CacheFoundAnew(w) ==
    LET r == req[w]
    IN  /\ At(w, "cache_found")
        /\ g_auth_sessions' = Put(g_auth_sessions, r.token, Entry(r.user, now + Ttl))
        /\ IF r.exp <= r.now + Threshold THEN Goto(w, "refresh_found") ELSE Accept(w, r)
        /\ UNCHANGED <<now, tables, g_auth_users, issued, known, faults, history>>

cache_found(w) ==
    LET r == req[w]
    IN  /\ At(w, "cache_found")
        /\ g_auth_sessions' = Put(g_auth_sessions, r.token, Entry(r.user, r.exp))
        /\ IF r.exp <= r.now + Threshold THEN Goto(w, "refresh_found") ELSE Accept(w, r)
        /\ UNCHANGED <<now, tables, g_auth_users, issued, known, faults, history>>

\* DELETE ... WHERE token = ... OR expires_at <= NOW(); the answer is 401.
cleanup_session_token_or_expired(w) ==
    /\ At(w, "cleanup")
    /\ \/ /\ Ok
          /\ user_sessions' = Minus(user_sessions, {req[w].token} \cup
                        {t \in DOMAIN user_sessions : user_sessions[t].expires_at <= now})
       \/ Fault /\ UNCHANGED user_sessions
    /\ Return(w)
    /\ UNCHANGED <<now, users, caches, issued, known, history>>
-----------------------------------------------------------------------------
(***************************************************************************)
(* logout of one session                                                   *)
(***************************************************************************)

\* A plausible slip: remove_session leaves the entry in the cache.
KeepCached(w) ==
    /\ At(w, "forget")
    /\ Move(w, [req[w] EXCEPT !.pc = "delete", !.quiet = Undisturbed(w, {req[w].token})])
    /\ usable' = usable \ {req[w].token}
    /\ UNCHANGED <<now, tables, caches, issued, known, faults, revoked, unfinished>>

remove_session(w) ==
    LET t == req[w].token
    IN  /\ At(w, "forget")
        /\ g_auth_sessions' = Minus(g_auth_sessions, {t})
        /\ Move(w, [req[w] EXCEPT !.pc = "delete", !.quiet = Undisturbed(w, {t})])
        /\ usable' = usable \ {t}
        /\ UNCHANGED <<now, tables, g_auth_users, issued, known, faults, revoked, unfinished>>

delete_session(w) ==
    /\ At(w, "delete")
    /\ \/ /\ Ok
          /\ user_sessions' = Minus(user_sessions, {req[w].token})
          /\ revoked' = revoked \cup req[w].quiet
       \/ Fault /\ UNCHANGED <<user_sessions, revoked>>
    /\ Return(w)
    /\ UNCHANGED <<now, users, caches, issued, known, usable, unfinished>>
-----------------------------------------------------------------------------
(***************************************************************************)
(* Time, administration and crashes                                        *)
(***************************************************************************)

\* Bound: a request takes at most one tick.
MaxSpan == 1

\* A session lives longer than a request takes.
ASSUME SpanAssumption == MaxSpan < Ttl

Tick ==
    /\ now < MaxTime
    /\ \A w \in Workers : Busy(w) => now < req[w].now + MaxSpan
    /\ now' = now + 1
    /\ usable' = {t \in usable : user_sessions[t].expires_at > now + 1}
    /\ UNCHANGED <<tables, caches, req, issued, known, faults, revoked, unfinished>>

\* disabled_at is set by an administrator, in SQL.
Disable(u) ==
    /\ users[u] = "enabled"
    /\ users' = [users EXCEPT ![u] = "disabled"]
    /\ usable' = usable \ Of(user_sessions, u)
    /\ UNCHANGED <<now, user_sessions, caches, req, issued, known, faults, revoked, unfinished>>

\* load_user_cache: the process starts again with an empty session cache.
load_user_cache ==
    /\ Fault
    /\ g_auth_users' = {u \in Users : users[u] # "absent"}
    /\ g_auth_sessions' = Empty
    /\ req' = [w \in Workers |-> Idle]
    /\ unfinished' = [u \in Users |-> unfinished[u]
          + Cardinality({w \in Workers : req[w].user = u /\ req[w].op = "login" /\ Busy(w)})]
    /\ UNCHANGED <<now, tables, issued, known, revoked, usable>>
-----------------------------------------------------------------------------
Next ==
    \/ \E w \in Workers :
        \/ \E u \in Users : register_user(w, u)
        \/ insert_user(w)
        \/ cache_user(w)
        \/ \E u \in Users, t \in Tokens : login_user(w, u, t)
        \/ upsert_session(w)
        \/ persist_session(w)
        \/ remove_user_sessions(w)
        \/ delete_user_sessions(w)
        \/ \E op \in AllOps, t \in Tokens : lookup_session(w, op, t)
        \/ refresh_session(w)
        \/ cache_refreshed(w)
        \/ erase_entry(w)
        \/ find_active_session(w)
        \/ cache_found(w)
        \/ cleanup_session_token_or_expired(w)
        \/ remove_session(w)
        \/ delete_session(w)
    \/ Tick
    \/ \E u \in Users : Disable(u)
    \/ load_user_cache

Spec == Init /\ [][Next]_vars
-----------------------------------------------------------------------------
(***************************************************************************)
(* Properties                                                              *)
(***************************************************************************)

\* A token whose removal was reported as done, by logout or by a later login,
\* while no other request carried it, is neither in the table nor in the cache
\* of lookup_session, ever again: table and cache are cleared in two steps, and a
\* lookup between them is what could bring a session back.
RevokedStaysOut ==
    revoked \cap (DOMAIN user_sessions \cup DOMAIN g_auth_sessions) = {}

\* login_user leaves one session per user: more rows exist only while logins are
\* under way or after one stopped half-way, at most one row for each.
OneSessionPerUser ==
    \A u \in Users :
        Cardinality(Of(user_sessions, u)) <= 1 + unfinished[u]
            + Cardinality({w \in Workers : Busy(w) /\ req[w].op = "login" /\ req[w].user = u})

\* The token of a login that met no other login or logout_all of its user keeps
\* its row until it expires, is logged out, its user is disabled or a query for
\* it fails: refreshes and the clean-up that other lookups do never take it.
LoginUsable == usable \subseteq DOMAIN user_sessions

\* A cached session outlives its row by no more than one request takes, so that
\* the cache of lookup_session does not keep a session alive that the table lets
\* expire.
CacheNotAhead ==
    \A t \in DOMAIN g_auth_sessions \cap DOMAIN user_sessions :
        g_auth_sessions[t].expires_at <= user_sessions[t].expires_at + MaxSpan
=============================================================================
