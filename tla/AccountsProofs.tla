--------------------------- MODULE AccountsProofs ---------------------------
(***************************************************************************)
(* What service/auth promises of sessions, for any number of workers,      *)
(* users and tokens: a revoked token stays out, the cache does not run     *)
(* ahead of the table, a login stays usable and a user has one session.    *)
(* All four rest on Base, an inductive invariant: types, what a request    *)
(* carries at each point and whose each token is.                          *)
(***************************************************************************)
EXTENDS Accounts, Integers, TLAPS

\* Leaves go to Zenon, unless they name SMT or PTL.
USE ZenonT(60)

PCs == {"idle", "insert_user", "cache_user", "upsert_session", "cache_session", "forget_others",
        "delete_others", "refresh", "refresh_found", "cache_refreshed", "erase", "find",
        "cache_found", "cleanup", "forget", "delete"}
LookupPCs == {"refresh", "refresh_found", "cache_refreshed", "erase", "find", "cache_found",
              "cleanup"}

Requests == [pc : PCs, op : AllOps \cup {None}, user : Users \cup {None},
             token : Tokens \cup {None}, now : Nat, exp : Nat, quiet : SUBSET Tokens,
             solo : BOOLEAN]
Sessions == [user : Users, expires_at : Nat]

\* A table of sessions whose tokens are in T.
IsTable(f, T) == f \in [DOMAIN f -> Sessions] /\ DOMAIN f \subseteq T

Types ==
    /\ now \in Nat
    /\ users \in [Users -> {"absent", "enabled", "disabled"}]
    /\ IsTable(user_sessions, issued) /\ IsTable(g_auth_sessions, issued)
    /\ issued \subseteq Tokens /\ known \subseteq issued
    /\ revoked \subseteq issued /\ usable \subseteq issued
    /\ req \in [Workers -> Requests]

\* What a request carries at each control point.
Carries(r) ==
    /\ r.token \in issued \cup {None} /\ r.quiet \subseteq issued
    /\ r.pc = "idle" => r.token = None
    /\ r.pc \in {"insert_user", "cache_user"} => r.op = "register" /\ r.user \in Users
    /\ r.pc \in {"upsert_session", "cache_session"} => r.op = "login"
    /\ r.pc \in {"forget_others", "delete_others"} => r.op \in {"login", "logout_all"}
    /\ r.pc \in {"forget", "delete"} => r.op \in {"login", "logout"}
    /\ r.pc \in LookupPCs => r.op \in {"access", "logout", "logout_all"}
    /\ r.pc \notin {"idle", "insert_user", "cache_user"} => r.token \in issued
    /\ r.pc \in {"upsert_session", "cache_session", "forget_others", "delete_others",
                 "refresh", "refresh_found", "cache_refreshed", "cache_found"} => r.user \in Users
    /\ r.pc # "idle" /\ r.op = "login" => r.user \in Users /\ r.token \in issued \ known
    /\ r.pc # "idle" /\ r.op \in {"access", "logout", "logout_all"} => r.token \in known
    /\ r.pc = "upsert_session" => r.token \notin DOMAIN user_sessions
    /\ r.pc \in {"upsert_session", "cache_session"} => r.token \notin DOMAIN g_auth_sessions

\* A token is not shared before the login that drew it is reported.
Alone(w) ==
    req[w].pc # "idle" /\ req[w].op = "login" =>
        \A v \in Workers \ {w} : req[v].token # req[w].token

Shape == \A w \in Workers : Carries(req[w]) /\ Alone(w)

\* own says whose each token is; row, entry and requests agree on it.
OwnedBy(own) ==
    /\ \A t \in DOMAIN user_sessions : user_sessions[t].user = own[t]
    /\ \A t \in DOMAIN g_auth_sessions : g_auth_sessions[t].user = own[t]
    /\ \A w \in Workers :
        req[w].token \in Tokens /\ req[w].user \in Users => req[w].user = own[req[w].token]

Owned == \E own \in [Tokens -> Users \cup {None}] : OwnedBy(own)

Base == Types /\ Shape /\ Owned
-----------------------------------------------------------------------------
(***************************************************************************)
(* The operators                                                           *)
(***************************************************************************)

LEMMA EntryType ==
    ASSUME NEW u \in Users, NEW e \in Nat
    PROVE  Entry(u, e) \in Sessions /\ Entry(u, e).user = u /\ Entry(u, e).expires_at = e
  BY DEF Entry, Sessions

LEMMA IdleType ==
    /\ Idle \in Requests
    /\ Idle.pc = "idle" /\ Idle.token = None /\ Idle.user = None /\ Idle.quiet = {}
  BY DEF Idle, Requests, PCs

\* What a step of one request does to another: it may disturb its removals.
Kept(v) ==
    /\ req'[v].pc = req[v].pc /\ req'[v].op = req[v].op /\ req'[v].user = req[v].user
    /\ req'[v].token = req[v].token /\ req'[v].now = req[v].now /\ req'[v].exp = req[v].exp
    /\ req'[v].quiet \subseteq req[v].quiet
    /\ req'[v].solo => req[v].solo
Others(w) == req' \in [Workers -> Requests] /\ \A v \in Workers \ {w} : Kept(v)

\* What w carries on from one control point to the next.
Carried(w) ==
    /\ req'[w].op = req[w].op /\ req'[w].user = req[w].user /\ req'[w].token = req[w].token
    /\ req'[w].now = req[w].now /\ req'[w].exp = req[w].exp
    /\ req'[w].quiet = req[w].quiet /\ req'[w].solo = req[w].solo

LEMMA MoveStep ==
    ASSUME Types, NEW w \in Workers, NEW r \in Requests, Move(w, r)
    PROVE  Others(w) /\ req'[w] = r
  BY DEF Types, Move, Others, Kept

LEMMA GotoType ==
    ASSUME NEW q \in Requests, NEW p \in PCs
    PROVE  LET r == [q EXCEPT !.pc = p]
           IN  /\ r \in Requests /\ r.pc = p /\ r.op = q.op /\ r.user = q.user
               /\ r.token = q.token /\ r.now = q.now /\ r.exp = q.exp /\ r.quiet = q.quiet
               /\ r.solo = q.solo
  BY DEF Requests

LEMMA GotoStep ==
    ASSUME Types, NEW w \in Workers, NEW p \in PCs, Goto(w, p)
    PROVE  Others(w) /\ req'[w].pc = p /\ Carried(w)
<1> DEFINE r == [req[w] EXCEPT !.pc = p]
<1>1. r \in Requests
  BY DEF Types, Requests
<1>2. /\ r.pc = p /\ r.op = req[w].op /\ r.user = req[w].user /\ r.token = req[w].token
      /\ r.now = req[w].now /\ r.exp = req[w].exp /\ r.quiet = req[w].quiet
      /\ r.solo = req[w].solo
  BY DEF Types, Requests
<1>3. Move(w, r)
  BY DEF Goto
<1> HIDE DEF r
<1>4. Others(w) /\ req'[w] = r
  BY <1>1, <1>3, MoveStep
<1>5. QED  BY <1>2, <1>4 DEF Carried

LEMMA ReturnStep ==
    ASSUME Types, NEW w \in Workers, Return(w)
    PROVE  Others(w) /\ req'[w] = Idle
  BY MoveStep, IdleType DEF Return

\* The removal of a user's other sessions, or of one session, notes what it
\* takes away undisturbed.
LEMMA QuietStep ==
    ASSUME Types, NEW w \in Workers, NEW p \in PCs, NEW S \in SUBSET Tokens,
           Move(w, [req[w] EXCEPT !.pc = p, !.quiet = S])
    PROVE  /\ Others(w) /\ req'[w].pc = p /\ req'[w].quiet = S
           /\ req'[w].op = req[w].op /\ req'[w].user = req[w].user
           /\ req'[w].token = req[w].token /\ req'[w].now = req[w].now
           /\ req'[w].solo = req[w].solo
<1> DEFINE r == [req[w] EXCEPT !.pc = p, !.quiet = S]
<1>1. r \in Requests
  BY DEF Types, Requests
<1>2. /\ r.pc = p /\ r.op = req[w].op /\ r.user = req[w].user /\ r.token = req[w].token
      /\ r.now = req[w].now /\ r.quiet = S /\ r.solo = req[w].solo
  BY DEF Types, Requests
<1>3. Move(w, r)
  OBVIOUS
<1> HIDE DEF r
<1>4. Others(w) /\ req'[w] = r
  BY <1>1, <1>3, MoveStep
<1>5. QED  BY <1>2, <1>4

\* find_active_session keeps what it read of the row.
\* What w carries on from a row that it found.
Finds(w, u, e) ==
    /\ Others(w) /\ req'[w].pc = "cache_found" /\ req'[w].user = u /\ req'[w].exp = e
    /\ req'[w].op = req[w].op /\ req'[w].token = req[w].token
    /\ req'[w].now = req[w].now /\ req'[w].quiet = req[w].quiet

LEMMA FoundStep ==
    ASSUME Types, NEW w \in Workers, NEW u \in Users, NEW e \in Nat,
           Move(w, [req[w] EXCEPT !.pc = "cache_found", !.user = u, !.exp = e])
    PROVE  Finds(w, u, e)
<1> DEFINE r == [req[w] EXCEPT !.pc = "cache_found", !.user = u, !.exp = e]
<1>1. /\ r \in Requests
      /\ r.pc = "cache_found" /\ r.op = req[w].op /\ r.user = u /\ r.token = req[w].token
      /\ r.now = req[w].now /\ r.exp = e /\ r.quiet = req[w].quiet
  <2>1. ASSUME NEW q \in Requests, NEW p \in PCs
        PROVE  LET s == [q EXCEPT !.pc = p, !.user = u, !.exp = e]
               IN  /\ s \in Requests /\ s.pc = p /\ s.op = q.op /\ s.user = u
                   /\ s.token = q.token /\ s.now = q.now /\ s.exp = e /\ s.quiet = q.quiet
    BY <2>1 DEF Requests
  <2>2. req[w] \in Requests /\ "cache_found" \in PCs
    BY DEF Types, PCs
  <2>3. QED  BY <2>1, <2>2
<1>2. Move(w, r)
  OBVIOUS
<1> HIDE DEF r
<1>3. Others(w) /\ req'[w] = r
  BY <1>1, <1>2, MoveStep
<1>4. QED  BY <1>1, <1>3 DEF Finds

\* A request other than w after w was accepted.
LEMMA AcceptStep ==
    ASSUME Types, NEW w \in Workers, NEW r \in Requests, NEW q \in [Workers -> Requests],
           r.op \in {"access", "logout", "logout_all"},
           \A v \in Workers \ {w} :
              /\ q[v].pc = req[v].pc /\ q[v].op = req[v].op /\ q[v].user = req[v].user
              /\ q[v].token = req[v].token /\ q[v].now = req[v].now /\ q[v].exp = req[v].exp
              /\ q[v].quiet \subseteq req[v].quiet /\ q[v].solo = req[v].solo,
           req' = Accepted(w, r, q)
    PROVE  /\ Others(w)
           /\ r.op = "access" => req'[w] = Idle
           /\ r.op # "access" =>
                /\ req'[w].pc = IF r.op = "logout" THEN "forget" ELSE "forget_others"
                /\ req'[w].op = r.op /\ req'[w].user = r.user /\ req'[w].token = r.token
                /\ req'[w].now = r.now /\ req'[w].quiet = r.quiet
           /\ r.op = "logout_all" =>
                \A v \in Workers \ {w} : Changing(v, r.user) => ~req'[v].solo
           /\ \A v \in Workers \ {w} : req'[v].quiet = q[v].quiet
<1>1. CASE r.op = "access"
  <2>1. req' = [q EXCEPT ![w] = Idle]
    BY <1>1 DEF Accepted
  <2>2. Others(w) /\ req'[w] = Idle
    BY <2>1, IdleType, SMTT(60) DEF Others, Kept
  <2>3. QED  BY <1>1, <2>1, <2>2
<1>2. CASE r.op # "access"
  <2> DEFINE s == [r EXCEPT !.pc = IF r.op = "logout" THEN "forget" ELSE "forget_others"]
             z(v) == [q[v] EXCEPT !.solo = FALSE]
  <2>1. /\ s \in Requests
        /\ s.pc = IF r.op = "logout" THEN "forget" ELSE "forget_others"
        /\ s.op = r.op /\ s.user = r.user /\ s.token = r.token
        /\ s.now = r.now /\ s.quiet = r.quiet
    BY DEF Requests, PCs
  <2>2. \A v \in Workers :
           /\ z(v) \in Requests
           /\ z(v).pc = q[v].pc /\ z(v).op = q[v].op /\ z(v).user = q[v].user
           /\ z(v).token = q[v].token /\ z(v).now = q[v].now /\ z(v).exp = q[v].exp
           /\ z(v).quiet = q[v].quiet /\ z(v).solo = FALSE
    BY DEF Requests
  <2>3. req' = [v \in Workers |-> IF v = w THEN s
                  ELSE IF r.op = "logout_all" /\ Changing(v, r.user) THEN z(v) ELSE q[v]]
    BY <1>2 DEF Accepted
  <2> HIDE DEF s, z
  <2>4. req' \in [Workers -> Requests] /\ req'[w] = s
    BY <2>1, <2>2, <2>3
  <2>5. ASSUME NEW v \in Workers \ {w}
        PROVE  /\ Kept(v) /\ req'[v].quiet = q[v].quiet
               /\ r.op = "logout_all" /\ Changing(v, r.user) => ~req'[v].solo
    <3>1. req'[v] = IF r.op = "logout_all" /\ Changing(v, r.user) THEN z(v) ELSE q[v]
      BY <2>3
    <3>2. QED  BY <2>2, <3>1, SMTT(60) DEF Kept
  <2>6. QED  BY <1>2, <2>1, <2>4, <2>5 DEF Others
<1>3. QED  BY <1>1, <1>2

\* A login begins; requests that change the user's sessions are not alone then.
LEMMA LoginStep ==
    ASSUME Types, NEW w \in Workers, NEW u \in Users, NEW t \in Tokens, login_user(w, u, t)
    PROVE  /\ Others(w) /\ req'[w].pc = "upsert_session" /\ req'[w].op = "login"
           /\ req'[w].user = u /\ req'[w].token = t /\ req'[w].now = now /\ req'[w].quiet = {}
           /\ req'[w].solo => \A v \in Workers : ~Changing(v, u)
           /\ \A v \in Workers \ {w} : Changing(v, u) => ~req'[v].solo
<1> DEFINE alone == \A v \in Workers : ~Changing(v, u)
           s == [Idle EXCEPT !.pc = "upsert_session", !.op = "login", !.user = u,
                             !.token = t, !.now = now, !.solo = alone]
           z(v) == [req[v] EXCEPT !.solo = FALSE]
<1>0. alone \in BOOLEAN /\ now \in Nat
  BY DEF Types
<1>1. s \in Requests
  <2> HIDE DEF alone
  <2>1. QED  BY <1>0 DEF Idle, Requests, PCs, AllOps
<1>2. /\ s.pc = "upsert_session" /\ s.op = "login" /\ s.user = u /\ s.token = t /\ s.now = now
      /\ s.quiet = {} /\ s.solo = alone
  <2> HIDE DEF alone
  <2>1. QED  BY DEF Idle
<1>3. \A v \in Workers :
         /\ z(v) \in Requests
         /\ z(v).pc = req[v].pc /\ z(v).op = req[v].op /\ z(v).user = req[v].user
         /\ z(v).token = req[v].token /\ z(v).now = req[v].now /\ z(v).exp = req[v].exp
         /\ z(v).quiet = req[v].quiet /\ z(v).solo = FALSE
  BY DEF Requests, Types
<1>4. req' = [v \in Workers |-> IF v = w THEN s ELSE IF Changing(v, u) THEN z(v) ELSE req[v]]
  BY DEF login_user
<1> HIDE DEF s, z
<1>5. req' \in [Workers -> Requests] /\ req'[w] = s
  BY <1>1, <1>3, <1>4 DEF Types
<1>6. \A v \in Workers \ {w} : Kept(v) /\ (Changing(v, u) => ~req'[v].solo)
  <2> SUFFICES ASSUME NEW v \in Workers \ {w}
               PROVE  Kept(v) /\ (Changing(v, u) => ~req'[v].solo)
    OBVIOUS
  <2>1. req'[v] = IF Changing(v, u) THEN z(v) ELSE req[v]
    BY <1>4
  <2>2. QED  BY <1>3, <2>1 DEF Kept
<1>7. req'[w].solo => \A v \in Workers : ~Changing(v, u)
  BY <1>2, <1>5
<1>8. QED  BY <1>2, <1>5, <1>6, <1>7 DEF Others

\* The outcomes of the first critical section of lookup_session.
Hit(w, op, t) ==
    /\ t \in DOMAIN g_auth_sessions /\ g_auth_sessions' = g_auth_sessions
    /\ op = "access" => req'[w] = Idle
    /\ op # "access" =>
        /\ req'[w].pc = IF op = "logout" THEN "forget" ELSE "forget_others"
        /\ req'[w].op = op /\ req'[w].token = t /\ req'[w].now = now
        /\ req'[w].user = g_auth_sessions[t].user /\ req'[w].quiet = {}
    /\ op = "logout_all" =>
        \A v \in Workers \ {w} : Changing(v, g_auth_sessions[t].user) => ~req'[v].solo
HitExpiring(w, op, t) ==
    /\ t \in DOMAIN g_auth_sessions /\ g_auth_sessions' = g_auth_sessions
    /\ req'[w].pc = "refresh" /\ req'[w].op = op /\ req'[w].token = t /\ req'[w].now = now
    /\ req'[w].user = g_auth_sessions[t].user /\ req'[w].quiet = {}
Miss(w, op, t) ==
    /\ g_auth_sessions' = Minus(g_auth_sessions, {t})
    /\ req'[w].pc = "find" /\ req'[w].op = op /\ req'[w].token = t /\ req'[w].now = now
    /\ req'[w].user = None /\ req'[w].quiet = {}

LEMMA LookupStep ==
    ASSUME Types, NEW w \in Workers, NEW op \in AllOps, NEW t \in Tokens, lookup_session(w, op, t)
    PROVE  /\ Others(w) /\ op \in {"access", "logout", "logout_all"} /\ t \in known
           /\ \A v \in Workers \ {w} : t \notin req'[v].quiet
           /\ Hit(w, op, t) \/ HitExpiring(w, op, t) \/ Miss(w, op, t)
<1> DEFINE hit == t \in DOMAIN g_auth_sessions
           entry == g_auth_sessions[t]
           user == IF hit /\ entry.expires_at > now THEN entry.user ELSE None
           r == [Idle EXCEPT !.op = op, !.token = t, !.now = now, !.user = user]
           z(v) == [req[v] EXCEPT !.quiet = @ \ {t}]
           q == [v \in Workers |-> z(v)]
<1>1. op \in {"access", "logout", "logout_all"} /\ t \in known
  BY DEF lookup_session, AllOps
<1>2. user \in Users \cup {None} /\ now \in Nat
  BY DEF Types, IsTable, Sessions
<1>3. r \in Requests
  <2> HIDE DEF user
  <2>1. QED  BY <1>2 DEF Idle, Requests, PCs
<1>4. r.op = op /\ r.token = t /\ r.now = now /\ r.user = user /\ r.quiet = {}
  <2> HIDE DEF user
  <2>1. QED  BY DEF Idle
<1>5. \A v \in Workers :
         /\ z(v) \in Requests
         /\ z(v).pc = req[v].pc /\ z(v).op = req[v].op /\ z(v).user = req[v].user
         /\ z(v).token = req[v].token /\ z(v).now = req[v].now /\ z(v).exp = req[v].exp
         /\ z(v).solo = req[v].solo /\ z(v).quiet = req[v].quiet \ {t}
  <2> SUFFICES ASSUME NEW v \in Workers
               PROVE  /\ z(v) \in Requests
                      /\ z(v).pc = req[v].pc /\ z(v).op = req[v].op /\ z(v).user = req[v].user
                      /\ z(v).token = req[v].token /\ z(v).now = req[v].now
                      /\ z(v).exp = req[v].exp
                      /\ z(v).solo = req[v].solo /\ z(v).quiet = req[v].quiet \ {t}
    OBVIOUS
  <2>1. req[v] \in Requests
    BY DEF Types
  <2> DEFINE s == req[v].quiet \ {t}
  <2>2. s \in SUBSET Tokens
    BY <2>1 DEF Requests
  <2>3. z(v) = [req[v] EXCEPT !.quiet = s]
    BY <2>1 DEF Requests
  <2> HIDE DEF s
  <2>4. [req[v] EXCEPT !.quiet = s] \in Requests
    BY <2>1, <2>2 DEF Requests
  <2>5. QED  BY <2>1, <2>3, <2>4 DEF Requests, s
<1>6. q \in [Workers -> Requests] /\ \A v \in Workers : q[v] = z(v)
  BY <1>5
<1>7. Disturb(t) = q
  BY DEF Disturb
<1>8. \/ hit /\ entry.expires_at > now + Threshold /\ req' = Accepted(w, r, q)
         /\ UNCHANGED g_auth_sessions
      \/ hit /\ entry.expires_at > now /\ req' = [q EXCEPT ![w] = [r EXCEPT !.pc = "refresh"]]
         /\ UNCHANGED g_auth_sessions
      \/ (hit => entry.expires_at <= now) /\ req' = [q EXCEPT ![w] = [r EXCEPT !.pc = "find"]]
         /\ g_auth_sessions' = Minus(g_auth_sessions, {t})
  BY <1>7 DEF lookup_session
<1>9. ASSUME NEW p \in PCs
      PROVE  LET s == [r EXCEPT !.pc = p]
             IN  /\ s \in Requests /\ s.pc = p /\ s.op = op /\ s.token = t /\ s.now = now
                 /\ s.user = user /\ s.quiet = {}
  <2> HIDE DEF r, user
  <2> DEFINE s == [r EXCEPT !.pc = p]
  <2>1. /\ s \in Requests /\ s.pc = p /\ s.op = r.op /\ s.user = r.user
        /\ s.token = r.token /\ s.now = r.now /\ s.quiet = r.quiet
    BY <1>3, GotoType
  <2>2. QED  BY <1>4, <2>1
<1> HIDE DEF z, q
<1>10. ASSUME NEW s \in Requests, req' = [q EXCEPT ![w] = s]
       PROVE  /\ Others(w) /\ req'[w] = s
              /\ \A v \in Workers \ {w} : t \notin req'[v].quiet
  <2>1. req' \in [Workers -> Requests] /\ req'[w] = s /\ \A v \in Workers \ {w} : req'[v] = z(v)
    BY <1>6, <1>10
  <2>2. ASSUME NEW v \in Workers \ {w}
        PROVE  Kept(v) /\ t \notin req'[v].quiet
    BY <1>5, <2>1, <2>2, SMTT(60) DEF Kept
  <2>3. QED  BY <2>1, <2>2 DEF Others
<1>11. CASE hit /\ entry.expires_at > now + Threshold /\ req' = Accepted(w, r, q)
            /\ UNCHANGED g_auth_sessions
  <2>1. user = entry.user
    BY <1>11, AccountAssumption, SMTT(60) DEF AccountAssumption, Types, IsTable, Sessions
  <2> HIDE DEF r
  <2>2. QED  BY <1>1, <1>3, <1>4, <1>5, <1>6, <1>11, <2>1, AcceptStep, SMTT(60) DEF Hit
<1>12. CASE hit /\ entry.expires_at > now /\ req' = [q EXCEPT ![w] = [r EXCEPT !.pc = "refresh"]]
            /\ UNCHANGED g_auth_sessions
  <2> DEFINE s == [r EXCEPT !.pc = "refresh"]
  <2>1. /\ s \in Requests /\ s.pc = "refresh" /\ s.op = op /\ s.token = t /\ s.now = now
        /\ s.user = user /\ s.quiet = {}
    BY <1>9 DEF PCs
  <2>2. /\ Others(w) /\ req'[w] = s
        /\ \A v \in Workers \ {w} : t \notin req'[v].quiet
    BY <1>10, <1>12, <2>1
  <2>3. hit /\ UNCHANGED g_auth_sessions /\ user = g_auth_sessions[t].user
    BY <1>12
  <2> HIDE DEF s, user
  <2>4. HitExpiring(w, op, t)
    BY <2>1, <2>2, <2>3 DEF HitExpiring
  <2>5. QED  BY <1>1, <2>2, <2>4
<1>13. CASE (hit => entry.expires_at <= now) /\ req' = [q EXCEPT ![w] = [r EXCEPT !.pc = "find"]]
            /\ g_auth_sessions' = Minus(g_auth_sessions, {t})
  <2> DEFINE s == [r EXCEPT !.pc = "find"]
  <2>1. /\ s \in Requests /\ s.pc = "find" /\ s.op = op /\ s.token = t /\ s.now = now
        /\ s.user = user /\ s.quiet = {}
    BY <1>9 DEF PCs
  <2>2. /\ Others(w) /\ req'[w] = s
        /\ \A v \in Workers \ {w} : t \notin req'[v].quiet
    BY <1>10, <1>13, <2>1
  <2>3. user = None
    BY <1>13, SMTT(60) DEF Types, IsTable, Sessions
  <2>4. g_auth_sessions' = Minus(g_auth_sessions, {t})
    BY <1>13
  <2> HIDE DEF s, user
  <2>5. Miss(w, op, t)
    BY <2>1, <2>2, <2>3, <2>4 DEF Miss
  <2>6. QED  BY <1>1, <2>2, <2>5
<1>14. QED  BY <1>8, <1>11, <1>12, <1>13

\* A request that was looking its session up is accepted.
AcceptedNow(w) ==
    /\ Others(w)
    /\ req[w].op = "access" => req'[w] = Idle
    /\ req[w].op # "access" =>
        /\ req'[w].pc = IF req[w].op = "logout" THEN "forget" ELSE "forget_others"
        /\ req'[w].op = req[w].op /\ req'[w].user = req[w].user /\ req'[w].token = req[w].token
        /\ req'[w].now = req[w].now /\ req'[w].quiet = req[w].quiet
    /\ req[w].op = "logout_all" =>
        \A v \in Workers \ {w} : Changing(v, req[w].user) => ~req'[v].solo

LEMMA AcceptOwn ==
    ASSUME Types, NEW w \in Workers, req[w].op \in {"access", "logout", "logout_all"},
           Accept(w, req[w])
    PROVE  AcceptedNow(w)
<1>1. req \in [Workers -> Requests] /\ req[w] \in Requests
  BY DEF Types
<1>2. req' = Accepted(w, req[w], req)
  BY DEF Accept
<1>3. QED  BY <1>1, <1>2, AcceptStep DEF AcceptedNow
-----------------------------------------------------------------------------
(***************************************************************************)
(* What each step does, field by field                                     *)
(***************************************************************************)

Ends(w) == Others(w) /\ req'[w] = Idle
Goes(w, p) == Others(w) /\ req'[w].pc = p /\ Carried(w)

\* g is f with the session t of user u, or without the sessions S.
Adds(g, f, t, u, e) ==
    /\ IsTable(g, issued) /\ DOMAIN g = DOMAIN f \cup {t}
    /\ g[t].user = u /\ g[t].expires_at = e
    /\ \A x \in DOMAIN f \ {t} : g[x] = f[x]
Takes(g, f, S) ==
    /\ IsTable(g, issued) /\ DOMAIN g = DOMAIN f \ S
    /\ \A x \in DOMAIN g : g[x] = f[x]

\* Put adds or replaces one session.
LEMMA PutAdds ==
    ASSUME NEW f, IsTable(f, issued), NEW t \in issued, NEW u \in Users, NEW e \in Nat
    PROVE  Adds(Put(f, t, Entry(u, e)), f, t, u, e)
<1> DEFINE v == Entry(u, e)
           g == Put(f, t, v)
<1>1. v \in Sessions /\ v.user = u /\ v.expires_at = e
  BY EntryType
<1> HIDE DEF v
<1>2. /\ IsTable(g, issued) /\ DOMAIN g = DOMAIN f \cup {t} /\ g[t] = v
      /\ \A x \in DOMAIN f \ {t} : g[x] = f[x]
  BY <1>1 DEF IsTable, Put
<1> HIDE DEF g
<1>3. Adds(g, f, t, u, e)
  BY <1>1, <1>2 DEF Adds
<1>4. QED  BY <1>3 DEF g, v

\* Minus removes sessions and leaves the others as they are.
LEMMA MinusTakes ==
    ASSUME NEW f, IsTable(f, issued), NEW S
    PROVE  Takes(Minus(f, S), f, S)
  BY DEF IsTable, Minus, Takes

LEMMA StartStep ==
    ASSUME NEW q \in Requests, NEW p \in PCs, NEW op \in AllOps, NEW u \in Users, NEW n \in Nat
    PROVE  [q EXCEPT !.pc = p, !.op = op, !.user = u, !.now = n] \in Requests
  BY DEF Requests

LEMMA RegisterEffect ==
    ASSUME Types, NEW w \in Workers, NEW u \in Users, register_user(w, u)
    PROVE  /\ Others(w) /\ req'[w].pc = "insert_user" /\ req'[w].op = "register"
           /\ req'[w].user = u /\ req'[w].token = None /\ req'[w].now = now
           /\ req'[w].quiet = {}
<1> DEFINE r == [Idle EXCEPT !.pc = "insert_user", !.op = "register", !.user = u, !.now = now]
<1>1. now \in Nat /\ "insert_user" \in PCs /\ "register" \in AllOps
  BY DEF Types, PCs, AllOps
<1>2. r \in Requests
  BY <1>1, StartStep, IdleType
<1>3. /\ r.pc = "insert_user" /\ r.op = "register" /\ r.user = u /\ r.token = None
      /\ r.now = now /\ r.quiet = {}
  BY DEF Idle
<1>4. Move(w, r)
  BY DEF register_user
<1> HIDE DEF r
<1>5. QED  BY <1>2, <1>3, <1>4, MoveStep

LEMMA InsertUserEffect ==
    ASSUME Types, NEW w \in Workers, insert_user(w)
    PROVE  \/ Goes(w, "cache_user") /\ users[req[w].user] = "absent"
              /\ users' = [users EXCEPT ![req[w].user] = "enabled"]
           \/ Ends(w) /\ UNCHANGED users
  BY GotoStep, ReturnStep DEF insert_user, Goes, Ends, PCs

LEMMA CacheUserEffect ==
    ASSUME Types, NEW w \in Workers, cache_user(w)
    PROVE  Ends(w)
  BY ReturnStep DEF cache_user, Ends

LEMMA UpsertEffect ==
    ASSUME Types, Shape, NEW w \in Workers, upsert_session(w)
    PROVE  \/ Goes(w, "cache_session") /\ users[req[w].user] = "enabled"
              /\ Adds(user_sessions', user_sessions, req[w].token, req[w].user, now + Ttl)
           \/ Ends(w) /\ UNCHANGED user_sessions
<1>1. req[w].token \in issued /\ req[w].user \in Users /\ now + Ttl \in Nat
  BY AccountAssumption, SMTT(60) DEF upsert_session, At, Types, Shape, Carries, AccountAssumption
<1>2. Adds(Put(user_sessions, req[w].token, Entry(req[w].user, now + Ttl)), user_sessions,
           req[w].token, req[w].user, now + Ttl)
  BY <1>1, PutAdds DEF Types
<1>3. QED  BY <1>2, GotoStep, ReturnStep DEF upsert_session, Goes, Ends, PCs

LEMMA PersistEffect ==
    ASSUME Types, Shape, NEW w \in Workers, persist_session(w)
    PROVE  /\ Goes(w, "forget_others")
           /\ Adds(g_auth_sessions', g_auth_sessions, req[w].token, req[w].user, now + Ttl)
<1>1. req[w].token \in issued /\ req[w].user \in Users /\ now + Ttl \in Nat
  BY AccountAssumption, SMTT(60) DEF persist_session, At, Types, Shape, Carries, AccountAssumption
<1>2. Adds(Put(g_auth_sessions, req[w].token, Entry(req[w].user, now + Ttl)), g_auth_sessions,
           req[w].token, req[w].user, now + Ttl)
  BY <1>1, PutAdds DEF Types
<1>3. QED  BY <1>2, GotoStep DEF persist_session, Goes, PCs

\* The session that a login keeps.
Keeps(w) == IF req[w].op = "login" THEN {req[w].token} ELSE {}

LEMMA RemoveOthersEffect ==
    ASSUME Types, NEW w \in Workers, remove_user_sessions(w)
    PROVE  LET S == (Of(g_auth_sessions, req[w].user) \cup Of(user_sessions, req[w].user))
                      \ Keeps(w)
           IN  /\ Others(w) /\ req'[w].pc = "delete_others" /\ req'[w].quiet = Undisturbed(w, S)
               /\ req'[w].op = req[w].op /\ req'[w].user = req[w].user
               /\ req'[w].token = req[w].token /\ req'[w].now = req[w].now
               /\ req'[w].solo = req[w].solo
               /\ usable' = usable \ S
               /\ Takes(g_auth_sessions', g_auth_sessions,
                        Of(g_auth_sessions, req[w].user) \ Keeps(w))
<1> DEFINE S == (Of(g_auth_sessions, req[w].user) \cup Of(user_sessions, req[w].user)) \ Keeps(w)
           Q == Undisturbed(w, S)
<1>1. Q \in SUBSET Tokens
  BY DEF Undisturbed, Of, Types, IsTable
<1>2. /\ Move(w, [req[w] EXCEPT !.pc = "delete_others", !.quiet = Q])
      /\ usable' = usable \ S
      /\ g_auth_sessions' = Minus(g_auth_sessions, Of(g_auth_sessions, req[w].user) \ Keeps(w))
  BY DEF remove_user_sessions, Keeps
<1>3. Takes(g_auth_sessions', g_auth_sessions, Of(g_auth_sessions, req[w].user) \ Keeps(w))
  BY <1>2, MinusTakes DEF Types
<1>4. "delete_others" \in PCs
  BY DEF PCs
<1> HIDE DEF S, Q
<1>5. /\ Others(w) /\ req'[w].pc = "delete_others" /\ req'[w].quiet = Q
      /\ req'[w].op = req[w].op /\ req'[w].user = req[w].user
      /\ req'[w].token = req[w].token /\ req'[w].now = req[w].now
      /\ req'[w].solo = req[w].solo
  BY <1>1, <1>2, <1>4, QuietStep
<1>6. QED  BY <1>2, <1>3, <1>5 DEF S, Q

LEMMA DeleteOthersEffect ==
    ASSUME Types, NEW w \in Workers, delete_user_sessions(w)
    PROVE  \/ /\ Ends(w)
              /\ Takes(user_sessions', user_sessions, Of(user_sessions, req[w].user) \ Keeps(w))
              /\ known' = known \cup Keeps(w)
              /\ usable' = IF req[w].solo /\ users[req[w].user] = "enabled"
                           THEN usable \cup Keeps(w) ELSE usable
              /\ revoked' = revoked \cup req[w].quiet
              /\ UNCHANGED unfinished
           \/ /\ IF req[w].op = "login"
                 THEN /\ Goes(w, "forget")
                      /\ unfinished' = [unfinished EXCEPT ![req[w].user] = @ + 1]
                 ELSE Ends(w) /\ UNCHANGED unfinished
              /\ UNCHANGED <<user_sessions, known, usable, revoked>>
<1> DEFINE S == Of(user_sessions, req[w].user) \ Keeps(w)
<1>1. Takes(Minus(user_sessions, S), user_sessions, S)
  BY MinusTakes DEF Types
<1>2. Return(w) => Ends(w)
  BY ReturnStep DEF Ends
<1>3. Goto(w, "forget") => Goes(w, "forget")
  BY GotoStep DEF Goes, PCs
<1>4. QED  BY <1>1, <1>2, <1>3 DEF delete_user_sessions, Keeps

LEMMA RefreshEffect ==
    ASSUME Types, Shape, NEW w \in Workers, refresh_session(w)
    PROVE  \/ /\ Goes(w, "cache_refreshed")
              /\ refresh_matches(req[w].token, req[w].user)
              /\ Adds(user_sessions', user_sessions, req[w].token, req[w].user, now + Ttl)
           \/ UNCHANGED user_sessions /\ (Goes(w, "erase") \/ AcceptedNow(w))
<1>1. /\ req[w].pc \in {"refresh", "refresh_found"} /\ req[w].user \in Users
      /\ req[w].op \in {"access", "logout", "logout_all"} /\ now + Ttl \in Nat
  BY AccountAssumption, SMTT(60)
     DEF refresh_session, Types, Shape, Carries, LookupPCs, AccountAssumption
<1>2. Goto(w, "cache_refreshed") => Goes(w, "cache_refreshed")
  BY GotoStep DEF Goes, PCs
<1>3. Goto(w, "erase") => Goes(w, "erase")
  BY GotoStep DEF Goes, PCs
<1>4. Accept(w, req[w]) => AcceptedNow(w)
  BY <1>1, AcceptOwn
<1>5. ASSUME refresh_matches(req[w].token, req[w].user),
             user_sessions' = [user_sessions EXCEPT ![req[w].token].expires_at = now + Ttl]
      PROVE  Adds(user_sessions', user_sessions, req[w].token, req[w].user, now + Ttl)
  <2> DEFINE t == req[w].token
             s == [user_sessions[t] EXCEPT !.expires_at = now + Ttl]
  <2>1. t \in DOMAIN user_sessions /\ user_sessions[t] \in Sessions
        /\ user_sessions[t].user = req[w].user
    BY <1>5 DEF refresh_matches, Types, IsTable
  <2>2. s \in Sessions /\ s.user = req[w].user /\ s.expires_at = now + Ttl
    BY <1>1, <2>1 DEF Sessions
  <2>3. user_sessions' = [user_sessions EXCEPT ![t] = s]
    BY <1>5
  <2> HIDE DEF s
  <2>4. QED  BY <2>1, <2>2, <2>3 DEF Adds, Types, IsTable
<1>6. QED  BY <1>2, <1>3, <1>4, <1>5 DEF refresh_session

LEMMA CacheRefreshedEffect ==
    ASSUME Types, Shape, NEW w \in Workers, cache_refreshed(w)
    PROVE  /\ AcceptedNow(w)
           /\ Adds(g_auth_sessions', g_auth_sessions, req[w].token, req[w].user, now + Ttl)
<1>1. /\ req[w].token \in issued /\ req[w].user \in Users /\ now + Ttl \in Nat
      /\ req[w].op \in {"access", "logout", "logout_all"}
  BY AccountAssumption, SMTT(60)
     DEF cache_refreshed, At, Types, Shape, Carries, LookupPCs, AccountAssumption
<1>2. Adds(Put(g_auth_sessions, req[w].token, Entry(req[w].user, now + Ttl)), g_auth_sessions,
           req[w].token, req[w].user, now + Ttl)
  BY <1>1, PutAdds DEF Types
<1>3. QED  BY <1>1, <1>2, AcceptOwn DEF cache_refreshed

LEMMA EraseEffect ==
    ASSUME Types, NEW w \in Workers, erase_entry(w)
    PROVE  Goes(w, "find") /\ Takes(g_auth_sessions', g_auth_sessions, {req[w].token})
  BY GotoStep, MinusTakes DEF erase_entry, Goes, PCs, Types

LEMMA FindEffect ==
    ASSUME Types, NEW w \in Workers, find_active_session(w)
    PROVE  LET t == req[w].token
               active == /\ t \in DOMAIN user_sessions /\ user_sessions[t].expires_at > now
                         /\ users[user_sessions[t].user] = "enabled"
           IN  \/ /\ active /\ UNCHANGED usable
                  /\ Finds(w, user_sessions[t].user, user_sessions[t].expires_at)
               \/ ~active /\ UNCHANGED usable /\ Goes(w, "cleanup")
               \/ usable' = usable \ {t} /\ Goes(w, "cleanup")
<1> DEFINE t == req[w].token
           active == /\ t \in DOMAIN user_sessions /\ user_sessions[t].expires_at > now
                     /\ users[user_sessions[t].user] = "enabled"
           u == user_sessions[t].user
           e == user_sessions[t].expires_at
<1>1. Goto(w, "cleanup") => Goes(w, "cleanup")
  BY GotoStep DEF Goes, PCs
<1>2. \/ active /\ UNCHANGED usable
         /\ Move(w, [req[w] EXCEPT !.pc = "cache_found", !.user = u, !.exp = e])
      \/ ~active /\ UNCHANGED usable /\ Goto(w, "cleanup")
      \/ usable' = usable \ {t} /\ Goto(w, "cleanup")
  BY DEF find_active_session
<1>3. ASSUME active, Move(w, [req[w] EXCEPT !.pc = "cache_found", !.user = u, !.exp = e])
      PROVE  Finds(w, u, e)
  <2>1. u \in Users /\ e \in Nat
    BY <1>3 DEF Types, IsTable, Sessions
  <2> HIDE DEF u, e, active
  <2>2. QED  BY <1>3, <2>1, FoundStep
<1>4. QED  BY <1>1, <1>2, <1>3

LEMMA CacheFoundEffect ==
    ASSUME Types, Shape, NEW w \in Workers, cache_found(w)
    PROVE  /\ Goes(w, "refresh_found") \/ AcceptedNow(w)
           /\ Adds(g_auth_sessions', g_auth_sessions, req[w].token, req[w].user, req[w].exp)
<1>1. /\ req[w].token \in issued /\ req[w].user \in Users /\ req[w].exp \in Nat
      /\ req[w].op \in {"access", "logout", "logout_all"}
  BY DEF cache_found, At, Types, Requests, Shape, Carries, LookupPCs
<1>2. Adds(Put(g_auth_sessions, req[w].token, Entry(req[w].user, req[w].exp)), g_auth_sessions,
           req[w].token, req[w].user, req[w].exp)
  BY <1>1, PutAdds DEF Types
<1>3. Goto(w, "refresh_found") => Goes(w, "refresh_found")
  BY GotoStep DEF Goes, PCs
<1>4. Accept(w, req[w]) => AcceptedNow(w)
  BY <1>1, AcceptOwn
<1>5. QED  BY <1>2, <1>3, <1>4 DEF cache_found

LEMMA CleanupEffect ==
    ASSUME Types, NEW w \in Workers, cleanup_session_token_or_expired(w)
    PROVE  /\ Ends(w)
           /\ \/ Takes(user_sessions', user_sessions, {req[w].token} \cup
                       {t \in DOMAIN user_sessions : user_sessions[t].expires_at <= now})
              \/ UNCHANGED user_sessions
<1> DEFINE S == {req[w].token} \cup
                {t \in DOMAIN user_sessions : user_sessions[t].expires_at <= now}
<1>1. Takes(Minus(user_sessions, S), user_sessions, S)
  BY MinusTakes DEF Types
<1>2. Return(w) => Ends(w)
  BY ReturnStep DEF Ends
<1>3. QED  BY <1>1, <1>2 DEF cleanup_session_token_or_expired

LEMMA RemoveOneEffect ==
    ASSUME Types, NEW w \in Workers, remove_session(w), req[w].token \in issued
    PROVE  /\ Others(w) /\ req'[w].pc = "delete"
           /\ req'[w].quiet = Undisturbed(w, {req[w].token})
           /\ req'[w].op = req[w].op /\ req'[w].user = req[w].user
           /\ req'[w].token = req[w].token /\ req'[w].now = req[w].now
           /\ req'[w].solo = req[w].solo
           /\ Takes(g_auth_sessions', g_auth_sessions, {req[w].token})
<1> DEFINE Q == Undisturbed(w, {req[w].token})
<1>1. Q \in SUBSET Tokens /\ "delete" \in PCs
  BY DEF Undisturbed, Types, PCs
<1>2. /\ Move(w, [req[w] EXCEPT !.pc = "delete", !.quiet = Q])
      /\ g_auth_sessions' = Minus(g_auth_sessions, {req[w].token})
  BY DEF remove_session
<1>3. Takes(g_auth_sessions', g_auth_sessions, {req[w].token})
  BY <1>2, MinusTakes DEF Types
<1> HIDE DEF Q
<1>4. /\ Others(w) /\ req'[w].pc = "delete" /\ req'[w].quiet = Q
      /\ req'[w].op = req[w].op /\ req'[w].user = req[w].user
      /\ req'[w].token = req[w].token /\ req'[w].now = req[w].now
      /\ req'[w].solo = req[w].solo
  BY <1>1, <1>2, QuietStep
<1>5. QED  BY <1>3, <1>4 DEF Q

LEMMA DeleteOneEffect ==
    ASSUME Types, NEW w \in Workers, delete_session(w)
    PROVE  /\ Ends(w)
           /\ \/ /\ Takes(user_sessions', user_sessions, {req[w].token})
                 /\ revoked' = revoked \cup req[w].quiet
              \/ UNCHANGED <<user_sessions, revoked>>
  BY MinusTakes, ReturnStep DEF delete_session, Ends, Types
-----------------------------------------------------------------------------
(***************************************************************************)
(* Base is invariant                                                       *)
(***************************************************************************)

\* The sessions g come from f and from what w carries.
Follows(g, f, w) ==
    \A t \in DOMAIN g :
        \/ t \in DOMAIN f /\ g[t].user = f[t].user
        \/ t = req[w].token /\ req[w].user \in Users /\ g[t].user = req[w].user

\* Where the token and the user that w carries on come from.
Bears(w) ==
    /\ req'[w].token \in {None, req[w].token} \cup known
    /\ req'[w].token \in Tokens /\ req'[w].user \in Users =>
        LET t == req'[w].token
            u == req'[w].user
        IN  \/ t = req[w].token /\ u = req[w].user
            \/ t \in DOMAIN g_auth_sessions /\ u = g_auth_sessions[t].user
            \/ t \in DOMAIN user_sessions /\ u = user_sessions[t].user
    /\ req'[w].pc # "idle" /\ req'[w].op = "login" =>
        req[w].pc # "idle" /\ req[w].op = "login" /\ req'[w].token = req[w].token

\* The step of a request keeps Base when it keeps the types and its own part.
LEMMA BaseStep ==
    ASSUME Base, NEW w \in Workers, Others(w), Types', Carries(req[w])', Bears(w),
           UNCHANGED issued,
           \/ UNCHANGED known
           \/ req[w].pc # "idle" /\ req[w].op = "login" /\ known' = known \cup {req[w].token},
           Follows(user_sessions', user_sessions, w),
           Follows(g_auth_sessions', g_auth_sessions, w)
    PROVE  Base'
<1>1. PICK own \in [Tokens -> Users \cup {None}] : OwnedBy(own)
  BY DEF Base, Owned
<1>2. OwnedBy(own)'
  <2>1. \A v \in Workers :
           req'[v].token \in Tokens /\ req'[v].user \in Users =>
              req'[v].user = own[req'[v].token]
    BY <1>1, SMTT(60) DEF OwnedBy, Others, Kept, Bears
  <2>2. QED  BY <1>1, <2>1, SMTT(60) DEF OwnedBy, Follows, Base, Types, IsTable
<1>3. \A v \in Workers \ {w} : Alone(v)'
  <2> SUFFICES ASSUME NEW v \in Workers \ {w}, req'[v].pc # "idle", req'[v].op = "login",
                      NEW x \in Workers \ {v}
               PROVE  req'[x].token # req'[v].token
    BY DEF Alone
  <2>1. Kept(v) /\ Carries(req[v]) /\ Alone(v)
    BY DEF Others, Base, Shape
  <2>2. req[v].token \in issued \ known /\ req[v].token # None
    BY <2>1, AccountAssumption DEF Kept, Carries, Base, Types, AccountAssumption
  <2>3. req[x].token # req[v].token
    BY <2>1 DEF Kept, Alone
  <2>4. CASE x = w
    BY <2>1, <2>2, <2>3, <2>4 DEF Bears, Kept
  <2>5. CASE x # w
    BY <2>1, <2>3, <2>5 DEF Others, Kept
  <2>6. QED  BY <2>4, <2>5
<1>4. Alone(w)'
  BY SMTT(60) DEF Base, Shape, Alone, Others, Kept, Bears
<1>5. ASSUME NEW v \in Workers \ {w} PROVE Carries(req[v])'
  <2>1. Kept(v) /\ Carries(req[v]) /\ Alone(v) /\ Alone(w)
    BY DEF Others, Base, Shape
  <2>2. DOMAIN user_sessions' \subseteq DOMAIN user_sessions \cup {req[w].token}
    BY DEF Follows
  <2>3. DOMAIN g_auth_sessions' \subseteq DOMAIN g_auth_sessions \cup {req[w].token}
    BY DEF Follows
  <2>4. known \subseteq known' /\ known' \subseteq known \cup {req[w].token}
    OBVIOUS
  <2>5. req'[v].pc # "idle" /\ req'[v].op = "login" => req'[v].token # req[w].token
    BY <2>1 DEF Kept, Alone
  <2>6. QED  BY <2>1, <2>2, <2>3, <2>4, <2>5 DEF Kept, Carries
<1>6. Shape'
  BY <1>3, <1>4, <1>5 DEF Shape
<1>7. QED  BY <1>2, <1>6 DEF Base, Owned

LEMMA AddsFollows ==
    ASSUME NEW g, NEW f, NEW w \in Workers, NEW e, req[w].user \in Users,
           Adds(g, f, req[w].token, req[w].user, e)
    PROVE  Follows(g, f, w) /\ IsTable(g, issued)
  BY DEF Adds, Follows

LEMMA TakesFollows ==
    ASSUME NEW g, NEW f, NEW w \in Workers, NEW S, Takes(g, f, S)
    PROVE  Follows(g, f, w) /\ IsTable(g, issued)
  BY DEF Takes, Follows

LEMMA SameFollows ==
    ASSUME NEW f, NEW w \in Workers
    PROVE  Follows(f, f, w)
  BY DEF Follows

\* A request that ends leaves nothing to show.
LEMMA EndsBears ==
    ASSUME Types, NEW w \in Workers, Ends(w)
    PROVE  Carries(req[w])' /\ Bears(w)
  BY IdleType, AccountAssumption DEF Ends, Carries, Bears, LookupPCs, AccountAssumption, Types

LEMMA BaseRegister ==
    ASSUME Base, NEW w \in Workers, NEW u \in Users, register_user(w, u)
    PROVE  Base'
<1>1. /\ Others(w) /\ req'[w].pc = "insert_user" /\ req'[w].op = "register"
      /\ req'[w].user = u /\ req'[w].token = None /\ req'[w].quiet = {}
  BY RegisterEffect DEF Base
<1>2. UNCHANGED <<now, tables, caches, issued, known, faults, history>>
  BY DEF register_user
<1>3. Types'
  BY <1>1, <1>2 DEF Types, Base, tables, caches, history, Others
<1>4. Carries(req[w])' /\ Bears(w)
  BY <1>1, AccountAssumption DEF Carries, Bears, LookupPCs, Base, Types, AccountAssumption
<1>5. QED  BY <1>1, <1>2, <1>3, <1>4, BaseStep, SameFollows DEF tables, caches

LEMMA BaseInsertUser ==
    ASSUME Base, NEW w \in Workers, insert_user(w)
    PROVE  Base'
<1>1. At(w, "insert_user") /\ Carries(req[w]) /\ Types
  BY DEF Base, Shape, insert_user
<1>2. UNCHANGED <<now, user_sessions, caches, issued, known, history>>
  BY DEF insert_user
<1>3. /\ Goes(w, "cache_user") \/ Ends(w)
      /\ users' \in [Users -> {"absent", "enabled", "disabled"}]
  BY <1>1, InsertUserEffect DEF Types
<1>4. Types'
  BY <1>1, <1>2, <1>3 DEF Types, caches, history, Others, Ends, Goes
<1>5. Carries(req[w])' /\ Bears(w)
  <2>1. CASE Ends(w)
    BY <1>1, <2>1, EndsBears
  <2>2. CASE Goes(w, "cache_user")
    BY <1>1, <1>2, <2>2 DEF Goes, Carried, At, Carries, Bears, LookupPCs
  <2>3. QED  BY <1>3, <2>1, <2>2
<1>6. Others(w)
  BY <1>3 DEF Goes, Ends
<1>7. QED  BY <1>2, <1>4, <1>5, <1>6, BaseStep, SameFollows DEF caches

LEMMA BaseCacheUser ==
    ASSUME Base, NEW w \in Workers, cache_user(w)
    PROVE  Base'
<1>1. Ends(w) /\ Types
  BY CacheUserEffect DEF Base
<1>2. UNCHANGED <<now, tables, g_auth_sessions, issued, known, faults, history>>
  BY DEF cache_user
<1>3. Types'
  BY <1>1, <1>2 DEF Types, tables, history, Ends, Others
<1>4. QED  BY <1>1, <1>2, <1>3, BaseStep, SameFollows, EndsBears DEF tables, Ends

LEMMA BaseUpsert ==
    ASSUME Base, NEW w \in Workers, upsert_session(w)
    PROVE  Base'
<1>1. At(w, "upsert_session") /\ Carries(req[w]) /\ Types
  BY DEF Base, Shape, upsert_session
<1>2. UNCHANGED <<now, users, caches, issued, known, history>>
  BY DEF upsert_session
<1>3. CASE /\ Goes(w, "cache_session")
           /\ Adds(user_sessions', user_sessions, req[w].token, req[w].user, now + Ttl)
  <2>1. Follows(user_sessions', user_sessions, w) /\ IsTable(user_sessions', issued)
    <3>1. req[w].user \in Users
      BY <1>1 DEF At, Carries
    <3>2. QED  BY <1>3, <3>1, AddsFollows
  <2>2. Types'
    BY <1>1, <1>2, <1>3, <2>1 DEF Types, caches, history, Others, Goes
  <2>3. Carries(req[w])' /\ Bears(w)
    BY <1>1, <1>2, <1>3 DEF Goes, Carried, At, Carries, Bears, LookupPCs, caches
  <2>4. QED  BY <1>2, <1>3, <2>1, <2>2, <2>3, BaseStep, SameFollows DEF caches, Goes
<1>4. CASE Ends(w) /\ UNCHANGED user_sessions
  <2>1. Types'
    BY <1>1, <1>2, <1>4 DEF Types, caches, history, Others, Ends
  <2>2. QED  BY <1>1, <1>2, <1>4, <2>1, BaseStep, SameFollows, EndsBears DEF caches, Ends
<1>5. QED  BY <1>3, <1>4, UpsertEffect DEF Base

LEMMA BasePersist ==
    ASSUME Base, NEW w \in Workers, persist_session(w)
    PROVE  Base'
<1>1. At(w, "cache_session") /\ Carries(req[w]) /\ Types
  BY DEF Base, Shape, persist_session
<1>2. UNCHANGED <<now, tables, issued, known, history>>
  BY DEF persist_session
<1>3. /\ Goes(w, "forget_others")
      /\ Adds(g_auth_sessions', g_auth_sessions, req[w].token, req[w].user, now + Ttl)
  BY PersistEffect DEF Base
<1>4. Follows(g_auth_sessions', g_auth_sessions, w) /\ IsTable(g_auth_sessions', issued)
  <2>1. req[w].user \in Users
    BY <1>1 DEF At, Carries
  <2>2. QED  BY <1>3, <2>1, AddsFollows
<1>5. Types'
  BY <1>1, <1>2, <1>3, <1>4 DEF Types, tables, history, Others, Goes
<1>6. Carries(req[w])' /\ Bears(w)
  BY <1>1, <1>2, <1>3 DEF Goes, Carried, At, Carries, Bears, LookupPCs
<1>7. QED  BY <1>2, <1>3, <1>4, <1>5, <1>6, BaseStep, SameFollows DEF tables, Goes

LEMMA BaseRemoveOthers ==
    ASSUME Base, NEW w \in Workers, remove_user_sessions(w)
    PROVE  Base'
<1>1. At(w, "forget_others") /\ Carries(req[w]) /\ Types
  BY DEF Base, Shape, remove_user_sessions
<1>2. UNCHANGED <<now, tables, issued, known, revoked>>
  BY DEF remove_user_sessions
<1> DEFINE S == (Of(g_auth_sessions, req[w].user) \cup Of(user_sessions, req[w].user))
                  \ Keeps(w)
<1>3. /\ Takes(g_auth_sessions', g_auth_sessions,
               Of(g_auth_sessions, req[w].user) \ Keeps(w))
      /\ usable' = usable \ S /\ req'[w].quiet = Undisturbed(w, S)
      /\ Others(w) /\ req'[w].pc = "delete_others" /\ req'[w].op = req[w].op
      /\ req'[w].user = req[w].user /\ req'[w].token = req[w].token
  BY <1>1, RemoveOthersEffect
<1>4. Follows(g_auth_sessions', g_auth_sessions, w) /\ IsTable(g_auth_sessions', issued)
  BY <1>3, TakesFollows
<1>5. Types'
  BY <1>1, <1>2, <1>3, <1>4 DEF Types, tables, Others
<1>6. Undisturbed(w, S) \subseteq issued
  BY <1>1 DEF Undisturbed, Of, Types, IsTable
<1> HIDE DEF S
<1>7. Carries(req[w])' /\ Bears(w)
  BY <1>1, <1>2, <1>3, <1>6 DEF At, Carries, Bears, LookupPCs
<1>8. QED  BY <1>2, <1>3, <1>4, <1>5, <1>7, BaseStep, SameFollows DEF tables

LEMMA BaseDeleteOthers ==
    ASSUME Base, NEW w \in Workers, delete_user_sessions(w)
    PROVE  Base'
<1>1. At(w, "delete_others") /\ Carries(req[w]) /\ Types
  BY DEF Base, Shape, delete_user_sessions
<1>2. UNCHANGED <<now, users, caches, issued>>
  BY DEF delete_user_sessions
<1>3. ASSUME Ends(w), NEW S, Takes(user_sessions', user_sessions, S),
             known' = known \cup Keeps(w), usable' \subseteq usable \cup Keeps(w),
             revoked' = revoked \cup req[w].quiet
      PROVE  Base'
  <2>1. Follows(user_sessions', user_sessions, w) /\ IsTable(user_sessions', issued)
    BY <1>3, TakesFollows
  <2>2. Keeps(w) \subseteq issued
    BY <1>1 DEF Keeps, At, Carries
  <2>3. Types'
    BY <1>1, <1>2, <1>3, <2>1, <2>2 DEF Types, caches, Ends, Others, Carries
  <2>4. known' = known \/ (req[w].op = "login" /\ known' = known \cup {req[w].token})
    BY <1>3 DEF Keeps
  <2>5. QED  BY <1>1, <1>2, <1>3, <2>1, <2>3, <2>4, BaseStep, SameFollows, EndsBears
             DEF caches, Ends, At
<1>4. CASE UNCHANGED <<user_sessions, known, usable, revoked>> /\ Ends(w)
  <2>1. Types'
    BY <1>1, <1>2, <1>4 DEF Types, caches, Ends, Others
  <2>2. QED  BY <1>1, <1>2, <1>4, <2>1, BaseStep, SameFollows, EndsBears DEF caches, Ends
<1>5. CASE UNCHANGED <<user_sessions, known, usable, revoked>> /\ Goes(w, "forget")
           /\ req[w].op = "login"
  <2>1. Types'
    BY <1>1, <1>2, <1>5 DEF Types, caches, Goes, Others
  <2>2. Carries(req[w])' /\ Bears(w)
    BY <1>1, <1>2, <1>5 DEF Goes, Carried, At, Carries, Bears, LookupPCs
  <2>3. QED  BY <1>2, <1>5, <2>1, <2>2, BaseStep, SameFollows DEF caches, Goes
<1>6. QED
  <2>1. \/ Ends(w) /\ Takes(user_sessions', user_sessions,
                            Of(user_sessions, req[w].user) \ Keeps(w))
           /\ known' = known \cup Keeps(w) /\ usable' \subseteq usable \cup Keeps(w)
           /\ revoked' = revoked \cup req[w].quiet
        \/ UNCHANGED <<user_sessions, known, usable, revoked>> /\ Ends(w)
        \/ UNCHANGED <<user_sessions, known, usable, revoked>> /\ Goes(w, "forget")
           /\ req[w].op = "login"
    BY <1>1, DeleteOthersEffect
  <2>2. QED  BY <1>3, <1>4, <1>5, <2>1

LEMMA BaseLookup ==
    ASSUME Base, NEW w \in Workers, NEW op \in AllOps, NEW t \in Tokens, lookup_session(w, op, t)
    PROVE  Base'
<1>1. req[w].pc = "idle" /\ Carries(req[w]) /\ Types
  BY DEF Base, Shape, lookup_session, Busy
<1>2. UNCHANGED <<now, tables, issued, known, history>>
  BY DEF lookup_session
<1>3. /\ Others(w) /\ op \in {"access", "logout", "logout_all"} /\ t \in known
      /\ Hit(w, op, t) \/ HitExpiring(w, op, t) \/ Miss(w, op, t)
  BY <1>1, LookupStep
<1>4. Follows(g_auth_sessions', g_auth_sessions, w) /\ IsTable(g_auth_sessions', issued)
  <2>1. CASE UNCHANGED g_auth_sessions
    BY <1>1, <2>1, SameFollows DEF Types
  <2>2. CASE g_auth_sessions' = Minus(g_auth_sessions, {t})
    <3>1. Takes(g_auth_sessions', g_auth_sessions, {t})
      BY <1>1, <2>2, MinusTakes DEF Types
    <3>2. QED  BY <3>1, TakesFollows
  <2>3. QED  BY <1>3, <2>1, <2>2 DEF Hit, HitExpiring, Miss
<1>5. Types'
  BY <1>1, <1>2, <1>3, <1>4 DEF Types, tables, history, Others
<1>6. Carries(req[w])' /\ Bears(w)
  <2>1. t \in issued /\ t # None
    BY <1>1, <1>3, AccountAssumption DEF Types, AccountAssumption
  <2>2. CASE op = "access" /\ Hit(w, op, t)
    BY <1>1, <1>3, <2>2, EndsBears DEF Hit, Ends
  <2>3. CASE op # "access" /\ Hit(w, op, t)
    <3>1. g_auth_sessions[t].user \in Users
      BY <1>1, <2>3 DEF Hit, Types, IsTable, Sessions
    <3>2. QED  BY <1>1, <1>2, <1>3, <2>1, <2>3, <3>1 DEF Hit, Carries, Bears, LookupPCs
  <2>4. CASE HitExpiring(w, op, t)
    <3>1. g_auth_sessions[t].user \in Users
      BY <1>1, <2>4 DEF HitExpiring, Types, IsTable, Sessions
    <3>2. QED  BY <1>1, <1>2, <1>3, <2>1, <2>4, <3>1 DEF HitExpiring, Carries, Bears, LookupPCs
  <2>5. CASE Miss(w, op, t)
    BY <1>1, <1>2, <1>3, <2>1, <2>5, AccountAssumption
       DEF Miss, Carries, Bears, LookupPCs, AccountAssumption
  <2>6. QED  BY <1>3, <2>2, <2>3, <2>4, <2>5
<1>7. QED  BY <1>2, <1>3, <1>4, <1>5, <1>6, BaseStep, SameFollows DEF tables

\* An accepted request carries its token and its user on.
LEMMA AcceptedBears ==
    ASSUME Types, NEW w \in Workers, AcceptedNow(w), Carries(req[w]),
           req[w].pc \in {"refresh", "refresh_found", "cache_refreshed", "cache_found"},
           UNCHANGED <<issued, known>>
    PROVE  Carries(req[w])' /\ Bears(w) /\ Others(w)
<1>1. req[w].op \in {"access", "logout", "logout_all"} /\ req[w].user \in Users
      /\ req[w].token \in known
  BY DEF Carries, LookupPCs
<1>2. CASE req[w].op = "access"
  BY <1>2, EndsBears DEF AcceptedNow, Ends
<1>3. CASE req[w].op # "access"
  BY <1>1, <1>3, AccountAssumption
     DEF AcceptedNow, Carries, Bears, LookupPCs, Types, AccountAssumption
<1>4. QED  BY <1>2, <1>3

LEMMA BaseRefresh ==
    ASSUME Base, NEW w \in Workers, refresh_session(w)
    PROVE  Base'
<1>1. req[w].pc \in {"refresh", "refresh_found"} /\ Carries(req[w]) /\ Types
  BY DEF Base, Shape, refresh_session
<1>2. UNCHANGED <<now, users, caches, issued, known, history>>
  BY DEF refresh_session
<1>3. CASE /\ Goes(w, "cache_refreshed")
           /\ Adds(user_sessions', user_sessions, req[w].token, req[w].user, now + Ttl)
  <2>1. Follows(user_sessions', user_sessions, w) /\ IsTable(user_sessions', issued)
    <3>1. req[w].user \in Users
      BY <1>1 DEF Carries
    <3>2. QED  BY <1>3, <3>1, AddsFollows
  <2>2. Types'
    BY <1>1, <1>2, <1>3, <2>1 DEF Types, caches, history, Others, Goes
  <2>3. Carries(req[w])' /\ Bears(w)
    BY <1>1, <1>2, <1>3 DEF Goes, Carried, Carries, Bears, LookupPCs, caches
  <2>4. QED  BY <1>2, <1>3, <2>1, <2>2, <2>3, BaseStep, SameFollows DEF caches, Goes
<1>4. CASE UNCHANGED user_sessions /\ (Goes(w, "erase") \/ AcceptedNow(w))
  <2>1. Types'
    BY <1>1, <1>2, <1>4 DEF Types, caches, history, Others, Goes, AcceptedNow
  <2>2. Carries(req[w])' /\ Bears(w) /\ Others(w)
    <3>1. CASE Goes(w, "erase")
      BY <1>1, <1>2, <3>1 DEF Goes, Carried, Carries, Bears, LookupPCs
    <3>2. CASE AcceptedNow(w)
      BY <1>1, <1>2, <3>2, AcceptedBears
    <3>3. QED  BY <1>4, <3>1, <3>2
  <2>3. QED  BY <1>2, <1>4, <2>1, <2>2, BaseStep, SameFollows DEF caches
<1>5. QED  BY <1>3, <1>4, RefreshEffect DEF Base

\* A step that only adds the session of its request to the cache.
LEMMA BaseCaches ==
    ASSUME Base, NEW w \in Workers, NEW e,
           Adds(g_auth_sessions', g_auth_sessions, req[w].token, req[w].user, e),
           req[w].pc \in {"cache_refreshed", "cache_found"},
           Goes(w, "refresh_found") \/ AcceptedNow(w),
           UNCHANGED <<now, tables, issued, known, history>>
    PROVE  Base'
<1>1. Carries(req[w]) /\ Types
  BY DEF Base, Shape
<1>2. Follows(g_auth_sessions', g_auth_sessions, w) /\ IsTable(g_auth_sessions', issued)
  <2>1. req[w].user \in Users
    BY <1>1 DEF Carries
  <2>2. QED  BY <2>1, AddsFollows
<1>3. Types'
  BY <1>1, <1>2 DEF Types, tables, history, Others, AcceptedNow, Goes
<1>4. Carries(req[w])' /\ Bears(w) /\ Others(w)
  <2>1. CASE Goes(w, "refresh_found")
    BY <1>1, <2>1 DEF Goes, Carried, Carries, Bears, LookupPCs
  <2>2. CASE AcceptedNow(w)
    BY <1>1, <2>2, AcceptedBears
  <2>3. QED  BY <2>1, <2>2
<1>5. QED  BY <1>2, <1>3, <1>4, BaseStep, SameFollows DEF tables

LEMMA BaseErase ==
    ASSUME Base, NEW w \in Workers, erase_entry(w)
    PROVE  Base'
<1>1. At(w, "erase") /\ Carries(req[w]) /\ Types
  BY DEF Base, Shape, erase_entry
<1>2. UNCHANGED <<now, tables, issued, known, history>>
  BY DEF erase_entry
<1>3. Goes(w, "find") /\ Takes(g_auth_sessions', g_auth_sessions, {req[w].token})
  BY <1>1, EraseEffect
<1>4. Follows(g_auth_sessions', g_auth_sessions, w) /\ IsTable(g_auth_sessions', issued)
  BY <1>3, TakesFollows
<1>5. Types'
  BY <1>1, <1>2, <1>3, <1>4 DEF Types, tables, history, Others, Goes
<1>6. Carries(req[w])' /\ Bears(w)
  BY <1>1, <1>2, <1>3 DEF At, Goes, Carried, Carries, Bears, LookupPCs
<1>7. QED  BY <1>2, <1>3, <1>4, <1>5, <1>6, BaseStep, SameFollows DEF tables, Goes

LEMMA BaseFind ==
    ASSUME Base, NEW w \in Workers, find_active_session(w)
    PROVE  Base'
<1> DEFINE t == req[w].token
<1>1. At(w, "find") /\ Carries(req[w]) /\ Types
  BY DEF Base, Shape, find_active_session
<1>2. UNCHANGED <<now, tables, caches, issued, known, revoked>>
  BY DEF find_active_session
<1>3. \/ /\ t \in DOMAIN user_sessions /\ UNCHANGED usable /\ Others(w)
         /\ req'[w].pc = "cache_found" /\ req'[w].user = user_sessions[t].user
         /\ req'[w].op = req[w].op /\ req'[w].token = t /\ req'[w].quiet = req[w].quiet
      \/ UNCHANGED usable /\ Goes(w, "cleanup")
      \/ usable' = usable \ {t} /\ Goes(w, "cleanup")
  BY <1>1, FindEffect DEF Finds
<1>4. Types' /\ Others(w)
  BY <1>1, <1>2, <1>3 DEF Types, tables, caches, Others, Goes
<1>5. Carries(req[w])' /\ Bears(w)
  <2>1. t \in DOMAIN user_sessions => user_sessions[t].user \in Users
    BY <1>1 DEF Types, IsTable, Sessions
  <2>2. QED  BY <1>1, <1>2, <1>3, <2>1 DEF At, Goes, Carried, Carries, Bears, LookupPCs
<1>6. QED  BY <1>2, <1>4, <1>5, BaseStep, SameFollows DEF tables, caches

LEMMA BaseCleanup ==
    ASSUME Base, NEW w \in Workers, cleanup_session_token_or_expired(w)
    PROVE  Base'
<1>1. Types /\ Ends(w)
  BY CleanupEffect DEF Base
<1>2. UNCHANGED <<now, users, caches, issued, known, history>>
  BY DEF cleanup_session_token_or_expired
<1>3. Follows(user_sessions', user_sessions, w) /\ IsTable(user_sessions', issued)
  <2>1. CASE UNCHANGED user_sessions
    BY <1>1, <2>1, SameFollows DEF Types
  <2>2. ASSUME NEW S, Takes(user_sessions', user_sessions, S)
        PROVE  Follows(user_sessions', user_sessions, w) /\ IsTable(user_sessions', issued)
    BY <2>2, TakesFollows
  <2>3. QED  BY <1>1, <2>1, <2>2, CleanupEffect
<1>4. Types'
  BY <1>1, <1>2, <1>3 DEF Types, caches, history, Others, Ends
<1>5. QED  BY <1>1, <1>2, <1>3, <1>4, EndsBears, BaseStep, SameFollows DEF caches, Ends

LEMMA BaseRemoveOne ==
    ASSUME Base, NEW w \in Workers, remove_session(w)
    PROVE  Base'
<1>1. At(w, "forget") /\ Carries(req[w]) /\ Types /\ req[w].token \in issued
  BY DEF Base, Shape, remove_session, At, Carries
<1>2. UNCHANGED <<now, tables, issued, known, revoked>> /\ usable' = usable \ {req[w].token}
  BY DEF remove_session
<1>3. /\ Others(w) /\ req'[w].pc = "delete" /\ req'[w].quiet = Undisturbed(w, {req[w].token})
      /\ req'[w].op = req[w].op /\ req'[w].user = req[w].user /\ req'[w].token = req[w].token
      /\ Takes(g_auth_sessions', g_auth_sessions, {req[w].token})
  BY <1>1, RemoveOneEffect
<1>4. Follows(g_auth_sessions', g_auth_sessions, w) /\ IsTable(g_auth_sessions', issued)
  BY <1>3, TakesFollows
<1>5. Types'
  BY <1>1, <1>2, <1>3, <1>4 DEF Types, tables, Others
<1>6. Carries(req[w])' /\ Bears(w)
  BY <1>1, <1>2, <1>3 DEF At, Carries, Bears, LookupPCs, Undisturbed
<1>7. QED  BY <1>2, <1>3, <1>4, <1>5, <1>6, BaseStep, SameFollows DEF tables

LEMMA BaseDeleteOne ==
    ASSUME Base, NEW w \in Workers, delete_session(w)
    PROVE  Base'
<1>1. Types /\ Carries(req[w]) /\ Ends(w)
  BY DeleteOneEffect DEF Base, Shape
<1>2. UNCHANGED <<now, users, caches, issued, known, usable>>
  BY DEF delete_session
<1>3. /\ Follows(user_sessions', user_sessions, w) /\ IsTable(user_sessions', issued)
      /\ revoked' \subseteq revoked \cup req[w].quiet
  <2>1. CASE UNCHANGED <<user_sessions, revoked>>
    BY <1>1, <2>1, SameFollows DEF Types
  <2>2. CASE Takes(user_sessions', user_sessions, {req[w].token})
             /\ revoked' = revoked \cup req[w].quiet
    <3>1. Follows(user_sessions', user_sessions, w) /\ IsTable(user_sessions', issued)
      BY <2>2, TakesFollows
    <3>2. QED  BY <2>2, <3>1
  <2>3. QED  BY <1>1, <2>1, <2>2, DeleteOneEffect
<1>4. Types'
  BY <1>1, <1>2, <1>3 DEF Types, caches, Others, Ends, Carries
<1>5. QED  BY <1>1, <1>2, <1>3, <1>4, EndsBears, BaseStep, SameFollows DEF caches, Ends

LEMMA BaseLogin ==
    ASSUME Base, NEW w \in Workers, NEW u \in Users, NEW t \in Tokens, login_user(w, u, t)
    PROVE  Base'
<1>1. Types /\ req[w].pc = "idle" /\ t \notin issued
  BY DEF Base, login_user, Busy
<1>2. UNCHANGED <<now, tables, caches, known, history>> /\ issued' = issued \cup {t}
  BY DEF login_user
<1>3. /\ Others(w) /\ req'[w].pc = "upsert_session" /\ req'[w].op = "login"
      /\ req'[w].user = u /\ req'[w].token = t /\ req'[w].quiet = {}
  BY <1>1, LoginStep
<1>4. Types'
  BY <1>1, <1>2, <1>3 DEF Types, IsTable, tables, caches, history, Others
<1>5. \A v \in Workers \ {w} : Kept(v) /\ Carries(req[v]) /\ Alone(v) /\ req[v].token # t
  BY <1>1, <1>3, AccountAssumption DEF Others, Base, Shape, Carries, AccountAssumption
<1>6. Carries(req[w])' /\ Alone(w)'
  BY <1>1, <1>2, <1>3, <1>5, SMTT(60)
     DEF Carries, Alone, Kept, LookupPCs, Types, IsTable, tables, caches
<1>7. ASSUME NEW v \in Workers \ {w} PROVE Carries(req[v])' /\ Alone(v)'
  <2>1. Carries(req[v])'
    BY <1>2, <1>5, SMTT(60) DEF Carries, Kept, tables, caches
  <2>2. Alone(v)'
    BY <1>3, <1>5, SMTT(60) DEF Alone, Kept
  <2>3. QED  BY <2>1, <2>2
<1>8. Shape'
  BY <1>6, <1>7 DEF Shape
<1>9. PICK own \in [Tokens -> Users \cup {None}] : OwnedBy(own)
  BY DEF Base, Owned
<1> DEFINE new == [own EXCEPT ![t] = u]
<1>10. new \in [Tokens -> Users \cup {None}] /\ new[t] = u /\ \A x \in Tokens \ {t} : new[x] = own[x]
  OBVIOUS
<1> HIDE DEF new
<1>11. OwnedBy(new)'
  BY <1>1, <1>2, <1>3, <1>5, <1>9, <1>10, SMTT(60) DEF OwnedBy, Kept, Types, IsTable, tables, caches
<1>12. QED  BY <1>4, <1>8, <1>10, <1>11 DEF Base, Owned

\* A crash ends every request and empties the cache.
LEMMA BaseCrash ==
    ASSUME Base, load_user_cache
    PROVE  Base'
<1>1. /\ req' = [w \in Workers |-> Idle]
      /\ g_auth_sessions' = Empty
      /\ UNCHANGED <<now, tables, issued, known, revoked, usable>>
  BY DEF load_user_cache
<1>2. \A w \in Workers : req'[w] = Idle
  BY <1>1
<1>3. IsTable(g_auth_sessions', issued) /\ DOMAIN g_auth_sessions' = {}
  BY <1>1 DEF Empty, IsTable
<1>4. Types'
  BY <1>1, <1>2, <1>3, IdleType DEF Base, Types, tables
<1>5. Shape'
  BY <1>2, IdleType DEF Shape, Carries, Alone, LookupPCs
<1>6. Owned'
  <2>1. PICK own \in [Tokens -> Users \cup {None}] : OwnedBy(own)
    BY DEF Base, Owned
  <2>2. OwnedBy(own)'
    BY <1>1, <1>2, <1>3, <2>1, IdleType, AccountAssumption DEF OwnedBy, tables, AccountAssumption
  <2>3. QED  BY <2>2 DEF Owned
<1>7. QED  BY <1>4, <1>5, <1>6 DEF Base

\* The clock, an administrator or a stuttering step.
LEMMA BaseOutside ==
    ASSUME Base, UNCHANGED <<user_sessions, caches, req, issued, known, revoked>>,
           now' \in Nat, users' \in [Users -> {"absent", "enabled", "disabled"}],
           usable' \subseteq usable
    PROVE  Base'
<1>1. Types' /\ Shape'
  BY DEF Base, Types, IsTable, Shape, Carries, Alone, caches
<1>2. Owned'
  BY DEF Base, Owned, OwnedBy, caches
<1>3. QED  BY <1>1, <1>2 DEF Base

LEMMA BaseInit == Init => Base
<1> SUFFICES ASSUME Init PROVE Base
  OBVIOUS
<1>1. /\ \A w \in Workers : req[w] = Idle
      /\ DOMAIN user_sessions = {} /\ DOMAIN g_auth_sessions = {}
      /\ user_sessions = [x \in {} |-> None] /\ g_auth_sessions = [x \in {} |-> None]
  BY DEF Init, Empty
<1>2. Types
  BY <1>1, IdleType DEF Init, Types, IsTable
<1>3. Shape
  BY <1>1, IdleType DEF Shape, Carries, Alone, LookupPCs
<1>4. Owned
  <2>1. [t \in Tokens |-> None] \in [Tokens -> Users \cup {None}]
    OBVIOUS
  <2>2. OwnedBy([t \in Tokens |-> None])
    BY <1>1, IdleType, AccountAssumption DEF OwnedBy, AccountAssumption
  <2>3. QED  BY <2>1, <2>2 DEF Owned
<1>5. QED  BY <1>2, <1>3, <1>4 DEF Base

\* Every step keeps Base.
LEMMA BaseNext == Base /\ [Next]_vars => Base'
<1> SUFFICES ASSUME Base, [Next]_vars PROVE Base'
  OBVIOUS
<1>1. Types /\ Shape
  BY DEF Base
<1>2. ASSUME NEW w \in Workers, NEW u \in Users, register_user(w, u) PROVE Base'
  BY <1>2, BaseRegister
<1>3. ASSUME NEW w \in Workers, NEW u \in Users, NEW t \in Tokens, login_user(w, u, t) PROVE Base'
  BY <1>3, BaseLogin
<1>4. ASSUME NEW w \in Workers, NEW op \in AllOps, NEW t \in Tokens, lookup_session(w, op, t)
      PROVE  Base'
  BY <1>4, BaseLookup
<1>5. ASSUME NEW w \in Workers, cache_refreshed(w) PROVE Base'
  <2>1. UNCHANGED <<now, tables, issued, known, history>> /\ req[w].pc = "cache_refreshed"
    BY <1>5 DEF cache_refreshed, At
  <2>2. /\ Goes(w, "refresh_found") \/ AcceptedNow(w)
        /\ \E e : Adds(g_auth_sessions', g_auth_sessions, req[w].token, req[w].user, e)
    BY <1>1, <1>5, CacheRefreshedEffect
  <2>3. QED  BY <2>1, <2>2, BaseCaches
<1>6. ASSUME NEW w \in Workers, cache_found(w) PROVE Base'
  <2>1. UNCHANGED <<now, tables, issued, known, history>> /\ req[w].pc = "cache_found"
    BY <1>6 DEF cache_found, At
  <2>2. /\ Goes(w, "refresh_found") \/ AcceptedNow(w)
        /\ \E e : Adds(g_auth_sessions', g_auth_sessions, req[w].token, req[w].user, e)
    BY <1>1, <1>6, CacheFoundEffect
  <2>3. QED  BY <2>1, <2>2, BaseCaches
<1>7. ASSUME NEW w \in Workers,
             \/ insert_user(w) \/ cache_user(w) \/ upsert_session(w) \/ persist_session(w)
             \/ remove_user_sessions(w) \/ delete_user_sessions(w) \/ refresh_session(w)
             \/ erase_entry(w) \/ find_active_session(w) \/ cleanup_session_token_or_expired(w)
             \/ remove_session(w) \/ delete_session(w)
      PROVE  Base'
  BY <1>7, BaseInsertUser, BaseCacheUser, BaseUpsert, BasePersist, BaseRemoveOthers,
     BaseDeleteOthers, BaseRefresh, BaseErase, BaseFind, BaseCleanup, BaseRemoveOne, BaseDeleteOne
<1>8. CASE Tick
  <2>1. /\ UNCHANGED <<tables, caches, req, issued, known, revoked>> /\ usable' \subseteq usable
        /\ now' = now + 1
    BY <1>8 DEF Tick
  <2>2. now' \in Nat
    BY <1>1, <2>1, SMTT(60) DEF Types
  <2>3. users' \in [Users -> {"absent", "enabled", "disabled"}]
    BY <1>1, <2>1 DEF Types, tables
  <2>4. QED  BY <2>1, <2>2, <2>3, BaseOutside DEF tables
<1>9. ASSUME NEW u \in Users, Disable(u) PROVE Base'
  <2>1. UNCHANGED <<now, user_sessions, caches, req, issued, known, revoked>>
        /\ usable' \subseteq usable /\ users' = [users EXCEPT ![u] = "disabled"]
    BY <1>9 DEF Disable
  <2>2. now' \in Nat /\ users' \in [Users -> {"absent", "enabled", "disabled"}]
    BY <1>1, <2>1 DEF Types
  <2>3. QED  BY <2>1, <2>2, BaseOutside
<1>10. CASE load_user_cache
  BY <1>10, BaseCrash
<1>11. CASE UNCHANGED vars
  <2>1. UNCHANGED <<now, users, user_sessions, caches, req, issued, known, revoked, usable>>
    BY <1>11 DEF vars, tables, history
  <2>2. now' \in Nat /\ users' \in [Users -> {"absent", "enabled", "disabled"}]
    BY <1>1, <2>1 DEF Types
  <2>3. QED  BY <2>1, <2>2, BaseOutside
<1>12. QED
  BY <1>2, <1>3, <1>4, <1>5, <1>6, <1>7, <1>8, <1>9, <1>10, <1>11 DEF Next
-----------------------------------------------------------------------------
(***************************************************************************)
(* A revoked token stays out                                               *)
(***************************************************************************)

\* Nobody who holds a revoked token can bring it back; a removal that runs
\* undisturbed is the only one that holds its tokens.
Removing(w) ==
    \A t \in req[w].quiet :
        /\ t \in issued /\ t \notin DOMAIN g_auth_sessions
        /\ \A v \in Workers \ {w} : req[v].token # t
        /\ req[w].pc = "delete" => t = req[w].token
        /\ req[w].pc = "delete_others" =>
            /\ req[w].op = "login" => t # req[w].token
            /\ t \in DOMAIN user_sessions => user_sessions[t].user = req[w].user

RevokedInv ==
    /\ RevokedStaysOut
    /\ \A w \in Workers :
        /\ req[w].token \in revoked => req[w].pc \in {"find", "cleanup"}
        /\ req[w].pc \in {"delete", "delete_others"} => Removing(w)

\* The step of a request keeps revoked tokens out when it does its own part.
LEMMA RevokedStep ==
    ASSUME Base, RevokedInv, NEW w \in Workers, Others(w), issued \subseteq issued',
           Follows(user_sessions', user_sessions, w),
           Follows(g_auth_sessions', g_auth_sessions, w),
           req[w].token \in revoked =>
               /\ DOMAIN user_sessions' \subseteq DOMAIN user_sessions
               /\ DOMAIN g_auth_sessions' \subseteq DOMAIN g_auth_sessions,
           \/ req'[w].token = req[w].token
           \/ \A v \in Workers \ {w} : req'[w].token \notin req'[v].quiet,
           \A t \in revoked' \ revoked :
               /\ t \notin DOMAIN user_sessions' /\ t \notin DOMAIN g_auth_sessions'
               /\ \A v \in Workers \ {w} : req[v].token # t,
           req'[w].token \in revoked' => req'[w].pc \in {"find", "cleanup"},
           req'[w].pc \in {"delete", "delete_others"} => Removing(w)'
    PROVE  RevokedInv'
<1>1. RevokedStaysOut'
  BY DEF RevokedInv, RevokedStaysOut, Follows
<1>2. ASSUME NEW v \in Workers \ {w}
      PROVE  /\ req'[v].token \in revoked' => req'[v].pc \in {"find", "cleanup"}
             /\ req'[v].pc \in {"delete", "delete_others"} => Removing(v)'
  <2>1. Kept(v)
    BY DEF Others
  <2>2. req'[v].token \in revoked' => req'[v].pc \in {"find", "cleanup"}
    BY <2>1 DEF Kept, RevokedInv
  <2>3. ASSUME req'[v].pc \in {"delete", "delete_others"}, NEW t \in req'[v].quiet
        PROVE  /\ t \in issued' /\ t \notin DOMAIN g_auth_sessions'
               /\ \A x \in Workers \ {v} : req'[x].token # t
               /\ req'[v].pc = "delete" => t = req'[v].token
               /\ req'[v].pc = "delete_others" =>
                    /\ req'[v].op = "login" => t # req'[v].token
                    /\ t \in DOMAIN user_sessions' => user_sessions'[t].user = req'[v].user
    <3>1. Removing(v) /\ t \in req[v].quiet
      BY <2>1, <2>3 DEF Kept, RevokedInv
    <3>2. t # req[w].token /\ \A x \in Workers \ {v} : req[x].token # t
      BY <3>1 DEF Removing
    <3>3. \A x \in Workers \ {v} : req'[x].token # t
      <4>1. req'[w].token # t
        BY <2>3, <3>2
      <4>2. \A x \in Workers \ {w} : req'[x].token = req[x].token
        BY DEF Others, Kept
      <4>3. QED  BY <3>2, <4>1, <4>2
    <3>4. /\ t \in DOMAIN g_auth_sessions' => t \in DOMAIN g_auth_sessions
          /\ t \in DOMAIN user_sessions' =>
                t \in DOMAIN user_sessions /\ user_sessions'[t].user = user_sessions[t].user
      BY <3>2 DEF Follows
    <3>5. QED  BY <2>1, <3>1, <3>3, <3>4 DEF Kept, Removing
  <2>4. QED  BY <2>2, <2>3 DEF Removing
<1>3. QED  BY <1>1, <1>2 DEF RevokedInv

\* The step of a request whose token is not revoked, and that revokes nothing.
LEMMA RevokedOn ==
    ASSUME Base, Base', RevokedInv, NEW w \in Workers, Others(w), UNCHANGED <<issued, revoked>>,
           Follows(user_sessions', user_sessions, w),
           Follows(g_auth_sessions', g_auth_sessions, w),
           req[w].token \notin revoked, req'[w].token \in {req[w].token, None},
           req'[w].pc \notin {"delete", "delete_others"}
    PROVE  RevokedInv'
<1>1. Types'
  BY DEF Base
<1>2. None \notin revoked' /\ \A v \in Workers : None \notin req'[v].quiet
  BY <1>1, AccountAssumption DEF AccountAssumption, Types, Requests
<1>3. issued \subseteq issued' /\ revoked' \ revoked = {}
  OBVIOUS
<1>4. req'[w].token \notin revoked'
  BY <1>2
<1>5. \/ req'[w].token = req[w].token
      \/ \A v \in Workers \ {w} : req'[w].token \notin req'[v].quiet
  BY <1>2
<1>6. QED  BY <1>3, <1>4, <1>5, RevokedStep

\* The requests that are past their lookup hold no revoked token.
LEMMA NotRevoked ==
    ASSUME RevokedInv, NEW w \in Workers, req[w].pc \notin {"find", "cleanup"}
    PROVE  req[w].token \notin revoked
  BY DEF RevokedInv

LEMMA RevokedRegister ==
    ASSUME Base, Base', RevokedInv, NEW w \in Workers, NEW u \in Users, register_user(w, u)
    PROVE  RevokedInv'
<1>1. /\ Others(w) /\ req'[w].pc = "insert_user" /\ req'[w].token = None
  BY RegisterEffect DEF Base
<1>2. UNCHANGED <<tables, caches, issued, history>> /\ req[w].pc = "idle"
  BY DEF register_user, Busy
<1>3. UNCHANGED <<user_sessions, g_auth_sessions, issued, revoked>>
  BY <1>2 DEF tables, caches, history
<1>4. QED  BY <1>1, <1>2, <1>3, RevokedOn, NotRevoked, SameFollows

LEMMA RevokedUsers ==
    ASSUME Base, Base', RevokedInv, NEW w \in Workers, insert_user(w) \/ cache_user(w)
    PROVE  RevokedInv'
<1>1. /\ UNCHANGED <<user_sessions, g_auth_sessions, issued, revoked>>
      /\ req[w].pc \in {"insert_user", "cache_user"}
  BY DEF insert_user, cache_user, tables, caches, history, At
<1>2. Goes(w, "cache_user") \/ Ends(w)
  BY InsertUserEffect, CacheUserEffect DEF Base
<1>3. Others(w) /\ req'[w].token \in {req[w].token, None} /\ req'[w].pc \in {"cache_user", "idle"}
  BY <1>2, IdleType DEF Goes, Carried, Ends
<1>4. QED  BY <1>1, <1>3, RevokedOn, NotRevoked, SameFollows

\* The user and the token of a request that is about to add a session.
LEMMA CarriesUser ==
    ASSUME Base, NEW w \in Workers,
           req[w].pc \in {"upsert_session", "cache_session", "refresh", "refresh_found",
                          "cache_refreshed", "cache_found", "forget_others", "delete_others"}
    PROVE  Types /\ Shape /\ req[w].user \in Users /\ req[w].token \in issued
  BY DEF Base, Shape, Carries

LEMMA RevokedLoginRows ==
    ASSUME Base, Base', RevokedInv, NEW w \in Workers, upsert_session(w) \/ persist_session(w)
    PROVE  RevokedInv'
<1>1. /\ UNCHANGED <<issued, revoked>> /\ req[w].pc \in {"upsert_session", "cache_session"}
      /\ upsert_session(w) => UNCHANGED g_auth_sessions
      /\ persist_session(w) => UNCHANGED user_sessions
  BY DEF upsert_session, persist_session, tables, caches, history, At
<1>2. Types /\ Shape /\ req[w].user \in Users
  BY <1>1, CarriesUser
<1>3. /\ Others(w) /\ req'[w].token \in {req[w].token, None}
      /\ req'[w].pc \in {"cache_session", "forget_others", "idle"}
  BY <1>2, UpsertEffect, PersistEffect, IdleType DEF Goes, Carried, Ends
<1>4. Follows(user_sessions', user_sessions, w)
  <2>1. CASE upsert_session(w)
    BY <1>2, <2>1, UpsertEffect, AddsFollows, SameFollows
  <2>2. QED  BY <1>1, <2>1, SameFollows
<1>5. Follows(g_auth_sessions', g_auth_sessions, w)
  <2>1. CASE persist_session(w)
    BY <1>2, <2>1, PersistEffect, AddsFollows
  <2>2. QED  BY <1>1, <2>1, SameFollows
<1>6. QED  BY <1>1, <1>3, <1>4, <1>5, RevokedOn, NotRevoked

LEMMA RevokedRefresh ==
    ASSUME Base, Base', RevokedInv, NEW w \in Workers, refresh_session(w)
    PROVE  RevokedInv'
<1>1. /\ UNCHANGED <<g_auth_sessions, issued, revoked>>
      /\ req[w].pc \in {"refresh", "refresh_found"}
  BY DEF refresh_session, caches, history
<1>2. Types /\ Shape /\ req[w].user \in Users
  BY <1>1, CarriesUser
<1>3. Follows(user_sessions', user_sessions, w)
  BY <1>2, RefreshEffect, AddsFollows, SameFollows
<1>4. /\ Others(w) /\ req'[w].token \in {req[w].token, None}
      /\ req'[w].pc \in {"cache_refreshed", "erase", "idle", "forget", "forget_others"}
  BY <1>2, RefreshEffect, IdleType DEF Goes, Carried, AcceptedNow
<1>5. QED  BY <1>1, <1>3, <1>4, RevokedOn, NotRevoked, SameFollows

LEMMA RevokedCaches ==
    ASSUME Base, Base', RevokedInv, NEW w \in Workers, cache_refreshed(w) \/ cache_found(w)
    PROVE  RevokedInv'
<1>1. /\ UNCHANGED <<user_sessions, issued, revoked>>
      /\ req[w].pc \in {"cache_refreshed", "cache_found"}
  BY DEF cache_refreshed, cache_found, tables, history, At
<1>2. Types /\ Shape /\ req[w].user \in Users
  BY <1>1, CarriesUser
<1>3. Follows(g_auth_sessions', g_auth_sessions, w)
  BY <1>2, CacheRefreshedEffect, CacheFoundEffect, AddsFollows
<1>4. Goes(w, "refresh_found") \/ AcceptedNow(w)
  BY <1>2, CacheRefreshedEffect, CacheFoundEffect
<1>5. /\ Others(w) /\ req'[w].token \in {req[w].token, None}
      /\ req'[w].pc \in {"refresh_found", "idle", "forget", "forget_others"}
  BY <1>4, IdleType DEF Goes, Carried, AcceptedNow
<1>6. QED  BY <1>1, <1>3, <1>5, RevokedOn, NotRevoked, SameFollows

LEMMA RevokedErase ==
    ASSUME Base, Base', RevokedInv, NEW w \in Workers, erase_entry(w)
    PROVE  RevokedInv'
<1>1. UNCHANGED <<user_sessions, issued, revoked>> /\ req[w].pc = "erase"
  BY DEF erase_entry, tables, history, At
<1>2. Goes(w, "find") /\ Takes(g_auth_sessions', g_auth_sessions, {req[w].token})
  BY EraseEffect DEF Base
<1>3. Follows(g_auth_sessions', g_auth_sessions, w)
  BY <1>2, TakesFollows
<1>4. Others(w) /\ req'[w].token = req[w].token /\ req'[w].pc = "find"
  BY <1>2 DEF Goes, Carried
<1>5. QED  BY <1>1, <1>3, <1>4, RevokedOn, NotRevoked, SameFollows

LEMMA RevokedFind ==
    ASSUME Base, Base', RevokedInv, NEW w \in Workers, find_active_session(w)
    PROVE  RevokedInv'
<1>1. UNCHANGED <<user_sessions, g_auth_sessions, issued, revoked>>
  BY DEF find_active_session, tables, caches
<1>2. CASE Goes(w, "cleanup")
  <2>1. Others(w) /\ req'[w].token = req[w].token /\ req'[w].pc = "cleanup"
    BY <1>2 DEF Goes, Carried
  <2>2. issued \subseteq issued' /\ revoked' \ revoked = {}
    BY <1>1
  <2>3. Follows(user_sessions', user_sessions, w) /\ Follows(g_auth_sessions', g_auth_sessions, w)
    BY <1>1, SameFollows
  <2>4. QED  BY <1>1, <2>1, <2>2, <2>3, RevokedStep
<1>3. CASE /\ req[w].token \in DOMAIN user_sessions
           /\ \E u, e : Finds(w, u, e)
  <2>1. Others(w) /\ req'[w].token = req[w].token /\ req'[w].pc = "cache_found"
    BY <1>3 DEF Finds
  <2>2. req[w].token \notin revoked
    BY <1>3 DEF RevokedInv, RevokedStaysOut
  <2>3. QED  BY <1>1, <2>1, <2>2, RevokedOn, SameFollows
<1>4. QED  BY <1>2, <1>3, FindEffect DEF Base

LEMMA RevokedCleanup ==
    ASSUME Base, Base', RevokedInv, NEW w \in Workers, cleanup_session_token_or_expired(w)
    PROVE  RevokedInv'
<1>1. UNCHANGED <<g_auth_sessions, issued, revoked>>
  BY DEF cleanup_session_token_or_expired, caches, history
<1>2. /\ Ends(w)
      /\ \/ \E S : Takes(user_sessions', user_sessions, S)
         \/ UNCHANGED user_sessions
  BY CleanupEffect DEF Base
<1>3. /\ Follows(user_sessions', user_sessions, w)
      /\ DOMAIN user_sessions' \subseteq DOMAIN user_sessions
  BY <1>2, TakesFollows, SameFollows DEF Takes
<1>4. Others(w) /\ req'[w].token = None /\ req'[w].pc = "idle"
  BY <1>2, IdleType DEF Ends
<1>5. None \notin revoked' /\ \A v \in Workers \ {w} : None \notin req'[v].quiet
  BY AccountAssumption DEF AccountAssumption, Base, Types, Requests
<1>6. issued \subseteq issued' /\ revoked' \ revoked = {}
  BY <1>1
<1>7. QED  BY <1>1, <1>3, <1>4, <1>5, <1>6, RevokedStep, SameFollows

\* The row and the entry of a token belong to the same user.
LEMMA SameOwner ==
    ASSUME Owned, Types, NEW t \in DOMAIN user_sessions \cap DOMAIN g_auth_sessions
    PROVE  user_sessions[t].user = g_auth_sessions[t].user
  BY DEF Owned, OwnedBy

LEMMA RevokedRemoveOthers ==
    ASSUME Base, Base', RevokedInv, NEW w \in Workers, remove_user_sessions(w)
    PROVE  RevokedInv'
<1>1. UNCHANGED <<user_sessions, issued, revoked>> /\ req[w].pc = "forget_others"
  BY DEF remove_user_sessions, tables, At
<1> DEFINE u == req[w].user
           S == (Of(g_auth_sessions, u) \cup Of(user_sessions, u)) \ Keeps(w)
<1>2. /\ Others(w) /\ req'[w].pc = "delete_others" /\ req'[w].quiet = Undisturbed(w, S)
      /\ req'[w].op = req[w].op /\ req'[w].user = u /\ req'[w].token = req[w].token
      /\ Takes(g_auth_sessions', g_auth_sessions, Of(g_auth_sessions, u) \ Keeps(w))
  BY RemoveOthersEffect DEF Base
<1>3. Removing(w)'
  <2> SUFFICES ASSUME NEW t \in Undisturbed(w, S)
               PROVE  /\ t \in issued' /\ t \notin DOMAIN g_auth_sessions'
                      /\ \A v \in Workers \ {w} : req'[v].token # t
                      /\ req'[w].op = "login" => t # req'[w].token
                      /\ t \in DOMAIN user_sessions' => user_sessions'[t].user = req'[w].user
    BY <1>2 DEF Removing
  <2>1. t \in S /\ \A v \in Workers \ {w} : req[v].token # t
    BY DEF Undisturbed
  <2>2. \A v \in Workers \ {w} : req'[v].token # t
    BY <1>2, <2>1 DEF Others, Kept
  <2>3. req'[w].op = "login" => t # req'[w].token
    BY <1>2, <2>1 DEF Keeps
  <2>4. t \in DOMAIN user_sessions => user_sessions[t].user = u
    BY <2>1, SameOwner DEF Base, Of
  <2>5. t \in DOMAIN g_auth_sessions => g_auth_sessions[t].user = u
    BY <2>1, SameOwner DEF Base, Of
  <2>6. t \notin DOMAIN g_auth_sessions'
    BY <1>2, <2>1, <2>5 DEF Takes, Of
  <2>7. t \in issued
    BY <2>1 DEF Base, Types, IsTable, Of
  <2>8. QED  BY <1>1, <1>2, <2>2, <2>3, <2>4, <2>6, <2>7
<1>4. req[w].token \notin revoked
  BY <1>1, NotRevoked
<1>5. Follows(user_sessions', user_sessions, w) /\ Follows(g_auth_sessions', g_auth_sessions, w)
  BY <1>1, <1>2, SameFollows, TakesFollows
<1>6. issued \subseteq issued' /\ revoked' \ revoked = {}
  BY <1>1
<1> HIDE DEF S
<1>7. QED  BY <1>1, <1>2, <1>3, <1>4, <1>5, <1>6, RevokedStep

LEMMA RevokedDeleteOthers ==
    ASSUME Base, Base', RevokedInv, NEW w \in Workers, delete_user_sessions(w)
    PROVE  RevokedInv'
<1>1. UNCHANGED <<g_auth_sessions, issued>> /\ req[w].pc = "delete_others"
  BY DEF delete_user_sessions, caches, At
<1>2. CASE /\ Ends(w) /\ revoked' = revoked \cup req[w].quiet
           /\ Takes(user_sessions', user_sessions, Of(user_sessions, req[w].user) \ Keeps(w))
  <2>1. Follows(user_sessions', user_sessions, w)
    BY <1>2, TakesFollows
  <2>2. Others(w) /\ req'[w].token = None /\ req'[w].pc = "idle"
    BY <1>2, IdleType DEF Ends
  <2>3. None \notin revoked' /\ \A v \in Workers \ {w} : None \notin req'[v].quiet
    BY AccountAssumption DEF AccountAssumption, Base, Types, Requests
  <2>4. ASSUME NEW t \in revoked' \ revoked
        PROVE  /\ t \notin DOMAIN user_sessions' /\ t \notin DOMAIN g_auth_sessions'
               /\ \A v \in Workers \ {w} : req[v].token # t
    <3>1. t \in req[w].quiet /\ Removing(w)
      BY <1>1, <1>2, <2>4 DEF RevokedInv
    <3>2. QED  BY <1>1, <1>2, <3>1 DEF Removing, Takes, Of, Keeps
  <2>5. req[w].token \notin revoked
    BY <1>1, NotRevoked
  <2>6. QED  BY <1>1, <2>1, <2>2, <2>3, <2>4, <2>5, RevokedStep, SameFollows
<1>3. CASE UNCHANGED <<user_sessions, revoked>> /\ (Goes(w, "forget") \/ Ends(w))
  <2>1. /\ Others(w) /\ req'[w].token \in {req[w].token, None}
        /\ req'[w].pc \in {"forget", "idle"}
    BY <1>3, IdleType DEF Goes, Carried, Ends
  <2>2. QED  BY <1>1, <1>3, <2>1, RevokedOn, NotRevoked, SameFollows
<1>4. QED  BY <1>2, <1>3, DeleteOthersEffect DEF Base

LEMMA RevokedLookup ==
    ASSUME Base, Base', RevokedInv, NEW w \in Workers, NEW op \in AllOps, NEW t \in Tokens,
           lookup_session(w, op, t)
    PROVE  RevokedInv'
<1>1. UNCHANGED <<user_sessions, issued, revoked>>
  BY DEF lookup_session, tables, history
<1>2. /\ Others(w) /\ op \in {"access", "logout", "logout_all"}
      /\ \A v \in Workers \ {w} : t \notin req'[v].quiet
      /\ Hit(w, op, t) \/ HitExpiring(w, op, t) \/ Miss(w, op, t)
  BY LookupStep DEF Base
<1>3. None \notin revoked' /\ \A v \in Workers \ {w} : None \notin req'[v].quiet
  BY AccountAssumption DEF AccountAssumption, Base, Types, Requests
<1>4. /\ req'[w].token \in {t, None}
      /\ req'[w].token \in revoked' => req'[w].pc = "find"
      /\ req'[w].pc \in {"idle", "forget", "forget_others", "refresh", "find"}
  <2>1. CASE Hit(w, op, t)
    BY <1>1, <1>2, <1>3, <2>1, IdleType DEF Hit, RevokedInv, RevokedStaysOut
  <2>2. CASE HitExpiring(w, op, t)
    BY <1>1, <2>2 DEF HitExpiring, RevokedInv, RevokedStaysOut
  <2>3. CASE Miss(w, op, t)
    BY <2>3 DEF Miss
  <2>4. QED  BY <1>2, <2>1, <2>2, <2>3
<1>5. /\ Follows(g_auth_sessions', g_auth_sessions, w)
      /\ DOMAIN g_auth_sessions' \subseteq DOMAIN g_auth_sessions
  <2>1. CASE UNCHANGED g_auth_sessions
    BY <2>1, SameFollows
  <2>2. CASE g_auth_sessions' = Minus(g_auth_sessions, {t})
    <3>1. Takes(Minus(g_auth_sessions, {t}), g_auth_sessions, {t})
      BY MinusTakes DEF Base, Types
    <3>2. QED  BY <2>2, <3>1, TakesFollows DEF Takes
  <2>3. QED  BY <1>2, <2>1, <2>2 DEF Hit, HitExpiring, Miss
<1>6. issued \subseteq issued' /\ revoked' \ revoked = {}
  BY <1>1
<1>7. \A v \in Workers \ {w} : req'[w].token \notin req'[v].quiet
  BY <1>2, <1>3, <1>4
<1>8. QED  BY <1>1, <1>2, <1>4, <1>5, <1>6, <1>7, RevokedStep, SameFollows

LEMMA RevokedRemoveOne ==
    ASSUME Base, Base', RevokedInv, NEW w \in Workers, remove_session(w)
    PROVE  RevokedInv'
<1>1. UNCHANGED <<user_sessions, issued, revoked>> /\ req[w].pc = "forget"
  BY DEF remove_session, tables, At
<1>2. req[w].token \in issued /\ Types
  BY <1>1 DEF Base, Shape, Carries
<1>3. /\ Others(w) /\ req'[w].pc = "delete" /\ req'[w].token = req[w].token
      /\ req'[w].quiet = Undisturbed(w, {req[w].token})
      /\ Takes(g_auth_sessions', g_auth_sessions, {req[w].token})
  BY <1>2, RemoveOneEffect
<1>4. Removing(w)'
  <2>1. \A v \in Workers \ {w} : req'[v].token = req[v].token
    BY <1>3 DEF Others, Kept
  <2>2. QED  BY <1>1, <1>2, <1>3, <2>1 DEF Removing, Undisturbed, Takes
<1>5. req[w].token \notin revoked
  BY <1>1, NotRevoked
<1>6. Follows(user_sessions', user_sessions, w) /\ Follows(g_auth_sessions', g_auth_sessions, w)
  BY <1>1, <1>3, SameFollows, TakesFollows
<1>7. issued \subseteq issued' /\ revoked' \ revoked = {}
  BY <1>1
<1>8. QED  BY <1>1, <1>3, <1>4, <1>5, <1>6, <1>7, RevokedStep

LEMMA RevokedDeleteOne ==
    ASSUME Base, Base', RevokedInv, NEW w \in Workers, delete_session(w)
    PROVE  RevokedInv'
<1>1. UNCHANGED <<g_auth_sessions, issued>> /\ req[w].pc = "delete"
  BY DEF delete_session, caches, At
<1>2. Ends(w)
  BY DeleteOneEffect DEF Base
<1>3. Others(w) /\ req'[w].token = None /\ req'[w].pc = "idle"
  BY <1>2, IdleType DEF Ends
<1>4. CASE /\ Takes(user_sessions', user_sessions, {req[w].token})
           /\ revoked' = revoked \cup req[w].quiet
  <2>1. None \notin revoked' /\ \A v \in Workers \ {w} : None \notin req'[v].quiet
    BY AccountAssumption DEF AccountAssumption, Base, Types, Requests
  <2>2. ASSUME NEW t \in revoked' \ revoked
        PROVE  /\ t \notin DOMAIN user_sessions' /\ t \notin DOMAIN g_auth_sessions'
               /\ \A v \in Workers \ {w} : req[v].token # t
    <3>1. t \in req[w].quiet /\ Removing(w)
      BY <1>1, <1>4, <2>2 DEF RevokedInv
    <3>2. QED  BY <1>1, <1>4, <3>1 DEF Removing, Takes
  <2>3. req[w].token \notin revoked
    BY <1>1, NotRevoked
  <2>4. Follows(user_sessions', user_sessions, w)
    BY <1>4, TakesFollows
  <2>5. QED  BY <1>1, <1>3, <2>1, <2>2, <2>3, <2>4, RevokedStep, SameFollows
<1>5. CASE UNCHANGED <<user_sessions, revoked>>
  BY <1>1, <1>3, <1>5, RevokedOn, NotRevoked, SameFollows
<1>6. QED  BY <1>4, <1>5, DeleteOneEffect DEF Base

LEMMA RevokedLogin ==
    ASSUME Base, Base', RevokedInv, NEW w \in Workers, NEW u \in Users, NEW t \in Tokens,
           login_user(w, u, t)
    PROVE  RevokedInv'
<1>1. /\ UNCHANGED <<user_sessions, g_auth_sessions, revoked>>
      /\ t \notin issued /\ issued' = issued \cup {t} /\ req[w].pc = "idle"
  BY DEF login_user, tables, caches, history, Busy
<1>2. Others(w) /\ req'[w].pc = "upsert_session" /\ req'[w].token = t
  BY LoginStep DEF Base
<1>3. t \notin revoked
  BY <1>1 DEF Base, Types
<1>4. ASSUME NEW v \in Workers \ {w} PROVE t \notin req'[v].quiet
  <2>1. Kept(v) /\ req[v].quiet \subseteq issued
    BY <1>2 DEF Others, Base, Shape, Carries
  <2>2. QED  BY <1>1, <2>1 DEF Kept
<1>5. issued \subseteq issued' /\ revoked' \ revoked = {}
  BY <1>1
<1>6. QED  BY <1>1, <1>2, <1>3, <1>4, <1>5, RevokedStep, SameFollows

\* After a crash nobody holds anything and the cache is empty.
LEMMA RevokedCrash ==
    ASSUME Base, Base', RevokedInv, load_user_cache
    PROVE  RevokedInv'
<1>1. /\ UNCHANGED <<user_sessions, revoked>> /\ DOMAIN g_auth_sessions' = {}
      /\ \A w \in Workers : req'[w] = Idle
  BY DEF load_user_cache, tables, Empty
<1>2. \A w \in Workers : req'[w].pc = "idle" /\ req'[w].token = None
  BY <1>1, IdleType
<1>3. None \notin revoked'
  BY AccountAssumption DEF AccountAssumption, Base, Types
<1>4. RevokedStaysOut'
  BY <1>1 DEF RevokedInv, RevokedStaysOut
<1>5. QED  BY <1>2, <1>3, <1>4 DEF RevokedInv

LEMMA RevokedOutside ==
    ASSUME RevokedInv, UNCHANGED <<user_sessions, g_auth_sessions, req, issued, revoked>>
    PROVE  RevokedInv'
  BY SMTT(60) DEF RevokedInv, RevokedStaysOut, Removing

LEMMA RevokedNext == Base /\ Base' /\ RevokedInv /\ [Next]_vars => RevokedInv'
<1> SUFFICES ASSUME Base, Base', RevokedInv, [Next]_vars PROVE RevokedInv'
  OBVIOUS
<1>1. ASSUME NEW w \in Workers, NEW u \in Users, register_user(w, u) PROVE RevokedInv'
  BY <1>1, RevokedRegister
<1>2. ASSUME NEW w \in Workers, NEW u \in Users, NEW t \in Tokens, login_user(w, u, t)
      PROVE  RevokedInv'
  BY <1>2, RevokedLogin
<1>3. ASSUME NEW w \in Workers, NEW op \in AllOps, NEW t \in Tokens, lookup_session(w, op, t)
      PROVE  RevokedInv'
  BY <1>3, RevokedLookup
<1>4. ASSUME NEW w \in Workers,
             \/ insert_user(w) \/ cache_user(w) \/ upsert_session(w) \/ persist_session(w)
             \/ refresh_session(w) \/ cache_refreshed(w) \/ erase_entry(w) \/ cache_found(w)
      PROVE  RevokedInv'
  BY <1>4, RevokedUsers, RevokedLoginRows, RevokedRefresh, RevokedCaches, RevokedErase
<1>5. ASSUME NEW w \in Workers,
             \/ remove_user_sessions(w) \/ delete_user_sessions(w) \/ find_active_session(w)
             \/ cleanup_session_token_or_expired(w) \/ remove_session(w) \/ delete_session(w)
      PROVE  RevokedInv'
  BY <1>5, RevokedRemoveOthers, RevokedDeleteOthers, RevokedFind, RevokedCleanup,
     RevokedRemoveOne, RevokedDeleteOne
<1>6. CASE Tick \/ (\E u \in Users : Disable(u)) \/ UNCHANGED vars
  <2>1. UNCHANGED <<user_sessions, g_auth_sessions, req, issued, revoked>>
    BY <1>6 DEF Tick, Disable, vars, tables, caches, history
  <2>2. QED  BY <2>1, RevokedOutside
<1>7. CASE load_user_cache
  BY <1>7, RevokedCrash
<1>8. QED  BY <1>1, <1>2, <1>3, <1>4, <1>5, <1>6, <1>7 DEF Next

LEMMA RevokedInit == Init => RevokedInv
<1> SUFFICES ASSUME Init PROVE RevokedInv
  OBVIOUS
<1>1. revoked = {} /\ \A w \in Workers : req[w].pc = "idle"
  BY IdleType DEF Init
<1>2. QED  BY <1>1 DEF RevokedInv, RevokedStaysOut

\* Whatever the interleaving of logins, logouts, lookups and failed statements,
\* a token whose removal was reported while nobody else worked on it never
\* comes back into the table or the cache.
THEOREM RevokedSafe == Spec => []RevokedStaysOut
<1>1. Init => Base /\ RevokedInv
  BY BaseInit, RevokedInit
<1>2. Base /\ RevokedInv /\ [Next]_vars => (Base /\ RevokedInv)'
  BY BaseNext, RevokedNext
<1>3. RevokedInv => RevokedStaysOut
  BY DEF RevokedInv
<1>4. QED  BY <1>1, <1>2, <1>3, PTL DEF Spec

-----------------------------------------------------------------------------
(***************************************************************************)
(* The cache does not run ahead of the table                               *)
(***************************************************************************)

\* A request lasts at most MaxSpan ticks, and what it is about to cache does not
\* outlive its row by more.
Timely(w) ==
    req[w].pc # "idle" =>
        /\ req[w].now <= now /\ now <= req[w].now + MaxSpan
        /\ req[w].token \in DOMAIN user_sessions =>
            /\ req[w].pc \in {"cache_session", "cache_refreshed"} =>
                req[w].now + Ttl <= user_sessions[req[w].token].expires_at
            /\ req[w].pc = "cache_found" => req[w].exp <= user_sessions[req[w].token].expires_at

ExpiryInv ==
    /\ CacheNotAhead
    /\ \A t \in DOMAIN user_sessions : user_sessions[t].expires_at <= now + Ttl
    /\ \A w \in Workers : Timely(w)

\* A step of w leaves each row at least its lifetime; a new row is known to w
\* alone.
RowsGrow(w) ==
    \A t \in DOMAIN user_sessions' :
        /\ user_sessions'[t].expires_at <= now + Ttl
        /\ t \in DOMAIN user_sessions =>
            user_sessions[t].expires_at <= user_sessions'[t].expires_at
        /\ t \notin DOMAIN user_sessions =>
            t \notin DOMAIN g_auth_sessions' /\ \A v \in Workers \ {w} : req[v].token # t

\* A step leaves each entry as it was, or in time.
EntriesKeep ==
    \A t \in DOMAIN g_auth_sessions' :
        \/ t \in DOMAIN g_auth_sessions /\ g_auth_sessions'[t] = g_auth_sessions[t]
        \/ t \in DOMAIN user_sessions' =>
            g_auth_sessions'[t].expires_at <= user_sessions'[t].expires_at + MaxSpan

\* Expiry times are numbers.
LEMMA ExpiryTypes ==
    ASSUME Types
    PROVE  /\ \A t \in DOMAIN user_sessions : user_sessions[t].expires_at \in Nat
           /\ \A t \in DOMAIN g_auth_sessions : g_auth_sessions[t].expires_at \in Nat
           /\ \A w \in Workers : req[w].now \in Nat /\ req[w].exp \in Nat
  BY DEF Types, IsTable, Sessions, Requests

LEMMA ExpiryStep ==
    ASSUME Base, Base', ExpiryInv, NEW w \in Workers, Others(w), UNCHANGED now, Timely(w)',
           RowsGrow(w), EntriesKeep
    PROVE  ExpiryInv'
<1>1. /\ \A t \in DOMAIN user_sessions : user_sessions[t].expires_at \in Nat
      /\ \A t \in DOMAIN g_auth_sessions : g_auth_sessions[t].expires_at \in Nat
      /\ \A v \in Workers : req[v].now \in Nat /\ req[v].exp \in Nat
  BY ExpiryTypes DEF Base
<1>2. \A t \in DOMAIN user_sessions' : user_sessions'[t].expires_at \in Nat
  BY DEF Base, Types, IsTable, Sessions
<1>3. CacheNotAhead'
  <2> SUFFICES ASSUME NEW t \in DOMAIN g_auth_sessions' \cap DOMAIN user_sessions'
               PROVE  g_auth_sessions'[t].expires_at <= user_sessions'[t].expires_at + MaxSpan
    BY DEF CacheNotAhead
  <2>1. CASE t \in DOMAIN g_auth_sessions /\ g_auth_sessions'[t] = g_auth_sessions[t]
    <3>1. /\ t \in DOMAIN user_sessions
          /\ user_sessions[t].expires_at <= user_sessions'[t].expires_at
      BY DEF RowsGrow
    <3>2. g_auth_sessions[t].expires_at <= user_sessions[t].expires_at + MaxSpan
      BY <2>1, <3>1 DEF ExpiryInv, CacheNotAhead
    <3>3. /\ g_auth_sessions[t].expires_at \in Nat /\ user_sessions[t].expires_at \in Nat
          /\ user_sessions'[t].expires_at \in Nat
      BY <1>1, <1>2, <2>1, <3>1
    <3>4. QED  BY <2>1, <3>1, <3>2, <3>3, SMTT(60) DEF MaxSpan
  <2>2. QED  BY <2>1 DEF EntriesKeep
<1>4. \A t \in DOMAIN user_sessions' : user_sessions'[t].expires_at <= now' + Ttl
  BY DEF RowsGrow
<1>5. ASSUME NEW v \in Workers \ {w} PROVE Timely(v)'
  <2>1. Kept(v) /\ Timely(v)
    BY DEF Others, ExpiryInv
  <2>2. req[v].token \in DOMAIN user_sessions' =>
            /\ req[v].token \in DOMAIN user_sessions
            /\ user_sessions[req[v].token].expires_at <= user_sessions'[req[v].token].expires_at
    BY DEF RowsGrow
  <2>3. CASE req[v].token \in DOMAIN user_sessions'
    <3>1. /\ user_sessions[req[v].token].expires_at \in Nat
          /\ user_sessions'[req[v].token].expires_at \in Nat
      BY <1>1, <1>2, <2>2, <2>3
    <3>2. /\ req[v].now + Ttl <= user_sessions[req[v].token].expires_at =>
                req[v].now + Ttl <= user_sessions'[req[v].token].expires_at
          /\ req[v].exp <= user_sessions[req[v].token].expires_at =>
                req[v].exp <= user_sessions'[req[v].token].expires_at
      BY <1>1, <2>2, <2>3, <3>1, AccountAssumption, SMTT(60) DEF AccountAssumption
    <3>3. QED  BY <2>1, <2>2, <2>3, <3>2 DEF Kept, Timely
  <2>4. QED  BY <2>1, <2>3 DEF Kept, Timely
<1>6. QED  BY <1>3, <1>4, <1>5 DEF ExpiryInv

\* The sessions g are some of f.
Shrinks(g, f) == DOMAIN g \subseteq DOMAIN f /\ \A t \in DOMAIN g : g[t] = f[t]

LEMMA TakesShrinks ==
    ASSUME NEW g, NEW f, NEW S, Takes(g, f, S)
    PROVE  Shrinks(g, f)
  BY DEF Takes, Shrinks

LEMMA SameShrinks ==
    ASSUME NEW f
    PROVE  Shrinks(f, f)
  BY DEF Shrinks

LEMMA RowsShrink ==
    ASSUME Types, ExpiryInv, NEW w \in Workers, Shrinks(user_sessions', user_sessions)
    PROVE  RowsGrow(w)
<1> SUFFICES ASSUME NEW t \in DOMAIN user_sessions'
             PROVE  /\ t \in DOMAIN user_sessions
                    /\ user_sessions'[t].expires_at <= now + Ttl
                    /\ user_sessions[t].expires_at <= user_sessions'[t].expires_at
  BY DEF RowsGrow
<1>1. /\ t \in DOMAIN user_sessions /\ user_sessions'[t] = user_sessions[t]
      /\ user_sessions[t].expires_at <= now + Ttl
  BY DEF Shrinks, ExpiryInv
<1>2. user_sessions[t].expires_at \in Nat
  BY <1>1, ExpiryTypes
<1>3. QED  BY <1>1, <1>2, SMTT(60)

LEMMA EntriesShrink ==
    ASSUME Shrinks(g_auth_sessions', g_auth_sessions)
    PROVE  EntriesKeep
  BY DEF Shrinks, EntriesKeep

\* A request goes on, ends or starts.
LEMMA TimelyOn ==
    ASSUME NEW w \in Workers, ExpiryInv, UNCHANGED now,
           req'[w].pc \notin {"cache_session", "cache_refreshed", "cache_found"},
           req'[w].pc = "idle" \/ (req[w].pc # "idle" /\ req'[w].now = req[w].now)
    PROVE  Timely(w)'
  BY DEF ExpiryInv, Timely

LEMMA TimelyNew ==
    ASSUME Types, NEW w \in Workers, UNCHANGED now,
           req'[w].pc \notin {"cache_session", "cache_refreshed", "cache_found"},
           req'[w].pc = "idle" \/ req'[w].now = now
    PROVE  Timely(w)'
<1>1. now <= now /\ now <= now + MaxSpan
  BY SMTT(60) DEF Types, MaxSpan
<1>2. QED  BY <1>1 DEF Timely

\* The step of a request that adds no session.
LEMMA ExpiryOn ==
    ASSUME Base, Base', ExpiryInv, NEW w \in Workers, Others(w), UNCHANGED now, Timely(w)',
           Shrinks(user_sessions', user_sessions), Shrinks(g_auth_sessions', g_auth_sessions)
    PROVE  ExpiryInv'
<1>1. Types
  BY DEF Base
<1>2. QED  BY <1>1, ExpiryStep, RowsShrink, EntriesShrink

LEMMA ExpiryRegister ==
    ASSUME Base, Base', ExpiryInv, NEW w \in Workers, NEW u \in Users, register_user(w, u)
    PROVE  ExpiryInv'
<1>1. Types /\ Others(w) /\ req'[w].pc = "insert_user" /\ req'[w].now = now
  BY RegisterEffect DEF Base
<1>2. UNCHANGED <<now, user_sessions, g_auth_sessions>>
  BY DEF register_user, tables, caches
<1>3. Timely(w)'
  BY <1>1, <1>2, TimelyNew
<1>4. QED  BY <1>1, <1>2, <1>3, ExpiryOn, SameShrinks

LEMMA ExpiryLogin ==
    ASSUME Base, Base', ExpiryInv, NEW w \in Workers, NEW u \in Users, NEW t \in Tokens,
           login_user(w, u, t)
    PROVE  ExpiryInv'
<1>1. Types /\ Others(w) /\ req'[w].pc = "upsert_session" /\ req'[w].now = now
  BY LoginStep DEF Base
<1>2. UNCHANGED <<now, user_sessions, g_auth_sessions>>
  BY DEF login_user, tables, caches
<1>3. Timely(w)'
  BY <1>1, <1>2, TimelyNew
<1>4. QED  BY <1>1, <1>2, <1>3, ExpiryOn, SameShrinks

LEMMA ExpiryUsers ==
    ASSUME Base, Base', ExpiryInv, NEW w \in Workers, insert_user(w) \/ cache_user(w)
    PROVE  ExpiryInv'
<1>1. /\ UNCHANGED <<now, user_sessions, g_auth_sessions>>
      /\ req[w].pc \in {"insert_user", "cache_user"}
  BY DEF insert_user, cache_user, tables, caches, At
<1>2. Goes(w, "cache_user") \/ Ends(w)
  BY InsertUserEffect, CacheUserEffect DEF Base
<1>3. /\ Others(w) /\ req'[w].pc \in {"idle", "cache_user"}
      /\ req'[w].pc = "idle" \/ req'[w].now = req[w].now
  BY <1>2, IdleType DEF Goes, Carried, Ends
<1>4. Timely(w)'
  BY <1>1, <1>3, TimelyOn
<1>5. QED  BY <1>1, <1>3, <1>4, ExpiryOn, SameShrinks

LEMMA ExpiryLookup ==
    ASSUME Base, Base', ExpiryInv, NEW w \in Workers, NEW op \in AllOps, NEW t \in Tokens,
           lookup_session(w, op, t)
    PROVE  ExpiryInv'
<1>1. UNCHANGED <<now, user_sessions>>
  BY DEF lookup_session, tables
<1>2. /\ Types /\ Others(w) /\ op \in {"access", "logout", "logout_all"}
      /\ Hit(w, op, t) \/ HitExpiring(w, op, t) \/ Miss(w, op, t)
  BY LookupStep DEF Base
<1>3. /\ req'[w].pc \in {"idle", "forget", "forget_others", "refresh", "find"}
      /\ req'[w].pc = "idle" \/ req'[w].now = now
  BY <1>2, IdleType DEF Hit, HitExpiring, Miss
<1>4. Shrinks(g_auth_sessions', g_auth_sessions)
  <2>1. Takes(Minus(g_auth_sessions, {t}), g_auth_sessions, {t})
    BY <1>2, MinusTakes DEF Types
  <2>2. g_auth_sessions' = g_auth_sessions \/ g_auth_sessions' = Minus(g_auth_sessions, {t})
    BY <1>2 DEF Hit, HitExpiring, Miss
  <2>3. QED  BY <2>1, <2>2, TakesShrinks, SameShrinks
<1>5. Timely(w)'
  BY <1>1, <1>2, <1>3, TimelyNew
<1>6. QED  BY <1>1, <1>2, <1>4, <1>5, ExpiryOn, SameShrinks

\* The steps that remove sessions.
LEMMA ExpiryRemovals ==
    ASSUME Base, Base', ExpiryInv, NEW w \in Workers,
           \/ remove_user_sessions(w) \/ delete_user_sessions(w) \/ remove_session(w)
           \/ delete_session(w) \/ erase_entry(w) \/ cleanup_session_token_or_expired(w)
    PROVE  ExpiryInv'
<1>1. UNCHANGED now /\ req[w].pc # "idle" /\ Types
  BY DEF remove_user_sessions, delete_user_sessions, remove_session, delete_session, erase_entry,
         cleanup_session_token_or_expired, At, Base
<1>2. CASE remove_user_sessions(w)
  <2>1. /\ Others(w) /\ req'[w].pc = "delete_others" /\ req'[w].now = req[w].now
        /\ \E S : Takes(g_auth_sessions', g_auth_sessions, S)
    BY <1>1, <1>2, RemoveOthersEffect
  <2>2. UNCHANGED user_sessions
    BY <1>2 DEF remove_user_sessions, tables
  <2>3. Timely(w)'
    BY <1>1, <2>1, TimelyOn
  <2>4. QED  BY <1>1, <2>1, <2>2, <2>3, ExpiryOn, TakesShrinks, SameShrinks
<1>3. CASE delete_user_sessions(w)
  <2>1. /\ Ends(w) \/ Goes(w, "forget")
        /\ UNCHANGED user_sessions \/ \E S : Takes(user_sessions', user_sessions, S)
    BY <1>1, <1>3, DeleteOthersEffect
  <2>2. UNCHANGED g_auth_sessions
    BY <1>3 DEF delete_user_sessions, caches
  <2>3. /\ Others(w) /\ req'[w].pc \in {"idle", "forget"}
        /\ req'[w].pc = "idle" \/ req'[w].now = req[w].now
    BY <2>1, IdleType DEF Ends, Goes, Carried
  <2>4. Timely(w)'
    BY <1>1, <2>3, TimelyOn
  <2>5. QED  BY <1>1, <2>1, <2>2, <2>3, <2>4, ExpiryOn, TakesShrinks, SameShrinks
<1>4. CASE remove_session(w)
  <2>1. req[w].token \in issued
    BY <1>4 DEF remove_session, At, Base, Shape, Carries
  <2>2. /\ Others(w) /\ req'[w].pc = "delete" /\ req'[w].now = req[w].now
        /\ Takes(g_auth_sessions', g_auth_sessions, {req[w].token})
    BY <1>1, <1>4, <2>1, RemoveOneEffect
  <2>3. UNCHANGED user_sessions
    BY <1>4 DEF remove_session, tables
  <2>4. Timely(w)'
    BY <1>1, <2>2, TimelyOn
  <2>5. QED  BY <1>1, <2>2, <2>3, <2>4, ExpiryOn, TakesShrinks, SameShrinks
<1>5. CASE delete_session(w) \/ cleanup_session_token_or_expired(w)
  <2>1. /\ Ends(w)
        /\ UNCHANGED user_sessions \/ \E S : Takes(user_sessions', user_sessions, S)
    BY <1>1, <1>5, DeleteOneEffect, CleanupEffect
  <2>2. UNCHANGED g_auth_sessions
    BY <1>5 DEF delete_session, cleanup_session_token_or_expired, caches
  <2>3. Others(w) /\ req'[w].pc = "idle"
    BY <2>1, IdleType DEF Ends
  <2>4. Timely(w)'
    BY <1>1, <2>3, TimelyOn
  <2>5. QED  BY <1>1, <2>1, <2>2, <2>3, <2>4, ExpiryOn, TakesShrinks, SameShrinks
<1>6. CASE erase_entry(w)
  <2>1. Goes(w, "find") /\ Takes(g_auth_sessions', g_auth_sessions, {req[w].token})
    BY <1>1, <1>6, EraseEffect
  <2>2. UNCHANGED user_sessions
    BY <1>6 DEF erase_entry, tables
  <2>3. Others(w) /\ req'[w].pc = "find" /\ req'[w].now = req[w].now
    BY <2>1 DEF Goes, Carried
  <2>4. Timely(w)'
    BY <1>1, <2>3, TimelyOn
  <2>5. QED  BY <1>1, <2>1, <2>2, <2>3, <2>4, ExpiryOn, TakesShrinks, SameShrinks
<1>7. QED  BY <1>2, <1>3, <1>4, <1>5, <1>6

\* The row of a token is made or renewed: by the login that drew the token, or
\* for a row that is there.
LEMMA RowsAdded ==
    ASSUME Types, ExpiryInv, NEW w \in Workers, NEW u, UNCHANGED g_auth_sessions,
           Adds(user_sessions', user_sessions, req[w].token, u, now + Ttl),
           req[w].token \notin DOMAIN user_sessions =>
               /\ req[w].token \notin DOMAIN g_auth_sessions
               /\ \A v \in Workers \ {w} : req[v].token # req[w].token
    PROVE  RowsGrow(w)
<1> SUFFICES ASSUME NEW t \in DOMAIN user_sessions'
             PROVE  /\ user_sessions'[t].expires_at <= now + Ttl
                    /\ t \in DOMAIN user_sessions =>
                        user_sessions[t].expires_at <= user_sessions'[t].expires_at
                    /\ t \notin DOMAIN user_sessions => t = req[w].token
  BY DEF RowsGrow
<1>1. now + Ttl \in Nat
  BY AccountAssumption, SMTT(60) DEF AccountAssumption, Types
<1>2. t \in DOMAIN user_sessions =>
          user_sessions[t].expires_at \in Nat /\ user_sessions[t].expires_at <= now + Ttl
  BY ExpiryTypes DEF ExpiryInv
<1>3. \/ t = req[w].token /\ user_sessions'[t].expires_at = now + Ttl
      \/ t \in DOMAIN user_sessions /\ user_sessions'[t] = user_sessions[t]
  BY DEF Adds
<1>4. QED  BY <1>1, <1>2, <1>3, SMTT(60)

LEMMA ExpiryUpsert ==
    ASSUME Base, Base', ExpiryInv, NEW w \in Workers, upsert_session(w)
    PROVE  ExpiryInv'
<1>1. UNCHANGED <<now, g_auth_sessions>> /\ req[w].pc = "upsert_session"
  BY DEF upsert_session, caches, At
<1>2. Types /\ Shape /\ Carries(req[w]) /\ Alone(w)
  BY DEF Base, Shape
<1>3. CASE /\ Goes(w, "cache_session")
           /\ Adds(user_sessions', user_sessions, req[w].token, req[w].user, now + Ttl)
  <2>1. /\ req[w].token \notin DOMAIN user_sessions /\ req[w].token \notin DOMAIN g_auth_sessions
        /\ \A v \in Workers \ {w} : req[v].token # req[w].token
    BY <1>1, <1>2 DEF Carries, Alone
  <2>2. RowsGrow(w)
    BY <1>1, <1>2, <1>3, <2>1, RowsAdded
  <2>3. /\ Others(w) /\ req'[w].pc = "cache_session" /\ req'[w].now = req[w].now
        /\ req'[w].token = req[w].token
    BY <1>3 DEF Goes, Carried
  <2>4. user_sessions'[req[w].token].expires_at = now + Ttl
    BY <1>3 DEF Adds
  <2>5. req[w].now <= now /\ now <= req[w].now + MaxSpan
    BY <1>1 DEF ExpiryInv, Timely
  <2>6. req[w].now + Ttl <= now + Ttl
    <3>1. req[w].now \in Nat /\ now \in Nat
      BY <1>2 DEF Types, Requests
    <3>2. QED  BY <2>5, <3>1, AccountAssumption, SMTT(60) DEF AccountAssumption
  <2>7. Timely(w)'
    BY <1>1, <2>3, <2>4, <2>5, <2>6 DEF Timely
  <2>8. EntriesKeep
    BY <1>1, EntriesShrink, SameShrinks
  <2>9. QED  BY <1>1, <2>2, <2>3, <2>7, <2>8, ExpiryStep
<1>4. CASE Ends(w) /\ UNCHANGED user_sessions
  <2>1. Others(w) /\ req'[w].pc = "idle"
    BY <1>4, IdleType DEF Ends
  <2>2. Timely(w)'
    BY <1>1, <2>1, TimelyOn
  <2>3. QED  BY <1>1, <1>4, <2>1, <2>2, ExpiryOn, SameShrinks
<1>5. QED  BY <1>2, <1>3, <1>4, UpsertEffect

LEMMA ExpiryRefresh ==
    ASSUME Base, Base', ExpiryInv, NEW w \in Workers, refresh_session(w)
    PROVE  ExpiryInv'
<1>1. UNCHANGED <<now, g_auth_sessions>> /\ req[w].pc \in {"refresh", "refresh_found"}
  BY DEF refresh_session, caches
<1>2. Types /\ Shape
  BY DEF Base
<1>3. CASE /\ Goes(w, "cache_refreshed") /\ refresh_matches(req[w].token, req[w].user)
           /\ Adds(user_sessions', user_sessions, req[w].token, req[w].user, now + Ttl)
  <2>1. req[w].token \in DOMAIN user_sessions
    BY <1>3 DEF refresh_matches
  <2>2. RowsGrow(w)
    BY <1>1, <1>2, <1>3, <2>1, RowsAdded
  <2>3. /\ Others(w) /\ req'[w].pc = "cache_refreshed" /\ req'[w].now = req[w].now
        /\ req'[w].token = req[w].token
    BY <1>3 DEF Goes, Carried
  <2>4. user_sessions'[req[w].token].expires_at = now + Ttl
    BY <1>3 DEF Adds
  <2>5. req[w].now <= now /\ now <= req[w].now + MaxSpan
    BY <1>1 DEF ExpiryInv, Timely
  <2>6. req[w].now + Ttl <= now + Ttl
    <3>1. req[w].now \in Nat /\ now \in Nat
      BY <1>2 DEF Types, Requests
    <3>2. QED  BY <2>5, <3>1, AccountAssumption, SMTT(60) DEF AccountAssumption
  <2>7. Timely(w)'
    BY <1>1, <2>3, <2>4, <2>5, <2>6 DEF Timely
  <2>8. EntriesKeep
    BY <1>1, EntriesShrink, SameShrinks
  <2>9. QED  BY <1>1, <2>2, <2>3, <2>7, <2>8, ExpiryStep
<1>4. CASE UNCHANGED user_sessions /\ (Goes(w, "erase") \/ AcceptedNow(w))
  <2>1. req[w].op \in {"access", "logout", "logout_all"}
    BY <1>1 DEF Base, Shape, Carries, LookupPCs
  <2>2. /\ Others(w) /\ req'[w].pc \in {"idle", "erase", "forget", "forget_others"}
        /\ req'[w].pc = "idle" \/ req'[w].now = req[w].now
    BY <1>4, <2>1, IdleType DEF Goes, Carried, AcceptedNow
  <2>3. Timely(w)'
    BY <1>1, <2>2, TimelyOn
  <2>4. QED  BY <1>1, <1>4, <2>2, <2>3, ExpiryOn, SameShrinks
<1>5. QED  BY <1>2, <1>3, <1>4, RefreshEffect

LEMMA EntriesAdded ==
    ASSUME NEW w \in Workers, NEW u, NEW e, UNCHANGED user_sessions,
           Adds(g_auth_sessions', g_auth_sessions, req[w].token, u, e),
           req[w].token \in DOMAIN user_sessions =>
               e <= user_sessions[req[w].token].expires_at + MaxSpan
    PROVE  EntriesKeep
  BY DEF EntriesKeep, Adds

\* What a request caches a lifetime for is in time.
LEMMA FreshEntry ==
    ASSUME Types, ExpiryInv, NEW w \in Workers, req[w].token \in DOMAIN user_sessions
    PROVE  /\ req[w].pc \in {"cache_session", "cache_refreshed"} =>
                now + Ttl <= user_sessions[req[w].token].expires_at + MaxSpan
           /\ req[w].pc = "cache_found" =>
                req[w].exp <= user_sessions[req[w].token].expires_at + MaxSpan
<1> DEFINE e == user_sessions[req[w].token].expires_at
<1>1. e \in Nat /\ now \in Nat /\ req[w].now \in Nat /\ req[w].exp \in Nat
  BY ExpiryTypes DEF Types
<1>2. req[w].pc \in {"cache_session", "cache_refreshed"} =>
          now <= req[w].now + MaxSpan /\ req[w].now + Ttl <= e
  BY DEF ExpiryInv, Timely
<1>3. req[w].pc = "cache_found" => req[w].exp <= e
  BY DEF ExpiryInv, Timely
<1> HIDE DEF e
<1>4. /\ now <= req[w].now + MaxSpan /\ req[w].now + Ttl <= e => now + Ttl <= e + MaxSpan
      /\ req[w].exp <= e => req[w].exp <= e + MaxSpan
  BY <1>1, AccountAssumption, SMTT(60) DEF AccountAssumption, MaxSpan
<1>5. QED  BY <1>2, <1>3, <1>4 DEF e

LEMMA ExpiryCaches ==
    ASSUME Base, Base', ExpiryInv, NEW w \in Workers,
           persist_session(w) \/ cache_refreshed(w) \/ cache_found(w)
    PROVE  ExpiryInv'
<1>1. /\ UNCHANGED <<now, user_sessions>>
      /\ req[w].pc \in {"cache_session", "cache_refreshed", "cache_found"}
  BY DEF persist_session, cache_refreshed, cache_found, tables, At
<1>2. Types /\ Shape
  BY DEF Base
<1>3. CASE persist_session(w) \/ cache_refreshed(w)
  <2>1. Adds(g_auth_sessions', g_auth_sessions, req[w].token, req[w].user, now + Ttl)
    BY <1>2, <1>3, PersistEffect, CacheRefreshedEffect
  <2>2. req[w].pc \in {"cache_session", "cache_refreshed"}
    BY <1>3 DEF persist_session, cache_refreshed, At
  <2>3. EntriesKeep
    BY <1>1, <1>2, <2>1, <2>2, FreshEntry, EntriesAdded
  <2>4. Goes(w, "forget_others") \/ AcceptedNow(w)
    BY <1>2, <1>3, PersistEffect, CacheRefreshedEffect
  <2>5. req[w].op \in {"login", "access", "logout", "logout_all"}
    BY <1>1 DEF Base, Shape, Carries, LookupPCs
  <2>6. /\ Others(w) /\ req'[w].pc \in {"idle", "forget", "forget_others"}
        /\ req'[w].pc = "idle" \/ req'[w].now = req[w].now
    BY <2>4, <2>5, IdleType DEF Goes, Carried, AcceptedNow
  <2>7. Timely(w)'
    BY <1>1, <2>6, TimelyOn
  <2>8. RowsGrow(w)
    BY <1>1, <1>2, RowsShrink, SameShrinks
  <2>9. QED  BY <1>1, <2>3, <2>6, <2>7, <2>8, ExpiryStep
<1>4. CASE cache_found(w)
  <2>1. /\ Adds(g_auth_sessions', g_auth_sessions, req[w].token, req[w].user, req[w].exp)
        /\ Goes(w, "refresh_found") \/ AcceptedNow(w)
    BY <1>2, <1>4, CacheFoundEffect
  <2>2. req[w].pc = "cache_found"
    BY <1>4 DEF cache_found, At
  <2>3. EntriesKeep
    BY <1>1, <1>2, <2>1, <2>2, FreshEntry, EntriesAdded
  <2>4. req[w].op \in {"access", "logout", "logout_all"}
    BY <2>2 DEF Base, Shape, Carries, LookupPCs
  <2>5. /\ Others(w) /\ req'[w].pc \in {"idle", "refresh_found", "forget", "forget_others"}
        /\ req'[w].pc = "idle" \/ req'[w].now = req[w].now
    BY <2>1, <2>4, IdleType DEF Goes, Carried, AcceptedNow
  <2>6. Timely(w)'
    BY <1>1, <2>5, TimelyOn
  <2>7. RowsGrow(w)
    BY <1>1, <1>2, RowsShrink, SameShrinks
  <2>8. QED  BY <1>1, <2>3, <2>5, <2>6, <2>7, ExpiryStep
<1>5. QED  BY <1>3, <1>4

LEMMA ExpiryFind ==
    ASSUME Base, Base', ExpiryInv, NEW w \in Workers, find_active_session(w)
    PROVE  ExpiryInv'
<1>1. UNCHANGED <<now, user_sessions, g_auth_sessions>> /\ req[w].pc = "find"
  BY DEF find_active_session, tables, caches, At
<1>2. CASE Goes(w, "cleanup")
  <2>1. Others(w) /\ req'[w].pc = "cleanup" /\ req'[w].now = req[w].now
    BY <1>2 DEF Goes, Carried
  <2>2. Timely(w)'
    BY <1>1, <2>1, TimelyOn
  <2>3. QED  BY <1>1, <2>1, <2>2, ExpiryOn, SameShrinks
<1>3. CASE /\ req[w].token \in DOMAIN user_sessions
           /\ Finds(w, user_sessions[req[w].token].user, user_sessions[req[w].token].expires_at)
  <2>1. /\ Others(w) /\ req'[w].token = req[w].token /\ req'[w].pc = "cache_found"
        /\ req'[w].now = req[w].now
        /\ req'[w].exp = user_sessions[req[w].token].expires_at
    BY <1>3 DEF Finds
  <2>2. req'[w].exp <= user_sessions[req[w].token].expires_at
    <3>1. req'[w].exp \in Nat
      BY <2>1 DEF Others, Requests
    <3>2. QED  BY <2>1, <3>1, SMTT(60)
  <2>3. Timely(w)'
    BY <1>1, <2>1, <2>2 DEF ExpiryInv, Timely
  <2>4. QED  BY <1>1, <2>1, <2>3, ExpiryOn, SameShrinks
<1>4. QED  BY <1>2, <1>3, FindEffect DEF Base

LEMMA ExpiryTick ==
    ASSUME Base, ExpiryInv, Tick
    PROVE  ExpiryInv'
<1>1. /\ UNCHANGED <<user_sessions, g_auth_sessions, req>> /\ now' = now + 1
      /\ \A w \in Workers : req[w].pc # "idle" => now < req[w].now + MaxSpan
  BY DEF Tick, tables, caches, Busy
<1>2. now \in Nat /\ Types
  BY DEF Base, Types
<1>3. CacheNotAhead'
  BY <1>1 DEF ExpiryInv, CacheNotAhead
<1>4. ASSUME NEW t \in DOMAIN user_sessions'
      PROVE  user_sessions'[t].expires_at <= now' + Ttl
  <2>1. user_sessions[t].expires_at \in Nat /\ user_sessions[t].expires_at <= now + Ttl
    BY <1>1, <1>2, <1>4, ExpiryTypes DEF ExpiryInv
  <2>2. QED  BY <1>1, <1>2, <2>1, AccountAssumption, SMTT(60) DEF AccountAssumption
<1>5. ASSUME NEW w \in Workers PROVE Timely(w)'
  <2>1. Timely(w) /\ req[w].now \in Nat
    BY <1>2, ExpiryTypes DEF ExpiryInv
  <2>2. req[w].pc # "idle" => req[w].now <= now'
    <3>1. req[w].pc # "idle" => req[w].now <= now
      BY <2>1 DEF Timely
    <3>2. req[w].now <= now => req[w].now <= now'
      BY <1>1, <1>2, <2>1, SMTT(60)
    <3>3. QED  BY <3>1, <3>2
  <2>3. req[w].pc # "idle" => now' <= req[w].now + MaxSpan
    <3>1. now < req[w].now + MaxSpan => now' <= req[w].now + MaxSpan
      BY <1>1, <1>2, <2>1, SMTT(60) DEF MaxSpan
    <3>2. QED  BY <1>1, <3>1
  <2>4. QED  BY <1>1, <2>1, <2>2, <2>3 DEF Timely
<1>6. QED  BY <1>3, <1>4, <1>5 DEF ExpiryInv

LEMMA ExpiryCrash ==
    ASSUME ExpiryInv, load_user_cache
    PROVE  ExpiryInv'
<1>1. /\ UNCHANGED <<now, user_sessions>> /\ DOMAIN g_auth_sessions' = {}
      /\ \A w \in Workers : req'[w] = Idle
  BY DEF load_user_cache, tables, Empty
<1>2. \A w \in Workers : req'[w].pc = "idle"
  BY <1>1, IdleType
<1>3. QED  BY <1>1, <1>2 DEF ExpiryInv, CacheNotAhead, Timely

LEMMA ExpiryOutside ==
    ASSUME ExpiryInv, UNCHANGED <<now, user_sessions, g_auth_sessions, req>>
    PROVE  ExpiryInv'
  BY DEF ExpiryInv, CacheNotAhead, Timely

LEMMA ExpiryNext == Base /\ Base' /\ ExpiryInv /\ [Next]_vars => ExpiryInv'
<1> SUFFICES ASSUME Base, Base', ExpiryInv, [Next]_vars PROVE ExpiryInv'
  OBVIOUS
<1>1. ASSUME NEW w \in Workers, NEW u \in Users, register_user(w, u) PROVE ExpiryInv'
  BY <1>1, ExpiryRegister
<1>2. ASSUME NEW w \in Workers, NEW u \in Users, NEW t \in Tokens, login_user(w, u, t)
      PROVE  ExpiryInv'
  BY <1>2, ExpiryLogin
<1>3. ASSUME NEW w \in Workers, NEW op \in AllOps, NEW t \in Tokens, lookup_session(w, op, t)
      PROVE  ExpiryInv'
  BY <1>3, ExpiryLookup
<1>4. ASSUME NEW w \in Workers,
             \/ insert_user(w) \/ cache_user(w) \/ upsert_session(w) \/ persist_session(w)
             \/ refresh_session(w) \/ cache_refreshed(w) \/ cache_found(w)
             \/ find_active_session(w)
      PROVE  ExpiryInv'
  BY <1>4, ExpiryUsers, ExpiryUpsert, ExpiryRefresh, ExpiryCaches, ExpiryFind
<1>5. ASSUME NEW w \in Workers,
             \/ remove_user_sessions(w) \/ delete_user_sessions(w) \/ remove_session(w)
             \/ delete_session(w) \/ erase_entry(w) \/ cleanup_session_token_or_expired(w)
      PROVE  ExpiryInv'
  BY <1>5, ExpiryRemovals
<1>6. CASE (\E u \in Users : Disable(u)) \/ UNCHANGED vars
  <2>1. UNCHANGED <<now, user_sessions, g_auth_sessions, req>>
    BY <1>6 DEF Disable, vars, tables, caches
  <2>2. QED  BY <2>1, ExpiryOutside
<1>7. CASE Tick
  BY <1>7, ExpiryTick
<1>8. CASE load_user_cache
  BY <1>8, ExpiryCrash
<1>9. QED  BY <1>1, <1>2, <1>3, <1>4, <1>5, <1>6, <1>7, <1>8 DEF Next

LEMMA ExpiryInit == Init => ExpiryInv
<1> SUFFICES ASSUME Init PROVE ExpiryInv
  OBVIOUS
<1>1. DOMAIN user_sessions = {} /\ \A w \in Workers : req[w].pc = "idle"
  BY IdleType DEF Init, Empty
<1>2. QED  BY <1>1 DEF ExpiryInv, CacheNotAhead, Timely

\* However lookups, refreshes and logins interleave with the clock, a cached
\* session expires no later than its row plus the time one request takes.
THEOREM CacheSafe == Spec => []CacheNotAhead
<1>1. Init => Base /\ ExpiryInv
  BY BaseInit, ExpiryInit
<1>2. Base /\ ExpiryInv /\ [Next]_vars => (Base /\ ExpiryInv)'
  BY BaseNext, ExpiryNext
<1>3. ExpiryInv => CacheNotAhead
  BY DEF ExpiryInv
<1>4. QED  BY <1>1, <1>2, <1>3, PTL DEF Spec

-----------------------------------------------------------------------------
(***************************************************************************)
(* A login stays usable                                                    *)
(***************************************************************************)

\* A usable session has a row that is valid, of a user who is enabled.
Valid(t) ==
    /\ t \in DOMAIN user_sessions /\ user_sessions[t].expires_at > now
    /\ users[user_sessions[t].user] = "enabled"

\* A removal under way is not about to take a usable session.
Spares(w) ==
    /\ req[w].pc \in {"cleanup", "delete"} => req[w].token \notin usable
    /\ req[w].pc = "delete_others" =>
        \A t \in usable : user_sessions[t].user = req[w].user =>
            req[w].op = "login" /\ t = req[w].token

\* A login that is alone keeps its row, and nobody else removes rows of its user.
Holds(w) ==
    /\ req[w].pc \in {"cache_session", "forget_others", "delete_others"}
    /\ req[w].op = "login" /\ req[w].solo
Row(w) ==
    /\ req[w].token \in DOMAIN user_sessions
    /\ req[w].now + Ttl <= user_sessions[req[w].token].expires_at
Removes(w) ==
    req[w].pc # "idle" /\ (req[w].op = "login" \/ req[w].pc \in {"forget_others", "delete_others"})
Apart(w) ==
    req[w].pc # "idle" /\ req[w].op = "login" /\ req[w].solo =>
        \A v \in Workers \ {w} : Removes(v) => req[v].user # req[w].user

UsableInv ==
    /\ \A t \in usable : Valid(t)
    /\ \A w \in Workers : Spares(w) /\ (Holds(w) => Row(w)) /\ Apart(w)

\* w does not start to remove the rows of a user who logs in alone.
Yields(w) ==
    Removes(w)' =>
        \/ Removes(w) /\ req'[w].user = req[w].user
        \/ \A v \in Workers \ {w} :
            req'[v].pc # "idle" /\ req'[v].op = "login" /\ req'[v].user = req'[w].user =>
                ~req'[v].solo

\* The step of a request keeps UsableInv when it does its own part.
LEMMA UsableStep ==
    ASSUME Base, Base', UsableInv, NEW w \in Workers, Others(w), Yields(w),
           \A t \in usable' : Valid(t)',
           \A t \in usable' :
               \/ t \in usable /\ user_sessions'[t].user = user_sessions[t].user
               \/ \A v \in Workers \ {w} :
                    /\ req[v].token # t
                    /\ req[v].pc = "delete_others" => user_sessions'[t].user # req[v].user,
           \A v \in Workers \ {w} : Holds(v) /\ Row(v) => Row(v)',
           Spares(w)', Holds(w)' => Row(w)', Apart(w)'
    PROVE  UsableInv'
<1>1. ASSUME NEW v \in Workers \ {w} PROVE Spares(v)' /\ (Holds(v)' => Row(v)') /\ Apart(v)'
  <2>1. Kept(v) /\ Spares(v) /\ (Holds(v) => Row(v)) /\ Apart(v)
    BY DEF Others, UsableInv
  <2>2. req'[v].pc \in {"cleanup", "delete"} => req'[v].token \notin usable'
    BY <2>1 DEF Kept, Spares
  <2>3. req'[v].pc = "delete_others" =>
            \A t \in usable' : user_sessions'[t].user = req'[v].user =>
                req'[v].op = "login" /\ t = req'[v].token
    BY <2>1 DEF Kept, Spares
  <2>4. Holds(v)' => Holds(v)
    BY <2>1 DEF Kept, Holds
  <2>5. Apart(v)'
    <3> SUFFICES ASSUME req'[v].pc # "idle", req'[v].op = "login", req'[v].solo,
                        NEW x \in Workers \ {v}, Removes(x)'
                 PROVE  req'[x].user # req'[v].user
      BY DEF Apart
    <3>1. /\ req'[v].user = req[v].user
          /\ \A y \in Workers \ {v} : Removes(y) => req[y].user # req[v].user
      BY <2>1 DEF Kept, Apart
    <3>2. CASE x = w
      BY <3>1, <3>2 DEF Yields
    <3>3. CASE x # w
      <4>1. Kept(x)
        BY <3>3 DEF Others
      <4>2. Removes(x) /\ req'[x].user = req[x].user
        BY <4>1 DEF Kept, Removes
      <4>3. QED  BY <3>1, <4>2
    <3>4. QED  BY <3>2, <3>3
  <2>6. QED  BY <2>1, <2>2, <2>3, <2>4, <2>5 DEF Spares
<1>2. QED  BY <1>1 DEF UsableInv

\* The step of a request that leaves the rows alone.
LEMMA UsableOn ==
    ASSUME Base, Base', UsableInv, NEW w \in Workers, Others(w), Yields(w),
           UNCHANGED <<now, user_sessions>>, usable' \subseteq usable,
           \A u \in Users : users[u] = "enabled" => users'[u] = "enabled",
           Spares(w)', Holds(w)' => Row(w)', Apart(w)'
    PROVE  UsableInv'
<1>1. ASSUME NEW t \in usable'
      PROVE  Valid(t)' /\ t \in usable /\ user_sessions'[t].user = user_sessions[t].user
  <2>1. t \in usable /\ Valid(t)
    BY DEF UsableInv
  <2>2. user_sessions[t].user \in Users
    BY <2>1 DEF Valid, Base, Types, IsTable, Sessions
  <2>3. QED  BY <2>1, <2>2 DEF Valid
<1>2. ASSUME NEW v \in Workers \ {w}, Row(v) PROVE Row(v)'
  <2>1. Kept(v)
    BY DEF Others
  <2>2. QED  BY <1>2, <2>1 DEF Kept, Row
<1>3. QED  BY <1>1, <1>2, UsableStep

\* A request that neither logs in nor is about to remove has no part of its own.
LEMMA NoPart ==
    ASSUME NEW w \in Workers,
           req'[w].pc \notin {"cleanup", "delete", "delete_others", "forget_others"},
           req'[w].pc = "idle" \/ req'[w].op # "login"
    PROVE  Spares(w)' /\ (Holds(w)' => Row(w)') /\ Apart(w)' /\ Yields(w)
  BY DEF Spares, Holds, Apart, Yields, Removes

\* A login stays as apart as it was.
LEMMA StaysApart ==
    ASSUME UsableInv, NEW w \in Workers, Others(w), req[w].pc # "idle",
           req'[w].op = req[w].op, req'[w].user = req[w].user, req'[w].solo => req[w].solo
    PROVE  Apart(w)'
<1>1. Apart(w)
  BY DEF UsableInv
<1>2. ASSUME NEW v \in Workers \ {w}
      PROVE  (Removes(v)' => Removes(v)) /\ req'[v].user = req[v].user
  <2>1. Kept(v)
    BY DEF Others
  <2>2. QED  BY <2>1 DEF Kept, Removes
<1>3. QED  BY <1>1, <1>2 DEF Apart

LEMMA UsableRegister ==
    ASSUME Base, Base', UsableInv, NEW w \in Workers, NEW u \in Users, register_user(w, u)
    PROVE  UsableInv'
<1>1. Others(w) /\ req'[w].pc = "insert_user" /\ req'[w].op = "register"
  BY RegisterEffect DEF Base
<1>2. UNCHANGED <<now, users, user_sessions, usable>>
  BY DEF register_user, tables, history
<1>3. Spares(w)' /\ (Holds(w)' => Row(w)') /\ Apart(w)' /\ Yields(w)
  BY <1>1, NoPart
<1>4. usable' \subseteq usable
  BY <1>2
<1>5. QED  BY <1>1, <1>2, <1>3, <1>4, UsableOn

LEMMA UsableUsers ==
    ASSUME Base, Base', UsableInv, NEW w \in Workers, insert_user(w) \/ cache_user(w)
    PROVE  UsableInv'
<1>1. /\ UNCHANGED <<now, user_sessions, usable>>
      /\ req[w].pc \in {"insert_user", "cache_user"} /\ Types
  BY DEF insert_user, cache_user, tables, history, At, Base
<1>2. Goes(w, "cache_user") \/ Ends(w)
  BY <1>1, InsertUserEffect, CacheUserEffect
<1>3. req[w].op = "register"
  BY <1>1 DEF Base, Shape, Carries
<1>4. /\ Others(w) /\ req'[w].pc \in {"idle", "cache_user"}
      /\ req'[w].pc = "idle" \/ req'[w].op = "register"
  BY <1>2, <1>3, IdleType DEF Goes, Carried, Ends
<1>5. Spares(w)' /\ (Holds(w)' => Row(w)') /\ Apart(w)' /\ Yields(w)
  BY <1>4, NoPart
<1>6. \A u \in Users : users[u] = "enabled" => users'[u] = "enabled"
  <2>1. CASE insert_user(w)
    BY <1>1, <2>1, InsertUserEffect DEF Types
  <2>2. CASE cache_user(w)
    BY <2>2 DEF cache_user, tables
  <2>3. QED  BY <2>1, <2>2
<1>7. usable' \subseteq usable
  BY <1>1
<1>8. QED  BY <1>1, <1>4, <1>5, <1>6, <1>7, UsableOn

LEMMA UsableLogin ==
    ASSUME Base, Base', UsableInv, NEW w \in Workers, NEW u \in Users, NEW t \in Tokens,
           login_user(w, u, t)
    PROVE  UsableInv'
<1>1. UNCHANGED <<now, users, user_sessions, usable>> /\ req[w].pc = "idle"
  BY DEF login_user, tables, history, Busy
<1>2. /\ Others(w) /\ req'[w].pc = "upsert_session" /\ req'[w].op = "login" /\ req'[w].user = u
      /\ req'[w].solo => \A v \in Workers : ~Changing(v, u)
      /\ \A v \in Workers \ {w} : Changing(v, u) => ~req'[v].solo
  BY LoginStep DEF Base
<1>3. ASSUME NEW v \in Workers \ {w} PROVE Removes(v)' /\ req'[v].user = u => Changing(v, u)
  <2>1. Kept(v) /\ Carries(req[v])
    BY <1>2 DEF Others, Base, Shape
  <2>2. QED  BY <2>1 DEF Kept, Carries, Removes, Changing, Busy
<1>4. Apart(w)'
  BY <1>2, <1>3 DEF Apart
<1>5. Yields(w)
  <2>1. ASSUME NEW v \in Workers \ {w}, req'[v].pc # "idle", req'[v].op = "login",
               req'[v].user = req'[w].user
        PROVE  ~req'[v].solo
    BY <1>2, <1>3, <2>1 DEF Removes
  <2>2. QED  BY <2>1 DEF Yields
<1>6. Spares(w)' /\ (Holds(w)' => Row(w)')
  BY <1>2 DEF Spares, Holds
<1>7. usable' \subseteq usable
  BY <1>1
<1>8. QED  BY <1>1, <1>2, <1>4, <1>5, <1>6, <1>7, UsableOn

\* The step of a request after which each row is there and lives as long.
RowsKeep ==
    \A t \in DOMAIN user_sessions :
        /\ t \in DOMAIN user_sessions' /\ user_sessions'[t].user = user_sessions[t].user
        /\ user_sessions[t].expires_at <= user_sessions'[t].expires_at

LEMMA UsableRows ==
    ASSUME Base, Base', UsableInv, NEW w \in Workers, Others(w), Yields(w),
           UNCHANGED <<now, users, usable>>, RowsKeep,
           Spares(w)', Holds(w)' => Row(w)', Apart(w)'
    PROVE  UsableInv'
<1>0. /\ \A t \in DOMAIN user_sessions : user_sessions[t].expires_at \in Nat
      /\ \A t \in DOMAIN user_sessions' : user_sessions'[t].expires_at \in Nat
      /\ now \in Nat /\ \A v \in Workers : req[v].now + Ttl \in Nat
  <2>1. \A v \in Workers : req[v].now \in Nat
    BY ExpiryTypes DEF Base
  <2>2. \A t \in DOMAIN user_sessions' : user_sessions'[t].expires_at \in Nat
    BY DEF Base, Types, IsTable, Sessions
  <2>3. \A v \in Workers : req[v].now + Ttl \in Nat
    BY <2>1, AccountAssumption, SMTT(60) DEF AccountAssumption
  <2>4. QED  BY <2>2, <2>3, ExpiryTypes DEF Base, Types
<1>1. ASSUME NEW t \in usable'
      PROVE  Valid(t)' /\ t \in usable /\ user_sessions'[t].user = user_sessions[t].user
  <2>1. t \in usable /\ Valid(t)
    BY DEF UsableInv
  <2>2. /\ t \in DOMAIN user_sessions' /\ user_sessions'[t].user = user_sessions[t].user
        /\ user_sessions[t].expires_at <= user_sessions'[t].expires_at
        /\ t \in DOMAIN user_sessions /\ user_sessions[t].expires_at > now
    BY <2>1 DEF Valid, RowsKeep
  <2>3. user_sessions'[t].expires_at > now
    BY <1>0, <2>2, SMTT(60)
  <2>4. QED  BY <2>1, <2>2, <2>3 DEF Valid
<1>2. ASSUME NEW v \in Workers \ {w}, Row(v) PROVE Row(v)'
  <2>1. Kept(v)
    BY DEF Others
  <2>2. /\ req[v].token \in DOMAIN user_sessions'
        /\ req[v].token \in DOMAIN user_sessions
        /\ user_sessions[req[v].token].expires_at <= user_sessions'[req[v].token].expires_at
        /\ req[v].now + Ttl <= user_sessions[req[v].token].expires_at
    BY <1>2 DEF Row, RowsKeep
  <2>3. req[v].now + Ttl <= user_sessions'[req[v].token].expires_at
    BY <1>0, <2>2, SMTT(60)
  <2>4. QED  BY <2>1, <2>2, <2>3 DEF Kept, Row
<1>3. QED  BY <1>1, <1>2, UsableStep

\* The step of a request that removes the rows S.
LEMMA UsableTakes ==
    ASSUME Base, Base', UsableInv, NEW w \in Workers, Ends(w), NEW S,
           UNCHANGED <<now, users>>, Takes(user_sessions', user_sessions, S),
           \A t \in usable : t \notin S,
           \A t \in usable' \ usable :
               /\ Valid(t)'
               /\ \A v \in Workers \ {w} :
                    /\ req[v].token # t
                    /\ req[v].pc = "delete_others" => user_sessions'[t].user # req[v].user,
           \A v \in Workers \ {w} : Holds(v) /\ Row(v) => req[v].token \notin S
    PROVE  UsableInv'
<1>1. Others(w) /\ req'[w].pc = "idle"
  BY IdleType DEF Ends
<1>2. Spares(w)' /\ (Holds(w)' => Row(w)') /\ Apart(w)' /\ Yields(w)
  BY <1>1, NoPart
<1>3. ASSUME NEW t \in usable
      PROVE  Valid(t)' /\ user_sessions'[t].user = user_sessions[t].user
  <2>1. Valid(t) /\ t \notin S
    BY DEF UsableInv
  <2>2. t \in DOMAIN user_sessions' /\ user_sessions'[t] = user_sessions[t]
    BY <2>1 DEF Valid, Takes
  <2>3. QED  BY <2>1, <2>2 DEF Valid
<1>4. ASSUME NEW v \in Workers \ {w}, Holds(v), Row(v) PROVE Row(v)'
  <2>1. Kept(v)
    BY <1>1 DEF Others
  <2>2. req[v].token \in DOMAIN user_sessions /\ req[v].token \notin S
    BY <1>4 DEF Row
  <2>3. /\ req[v].token \in DOMAIN user_sessions'
        /\ user_sessions'[req[v].token] = user_sessions[req[v].token]
    BY <2>2 DEF Takes
  <2>4. QED  BY <1>4, <2>1, <2>3 DEF Kept, Row
<1>5. \A t \in usable' : Valid(t)'
  BY <1>3
<1>6. \A t \in usable' :
         \/ t \in usable /\ user_sessions'[t].user = user_sessions[t].user
         \/ \A v \in Workers \ {w} :
              /\ req[v].token # t
              /\ req[v].pc = "delete_others" => user_sessions'[t].user # req[v].user
  BY <1>3
<1>7. QED  BY <1>1, <1>2, <1>4, <1>5, <1>6, UsableStep

\* A request that was let through neither logs in nor removes rows of a user who
\* logs in alone.
LEMMA AcceptedPart ==
    ASSUME NEW w \in Workers, AcceptedNow(w), req[w].op \in {"access", "logout", "logout_all"}
    PROVE  Others(w) /\ Spares(w)' /\ (Holds(w)' => Row(w)') /\ Apart(w)' /\ Yields(w)
<1>0. Others(w)
  BY DEF AcceptedNow
<1>1. CASE req[w].op \in {"access", "logout"}
  <2>1. /\ req'[w].pc \in {"idle", "forget"}
        /\ req'[w].pc = "idle" \/ req'[w].op # "login"
    BY <1>1, IdleType DEF AcceptedNow
  <2>2. QED  BY <1>0, <2>1, NoPart
<1>2. CASE req[w].op = "logout_all"
  <2>1. /\ req'[w].pc = "forget_others" /\ req'[w].op = "logout_all"
        /\ req'[w].user = req[w].user
        /\ \A v \in Workers \ {w} : Changing(v, req[w].user) => ~req'[v].solo
    BY <1>2 DEF AcceptedNow
  <2>2. Spares(w)' /\ (Holds(w)' => Row(w)') /\ Apart(w)'
    BY <2>1 DEF Spares, Holds, Apart
  <2>3. ASSUME NEW v \in Workers \ {w}, req'[v].pc # "idle", req'[v].op = "login",
               req'[v].user = req'[w].user
        PROVE  ~req'[v].solo
    <3>1. Kept(v)
      BY <1>0 DEF Others
    <3>2. Changing(v, req[w].user)
      BY <2>1, <2>3, <3>1 DEF Kept, Changing, Busy
    <3>3. QED  BY <2>1, <3>2
  <2>4. QED  BY <1>0, <2>2, <2>3 DEF Yields
<1>3. QED  BY <1>1, <1>2

LEMMA UsableUpsert ==
    ASSUME Base, Base', ExpiryInv, UsableInv, NEW w \in Workers, upsert_session(w)
    PROVE  UsableInv'
<1>1. /\ UNCHANGED <<now, users, usable>> /\ req[w].pc = "upsert_session"
      /\ Types /\ Shape
  BY DEF upsert_session, history, At, Base
<1>2. req[w].op = "login" /\ req[w].token \notin DOMAIN user_sessions
  BY <1>1 DEF Shape, Carries
<1>3. CASE Ends(w) /\ UNCHANGED user_sessions
  <2>1. Others(w) /\ req'[w].pc = "idle"
    BY <1>3, IdleType DEF Ends
  <2>2. Spares(w)' /\ (Holds(w)' => Row(w)') /\ Apart(w)' /\ Yields(w)
    BY <2>1, NoPart
  <2>3. usable' \subseteq usable
    BY <1>1
  <2>4. QED  BY <1>1, <1>3, <2>1, <2>2, <2>3, UsableOn
<1>4. CASE /\ Goes(w, "cache_session")
           /\ Adds(user_sessions', user_sessions, req[w].token, req[w].user, now + Ttl)
  <2>1. Others(w) /\ req'[w].pc = "cache_session" /\ Carried(w)
    BY <1>4 DEF Goes
  <2>2. RowsKeep
    <3>1. RowsGrow(w)
      <4>1. /\ req[w].token \notin DOMAIN g_auth_sessions
            /\ \A v \in Workers \ {w} : req[v].token # req[w].token
        BY <1>1, <1>2 DEF Shape, Carries, Alone
      <4>2. UNCHANGED g_auth_sessions
        BY DEF upsert_session, caches
      <4>3. QED  BY <1>1, <1>4, <4>1, <4>2, RowsAdded
    <3>2. \A t \in DOMAIN user_sessions :
            t \in DOMAIN user_sessions' /\ user_sessions'[t].user = user_sessions[t].user
      BY <1>2, <1>4 DEF Adds
    <3>3. QED  BY <3>1, <3>2 DEF RowsGrow, RowsKeep
  <2>3. Row(w)'
    <3>1. /\ req'[w].token \in DOMAIN user_sessions'
          /\ user_sessions'[req'[w].token].expires_at = now + Ttl
          /\ req'[w].now = req[w].now
      BY <1>4, <2>1 DEF Adds, Carried
    <3>2. req[w].now <= now /\ now \in Nat /\ req[w].now \in Nat /\ Ttl \in Nat
      BY <1>1, ExpiryTypes, AccountAssumption
         DEF ExpiryInv, Timely, Types, AccountAssumption
    <3>3. req[w].now + Ttl <= now + Ttl
      BY <3>2, SMTT(60)
    <3>4. QED  BY <3>1, <3>3 DEF Row
  <2>4. Spares(w)' /\ Yields(w)
    BY <1>1, <1>2, <2>1 DEF Spares, Yields, Removes, Carried
  <2>5. Apart(w)'
    BY <1>1, <2>1, StaysApart DEF Carried
  <2>6. QED  BY <1>1, <2>1, <2>2, <2>3, <2>4, <2>5, UsableRows
<1>5. QED  BY <1>1, <1>3, <1>4, UpsertEffect

LEMMA UsablePersist ==
    ASSUME Base, Base', UsableInv, NEW w \in Workers, persist_session(w)
    PROVE  UsableInv'
<1>1. /\ UNCHANGED <<now, users, user_sessions, usable>> /\ req[w].pc = "cache_session"
      /\ Types /\ Shape
  BY DEF persist_session, history, tables, At, Base
<1>2. req[w].op = "login"
  BY <1>1 DEF Shape, Carries
<1>3. Others(w) /\ req'[w].pc = "forget_others" /\ Carried(w)
  BY <1>1, PersistEffect DEF Goes
<1>4. Holds(w)' => Row(w)'
  <2>1. Holds(w)' => Holds(w)
    BY <1>1, <1>3 DEF Holds, Carried
  <2>2. Row(w) => Row(w)'
    BY <1>1, <1>3 DEF Row, Carried
  <2>3. QED  BY <2>1, <2>2 DEF UsableInv
<1>5. Spares(w)' /\ Yields(w)
  BY <1>1, <1>2, <1>3 DEF Spares, Yields, Removes, Carried
<1>6. Apart(w)'
  BY <1>1, <1>3, StaysApart DEF Carried
<1>7. usable' \subseteq usable
  BY <1>1
<1>8. QED  BY <1>1, <1>3, <1>4, <1>5, <1>6, <1>7, UsableOn

LEMMA UsableRemoveOthers ==
    ASSUME Base, Base', UsableInv, NEW w \in Workers, remove_user_sessions(w)
    PROVE  UsableInv'
<1> DEFINE S == (Of(g_auth_sessions, req[w].user) \cup Of(user_sessions, req[w].user)) \ Keeps(w)
<1>1. /\ UNCHANGED <<now, users, user_sessions>> /\ req[w].pc = "forget_others" /\ Types
  BY DEF remove_user_sessions, tables, At, Base
<1>2. /\ Others(w) /\ req'[w].pc = "delete_others"
      /\ req'[w].op = req[w].op /\ req'[w].user = req[w].user
      /\ req'[w].token = req[w].token /\ req'[w].now = req[w].now
      /\ req'[w].solo = req[w].solo
      /\ usable' = usable \ S
  BY <1>1, RemoveOthersEffect
<1>3. Holds(w)' => Row(w)'
  <2>1. Holds(w)' => Holds(w)
    BY <1>1, <1>2 DEF Holds
  <2>2. Row(w) => Row(w)'
    BY <1>1, <1>2 DEF Row
  <2>3. QED  BY <2>1, <2>2 DEF UsableInv
<1>4. Spares(w)'
  <2>1. ASSUME NEW t \in usable', user_sessions'[t].user = req'[w].user
        PROVE  req'[w].op = "login" /\ t = req'[w].token
    <3>1. t \in usable /\ t \notin S
      BY <1>2
    <3>2. t \in DOMAIN user_sessions
      BY <3>1 DEF UsableInv, Valid
    <3>3. t \in Of(user_sessions, req[w].user)
      BY <1>1, <1>2, <2>1, <3>2 DEF Of
    <3>4. t \in Keeps(w)
      BY <3>1, <3>3
    <3>5. QED  BY <1>2, <3>4 DEF Keeps
  <2>2. QED  BY <1>2, <2>1 DEF Spares
<1>5. Yields(w)
  BY <1>1, <1>2 DEF Yields, Removes
<1>6. Apart(w)'
  BY <1>1, <1>2, StaysApart
<1>7. usable' \subseteq usable
  BY <1>2
<1> HIDE DEF S
<1>8. QED  BY <1>1, <1>2, <1>3, <1>4, <1>5, <1>6, <1>7, UsableOn

LEMMA UsableRemoveOne ==
    ASSUME Base, Base', UsableInv, NEW w \in Workers, remove_session(w)
    PROVE  UsableInv'
<1>1. /\ UNCHANGED <<now, users, user_sessions>> /\ req[w].pc = "forget" /\ Types /\ Shape
      /\ usable' = usable \ {req[w].token}
  BY DEF remove_session, tables, At, Base
<1>2. req[w].token \in issued
  BY <1>1 DEF Shape, Carries
<1>3. /\ Others(w) /\ req'[w].pc = "delete"
      /\ req'[w].op = req[w].op /\ req'[w].user = req[w].user
      /\ req'[w].token = req[w].token /\ req'[w].solo = req[w].solo
  BY <1>1, <1>2, RemoveOneEffect
<1>4. Spares(w)' /\ (Holds(w)' => Row(w)') /\ Yields(w)
  BY <1>1, <1>3 DEF Spares, Holds, Yields, Removes
<1>5. Apart(w)'
  BY <1>1, <1>3, StaysApart
<1>6. usable' \subseteq usable
  BY <1>1
<1>7. QED  BY <1>1, <1>3, <1>4, <1>5, <1>6, UsableOn

\* A request that looks a session up, goes on and has no part of its own.
LEMMA UsableGoes ==
    ASSUME Base, Base', UsableInv, NEW w \in Workers,
           req[w].op \in {"access", "logout", "logout_all"},
           \/ Goes(w, "cache_refreshed") \/ Goes(w, "refresh_found") \/ Goes(w, "erase")
           \/ Goes(w, "find") \/ AcceptedNow(w),
           UNCHANGED <<now, users, usable>>, RowsKeep
    PROVE  UsableInv'
<1>1. Others(w) /\ Spares(w)' /\ (Holds(w)' => Row(w)') /\ Apart(w)' /\ Yields(w)
  <2>1. CASE ~AcceptedNow(w)
    <3>1. /\ Others(w) /\ req'[w].op = req[w].op
          /\ req'[w].pc \in {"cache_refreshed", "refresh_found", "erase", "find"}
      BY <2>1 DEF Goes, Carried
    <3>2. QED  BY <3>1, NoPart
  <2>2. CASE AcceptedNow(w)
    BY <2>2, AcceptedPart
  <2>3. QED  BY <2>1, <2>2
<1>2. QED  BY <1>1, UsableRows

\* Rows that are left alone are kept.
LEMMA SameRows ==
    ASSUME Types, UNCHANGED user_sessions
    PROVE  RowsKeep
<1>1. \A t \in DOMAIN user_sessions :
         user_sessions[t].expires_at <= user_sessions[t].expires_at
  BY ExpiryTypes, SMTT(60)
<1>2. QED  BY <1>1 DEF RowsKeep

LEMMA UsableRefresh ==
    ASSUME Base, Base', ExpiryInv, UsableInv, NEW w \in Workers, refresh_session(w)
    PROVE  UsableInv'
<1>1. /\ UNCHANGED <<now, users, g_auth_sessions, usable>> /\ Types /\ Shape
      /\ req[w].pc \in {"refresh", "refresh_found"}
  BY DEF refresh_session, history, caches, Base
<1>2. req[w].op \in {"access", "logout", "logout_all"}
  BY <1>1 DEF Shape, Carries, LookupPCs
<1>3. CASE UNCHANGED user_sessions /\ (Goes(w, "erase") \/ AcceptedNow(w))
  <2>1. RowsKeep
    BY <1>1, <1>3, SameRows
  <2>2. QED  BY <1>1, <1>2, <1>3, <2>1, UsableGoes
<1>4. CASE /\ Goes(w, "cache_refreshed")
           /\ refresh_matches(req[w].token, req[w].user)
           /\ Adds(user_sessions', user_sessions, req[w].token, req[w].user, now + Ttl)
  <2>1. /\ req[w].token \in DOMAIN user_sessions
        /\ user_sessions[req[w].token].user = req[w].user
    BY <1>4 DEF refresh_matches
  <2>2. RowsGrow(w)
    BY <1>1, <1>4, <2>1, RowsAdded
  <2>3. \A t \in DOMAIN user_sessions :
          t \in DOMAIN user_sessions' /\ user_sessions'[t].user = user_sessions[t].user
    BY <1>4, <2>1 DEF Adds
  <2>4. RowsKeep
    BY <2>2, <2>3 DEF RowsGrow, RowsKeep
  <2>5. QED  BY <1>1, <1>2, <1>4, <2>4, UsableGoes
<1>5. QED  BY <1>1, <1>3, <1>4, RefreshEffect

LEMMA UsableCaches ==
    ASSUME Base, Base', UsableInv, NEW w \in Workers,
           cache_refreshed(w) \/ cache_found(w) \/ erase_entry(w)
    PROVE  UsableInv'
<1>1. /\ UNCHANGED <<now, users, user_sessions, usable>> /\ Types /\ Shape
      /\ req[w].pc \in {"cache_refreshed", "cache_found", "erase"}
  BY DEF cache_refreshed, cache_found, erase_entry, tables, history, At, Base
<1>2. req[w].op \in {"access", "logout", "logout_all"}
  BY <1>1 DEF Shape, Carries, LookupPCs
<1>3. AcceptedNow(w) \/ Goes(w, "refresh_found") \/ Goes(w, "find")
  BY <1>1, CacheRefreshedEffect, CacheFoundEffect, EraseEffect
<1>4. RowsKeep
  BY <1>1, SameRows
<1>5. QED  BY <1>1, <1>2, <1>3, <1>4, UsableGoes

LEMMA UsableLookup ==
    ASSUME Base, Base', UsableInv, NEW w \in Workers, NEW op \in AllOps, NEW t \in Tokens,
           lookup_session(w, op, t)
    PROVE  UsableInv'
<1>1. /\ Others(w) /\ op \in {"access", "logout", "logout_all"}
      /\ Hit(w, op, t) \/ HitExpiring(w, op, t) \/ Miss(w, op, t)
  BY LookupStep DEF Base
<1>2. UNCHANGED <<now, users, user_sessions, usable>>
  BY DEF lookup_session, tables, history
<1>3. Spares(w)' /\ (Holds(w)' => Row(w)') /\ Apart(w)' /\ Yields(w)
  <2>1. CASE HitExpiring(w, op, t) \/ Miss(w, op, t) \/ (Hit(w, op, t) /\ op # "logout_all")
    <3>1. /\ req'[w].pc \in {"idle", "refresh", "find", "forget"}
          /\ req'[w].pc = "idle" \/ req'[w].op # "login"
      BY <1>1, <2>1, IdleType DEF Hit, HitExpiring, Miss
    <3>2. QED  BY <3>1, NoPart
  <2>2. CASE Hit(w, op, t) /\ op = "logout_all"
    <3>1. /\ req'[w].pc = "forget_others" /\ req'[w].op = "logout_all"
          /\ \A v \in Workers \ {w} : Changing(v, req'[w].user) => ~req'[v].solo
      BY <2>2 DEF Hit
    <3>2. Spares(w)' /\ (Holds(w)' => Row(w)') /\ Apart(w)'
      BY <3>1 DEF Spares, Holds, Apart
    <3>3. ASSUME NEW v \in Workers \ {w}, req'[v].pc # "idle", req'[v].op = "login",
                 req'[v].user = req'[w].user
          PROVE  ~req'[v].solo
      <4>1. Kept(v)
        BY <1>1 DEF Others
      <4>2. Changing(v, req'[w].user)
        BY <3>3, <4>1 DEF Kept, Changing, Busy
      <4>3. QED  BY <3>1, <4>2
    <3>4. QED  BY <3>2, <3>3 DEF Yields
  <2>3. QED  BY <1>1, <2>1, <2>2
<1>4. usable' \subseteq usable
  BY <1>2
<1>5. QED  BY <1>1, <1>2, <1>3, <1>4, UsableOn

LEMMA UsableFind ==
    ASSUME Base, Base', UsableInv, NEW w \in Workers, find_active_session(w)
    PROVE  UsableInv'
<1>1. UNCHANGED <<now, users, user_sessions>> /\ Types /\ Shape /\ req[w].pc = "find"
  BY DEF find_active_session, tables, At, Base
<1>2. req[w].op # "login"
  BY <1>1 DEF Shape, Carries, LookupPCs
<1>3. CASE UNCHANGED usable
           /\ Finds(w, user_sessions[req[w].token].user, user_sessions[req[w].token].expires_at)
  <2>1. Others(w) /\ req'[w].pc = "cache_found" /\ req'[w].op # "login"
    BY <1>2, <1>3 DEF Finds
  <2>2. Spares(w)' /\ (Holds(w)' => Row(w)') /\ Apart(w)' /\ Yields(w)
    BY <2>1, NoPart
  <2>3. usable' \subseteq usable
    BY <1>3
  <2>4. QED  BY <1>1, <2>1, <2>2, <2>3, UsableOn
<1>4. CASE Goes(w, "cleanup") /\ req[w].token \notin usable' /\ usable' \subseteq usable
  <2>1. /\ Others(w) /\ req'[w].pc = "cleanup" /\ req'[w].op # "login"
        /\ req'[w].token = req[w].token
    BY <1>2, <1>4 DEF Goes, Carried
  <2>2. Spares(w)' /\ (Holds(w)' => Row(w)') /\ Apart(w)' /\ Yields(w)
    BY <1>4, <2>1 DEF Spares, Holds, Apart, Yields, Removes
  <2>3. QED  BY <1>1, <1>4, <2>1, <2>2, UsableOn
<1>5. QED  BY <1>1, <1>3, <1>4, FindEffect DEF UsableInv, Valid

\* The row of a login that is alone outlives the request, and is its user's.
LEMMA RowLives ==
    ASSUME Base, ExpiryInv, NEW w \in Workers, Holds(w), Row(w)
    PROVE  /\ req[w].token \in DOMAIN user_sessions
           /\ user_sessions[req[w].token].expires_at > now
           /\ user_sessions[req[w].token].user = req[w].user
           /\ \A v \in Workers \ {w} : req[v].token # req[w].token
<1>1. /\ req[w].token \in DOMAIN user_sessions /\ req[w].pc # "idle" /\ req[w].op = "login"
      /\ req[w].now + Ttl <= user_sessions[req[w].token].expires_at
  BY DEF Holds, Row
<1>2. /\ now <= req[w].now + MaxSpan /\ now \in Nat /\ req[w].now \in Nat /\ Ttl \in Nat
      /\ user_sessions[req[w].token].expires_at \in Nat
  BY <1>1, ExpiryTypes, AccountAssumption
     DEF ExpiryInv, Timely, Base, Types, AccountAssumption
<1>3. user_sessions[req[w].token].expires_at > now
  BY <1>1, <1>2, SpanAssumption, SMTT(60) DEF MaxSpan
<1>4. Carries(req[w]) /\ Alone(w)
  BY DEF Base, Shape
<1>5. req[w].token \in Tokens /\ req[w].user \in Users
  BY <1>1, <1>4 DEF Carries, Base, Types
<1>6. PICK own \in [Tokens -> Users \cup {None}] : OwnedBy(own)
  BY DEF Base, Owned
<1>7. user_sessions[req[w].token].user = req[w].user
  BY <1>1, <1>5, <1>6 DEF OwnedBy
<1>8. QED  BY <1>1, <1>3, <1>4, <1>7 DEF Alone

LEMMA UsableDeleteOthers ==
    ASSUME Base, Base', ExpiryInv, UsableInv, NEW w \in Workers, delete_user_sessions(w)
    PROVE  UsableInv'
<1>1. UNCHANGED <<now, users>> /\ Types /\ Shape /\ req[w].pc = "delete_others"
  BY DEF delete_user_sessions, At, Base
<1> DEFINE S == Of(user_sessions, req[w].user) \ Keeps(w)
<1>2. CASE /\ Ends(w)
           /\ Takes(user_sessions', user_sessions, S)
           /\ usable' = IF req[w].solo /\ users[req[w].user] = "enabled"
                        THEN usable \cup Keeps(w) ELSE usable
  <2>1. ASSUME NEW t \in usable PROVE t \notin S
    <3>1. t \in Of(user_sessions, req[w].user) => t \in Keeps(w)
      BY <1>1 DEF UsableInv, Spares, Of, Keeps
    <3>2. QED  BY <3>1
  <2>2. ASSUME NEW t \in usable' \ usable
        PROVE  /\ Valid(t)'
               /\ \A v \in Workers \ {w} :
                    /\ req[v].token # t
                    /\ req[v].pc = "delete_others" => user_sessions'[t].user # req[v].user
    <3>1. /\ t = req[w].token /\ req[w].op = "login" /\ req[w].solo
          /\ users[req[w].user] = "enabled" /\ t \in Keeps(w)
      BY <1>2 DEF Keeps
    <3>2. Holds(w) /\ Row(w) /\ Apart(w)
      BY <1>1, <3>1 DEF Holds, UsableInv
    <3>3. /\ t \in DOMAIN user_sessions /\ user_sessions[t].expires_at > now
          /\ user_sessions[t].user = req[w].user
          /\ \A v \in Workers \ {w} : req[v].token # t
      BY <3>1, <3>2, RowLives
    <3>4. t \in DOMAIN user_sessions' /\ user_sessions'[t] = user_sessions[t]
      BY <1>2, <3>1, <3>3 DEF Takes
    <3>5. Valid(t)'
      BY <1>1, <3>1, <3>3, <3>4 DEF Valid
    <3>6. \A v \in Workers \ {w} :
            req[v].pc = "delete_others" => user_sessions'[t].user # req[v].user
      BY <1>1, <3>1, <3>2, <3>3, <3>4 DEF Apart, Removes
    <3>7. QED  BY <3>3, <3>5, <3>6
  <2>3. ASSUME NEW v \in Workers \ {w}, Holds(v), Row(v) PROVE req[v].token \notin S
    <3>1. user_sessions[req[v].token].user = req[v].user
      BY <2>3, RowLives
    <3>2. Removes(w) /\ Apart(v)
      BY <1>1 DEF Removes, UsableInv
    <3>3. req[w].user # req[v].user
      BY <2>3, <3>2 DEF Apart, Holds
    <3>4. QED  BY <3>1, <3>3 DEF Of
  <2> HIDE DEF S
  <2>4. QED  BY <1>1, <1>2, <2>1, <2>2, <2>3, UsableTakes
<1>3. CASE /\ UNCHANGED <<user_sessions, usable>>
           /\ Ends(w) \/ (Goes(w, "forget") /\ req[w].op = "login")
  <2>1. Others(w) /\ Spares(w)' /\ (Holds(w)' => Row(w)') /\ Apart(w)' /\ Yields(w)
    <3>1. CASE Ends(w)
      <4>1. Others(w) /\ req'[w].pc = "idle"
        BY <3>1, IdleType DEF Ends
      <4>2. QED  BY <4>1, NoPart
    <3>2. CASE Goes(w, "forget") /\ req[w].op = "login"
      <4>1. Others(w) /\ req'[w].pc = "forget" /\ Carried(w)
        BY <3>2 DEF Goes
      <4>2. Spares(w)' /\ (Holds(w)' => Row(w)') /\ Yields(w)
        BY <1>1, <3>2, <4>1 DEF Spares, Holds, Yields, Removes, Carried
      <4>3. Apart(w)'
        BY <1>1, <4>1, StaysApart DEF Carried
      <4>4. QED  BY <4>1, <4>2, <4>3
    <3>3. QED  BY <1>3, <3>1, <3>2
  <2>2. usable' \subseteq usable
    BY <1>3
  <2>3. QED  BY <1>1, <1>3, <2>1, <2>2, UsableOn
<1>4. QED  BY <1>1, <1>2, <1>3, DeleteOthersEffect

LEMMA UsableCleanup ==
    ASSUME Base, Base', ExpiryInv, UsableInv, NEW w \in Workers,
           cleanup_session_token_or_expired(w)
    PROVE  UsableInv'
<1> DEFINE S == {req[w].token} \cup
                {t \in DOMAIN user_sessions : user_sessions[t].expires_at <= now}
<1>1. UNCHANGED <<now, users, usable>> /\ Types /\ req[w].pc = "cleanup"
  BY DEF cleanup_session_token_or_expired, history, At, Base
<1>2. \A t \in DOMAIN user_sessions : user_sessions[t].expires_at > now => t = req[w].token \/ t \notin S
  <2>1. \A t \in DOMAIN user_sessions : user_sessions[t].expires_at \in Nat /\ now \in Nat
    BY <1>1, ExpiryTypes DEF Types
  <2>2. \A t \in DOMAIN user_sessions :
          user_sessions[t].expires_at > now => ~(user_sessions[t].expires_at <= now)
    BY <2>1, SMTT(60)
  <2>3. QED  BY <2>2
<1>3. CASE UNCHANGED user_sessions /\ Ends(w)
  <2>1. Others(w) /\ req'[w].pc = "idle"
    BY <1>3, IdleType DEF Ends
  <2>2. Spares(w)' /\ (Holds(w)' => Row(w)') /\ Apart(w)' /\ Yields(w)
    BY <2>1, NoPart
  <2>3. usable' \subseteq usable
    BY <1>1
  <2>4. QED  BY <1>1, <1>3, <2>1, <2>2, <2>3, UsableOn
<1>4. CASE Takes(user_sessions', user_sessions, S) /\ Ends(w)
  <2>1. ASSUME NEW t \in usable PROVE t \notin S
    <3>1. /\ t \in DOMAIN user_sessions /\ user_sessions[t].expires_at > now
          /\ t # req[w].token
      BY <1>1 DEF UsableInv, Valid, Spares
    <3>2. QED  BY <1>2, <3>1
  <2>2. ASSUME NEW v \in Workers \ {w}, Holds(v), Row(v) PROVE req[v].token \notin S
    <3>1. /\ req[v].token \in DOMAIN user_sessions
          /\ user_sessions[req[v].token].expires_at > now
          /\ req[w].token # req[v].token
      BY <2>2, RowLives
    <3>2. QED  BY <1>2, <3>1
  <2>3. usable' \ usable = {}
    BY <1>1
  <2> HIDE DEF S
  <2>4. QED  BY <1>1, <1>4, <2>1, <2>2, <2>3, UsableTakes
<1>5. QED  BY <1>1, <1>3, <1>4, CleanupEffect

LEMMA UsableDeleteOne ==
    ASSUME Base, Base', ExpiryInv, UsableInv, NEW w \in Workers, delete_session(w)
    PROVE  UsableInv'
<1>1. UNCHANGED <<now, users, usable>> /\ Types /\ req[w].pc = "delete"
  BY DEF delete_session, At, Base
<1>2. CASE UNCHANGED user_sessions /\ Ends(w)
  <2>1. Others(w) /\ req'[w].pc = "idle"
    BY <1>2, IdleType DEF Ends
  <2>2. Spares(w)' /\ (Holds(w)' => Row(w)') /\ Apart(w)' /\ Yields(w)
    BY <2>1, NoPart
  <2>3. usable' \subseteq usable
    BY <1>1
  <2>4. QED  BY <1>1, <1>2, <2>1, <2>2, <2>3, UsableOn
<1>3. CASE Takes(user_sessions', user_sessions, {req[w].token}) /\ Ends(w)
  <2>1. \A t \in usable : t \notin {req[w].token}
    BY <1>1 DEF UsableInv, Spares
  <2>2. ASSUME NEW v \in Workers \ {w}, Holds(v), Row(v)
        PROVE  req[v].token \notin {req[w].token}
    <3>1. req[w].token # req[v].token
      BY <2>2, RowLives
    <3>2. QED  BY <3>1
  <2>3. usable' \ usable = {}
    BY <1>1
  <2>4. QED  BY <1>1, <1>3, <2>1, <2>2, <2>3, UsableTakes
<1>4. QED  BY <1>1, <1>2, <1>3, DeleteOneEffect

LEMMA UsableOutside ==
    ASSUME UsableInv, UNCHANGED <<user_sessions, req>>, usable' \subseteq usable,
           \A t \in usable' : Valid(t)'
    PROVE  UsableInv'
<1>1. ASSUME NEW w \in Workers PROVE Spares(w)' /\ (Holds(w)' => Row(w)') /\ Apart(w)'
  <2>1. Spares(w) /\ (Holds(w) => Row(w)) /\ Apart(w)
    BY DEF UsableInv
  <2>2. Spares(w)'
    BY <2>1 DEF Spares
  <2>3. Holds(w)' => Row(w)'
    BY <2>1 DEF Holds, Row
  <2>4. Apart(w)'
    BY <2>1 DEF Apart, Removes
  <2>5. QED  BY <2>2, <2>3, <2>4
<1>2. QED  BY <1>1 DEF UsableInv

LEMMA UsableTick ==
    ASSUME UsableInv, Tick
    PROVE  UsableInv'
<1>1. /\ UNCHANGED <<users, user_sessions, req>> /\ now' = now + 1
      /\ usable' = {t \in usable : user_sessions[t].expires_at > now + 1}
  BY DEF Tick, tables
<1>2. \A t \in usable' : Valid(t)'
  BY <1>1 DEF UsableInv, Valid
<1>3. usable' \subseteq usable
  BY <1>1
<1>4. QED  BY <1>1, <1>2, <1>3, UsableOutside

LEMMA UsableDisable ==
    ASSUME Base, UsableInv, NEW u \in Users, Disable(u)
    PROVE  UsableInv'
<1>1. /\ UNCHANGED <<now, user_sessions, req>> /\ users' = [users EXCEPT ![u] = "disabled"]
      /\ usable' = usable \ Of(user_sessions, u)
  BY DEF Disable
<1>2. ASSUME NEW t \in usable' PROVE Valid(t)'
  <2>1. Valid(t) /\ t \notin Of(user_sessions, u)
    BY <1>1 DEF UsableInv
  <2>2. user_sessions[t].user # u /\ user_sessions[t].user \in Users
    BY <2>1 DEF Valid, Of, Base, Types, IsTable, Sessions
  <2>3. users'[user_sessions[t].user] = users[user_sessions[t].user]
    BY <1>1, <2>2 DEF Base, Types
  <2>4. QED  BY <1>1, <2>1, <2>3 DEF Valid
<1>3. usable' \subseteq usable
  BY <1>1
<1>4. QED  BY <1>1, <1>2, <1>3, UsableOutside

LEMMA UsableCrash ==
    ASSUME UsableInv, load_user_cache
    PROVE  UsableInv'
<1>1. UNCHANGED <<now, users, user_sessions, usable>> /\ \A w \in Workers : req'[w] = Idle
  BY DEF load_user_cache, tables
<1>2. \A w \in Workers : req'[w].pc = "idle"
  BY <1>1, IdleType
<1>3. \A t \in usable' : Valid(t)'
  BY <1>1 DEF UsableInv, Valid
<1>4. QED  BY <1>2, <1>3 DEF UsableInv, Spares, Holds, Apart

LEMMA UsableNext == Base /\ Base' /\ ExpiryInv /\ UsableInv /\ [Next]_vars => UsableInv'
<1> SUFFICES ASSUME Base, Base', ExpiryInv, UsableInv, [Next]_vars PROVE UsableInv'
  OBVIOUS
<1>1. ASSUME NEW w \in Workers, NEW u \in Users, register_user(w, u) PROVE UsableInv'
  BY <1>1, UsableRegister
<1>2. ASSUME NEW w \in Workers, NEW u \in Users, NEW t \in Tokens, login_user(w, u, t)
      PROVE  UsableInv'
  BY <1>2, UsableLogin
<1>3. ASSUME NEW w \in Workers, NEW op \in AllOps, NEW t \in Tokens, lookup_session(w, op, t)
      PROVE  UsableInv'
  BY <1>3, UsableLookup
<1>4. ASSUME NEW w \in Workers,
             \/ insert_user(w) \/ cache_user(w) \/ upsert_session(w) \/ persist_session(w)
             \/ refresh_session(w) \/ cache_refreshed(w) \/ cache_found(w)
             \/ find_active_session(w)
      PROVE  UsableInv'
  BY <1>4, UsableUsers, UsableUpsert, UsablePersist, UsableRefresh, UsableCaches, UsableFind
<1>5. ASSUME NEW w \in Workers,
             \/ remove_user_sessions(w) \/ delete_user_sessions(w) \/ remove_session(w)
             \/ delete_session(w) \/ erase_entry(w) \/ cleanup_session_token_or_expired(w)
      PROVE  UsableInv'
  BY <1>5, UsableRemoveOthers, UsableDeleteOthers, UsableRemoveOne, UsableDeleteOne,
     UsableCaches, UsableCleanup
<1>6. ASSUME NEW u \in Users, Disable(u) PROVE UsableInv'
  BY <1>6, UsableDisable
<1>7. CASE UNCHANGED vars
  <2>1. UNCHANGED <<now, users, user_sessions, req, usable>>
    BY <1>7 DEF vars, tables, history
  <2>2. \A t \in usable' : Valid(t)'
    BY <2>1 DEF UsableInv, Valid
  <2>3. usable' \subseteq usable
    BY <2>1
  <2>4. QED  BY <2>1, <2>2, <2>3, UsableOutside
<1>8. CASE Tick
  BY <1>8, UsableTick
<1>9. CASE load_user_cache
  BY <1>9, UsableCrash
<1>10. QED  BY <1>1, <1>2, <1>3, <1>4, <1>5, <1>6, <1>7, <1>8, <1>9 DEF Next

LEMMA UsableInit == Init => UsableInv
<1> SUFFICES ASSUME Init PROVE UsableInv
  OBVIOUS
<1>1. usable = {} /\ \A w \in Workers : req[w].pc = "idle"
  BY IdleType DEF Init
<1>2. QED  BY <1>1 DEF UsableInv, Spares, Holds, Apart

\* A login that met no other login or logout_all of its user keeps its row until
\* it expires, is logged out, its user is disabled or a query for it fails,
\* whatever the other requests, the clock and crashes do meanwhile.
THEOREM LoginSafe == Spec => []LoginUsable
<1>1. Init => Base /\ ExpiryInv /\ UsableInv
  BY BaseInit, ExpiryInit, UsableInit
<1>2. Base /\ ExpiryInv /\ UsableInv /\ [Next]_vars => (Base /\ ExpiryInv /\ UsableInv)'
  BY BaseNext, ExpiryNext, UsableNext
<1>3. UsableInv => LoginUsable
  BY DEF UsableInv, Valid, LoginUsable
<1>4. QED  BY <1>1, <1>2, <1>3, PTL DEF Spec
-----------------------------------------------------------------------------
(***************************************************************************)
(* One session per user                                                    *)
(***************************************************************************)

\* The logins of u that have added their row and not yet removed the others.  A
\* login that fails to remove them is counted by unfinished from then on.
IsAdding(r, u) ==
    r.pc \in {"cache_session", "forget_others", "delete_others"} /\ r.op = "login" /\ r.user = u
Adding(u) == {w \in Workers : IsAdding(req[w], u)}

\* OneSessionPerUser counts every login that is under way, also one that has not
\* added its row; a step that adds a row keeps the bound only if the logins
\* without one are not counted.
RowsBounded(u) == Cardinality(Of(user_sessions, u)) <= 1 + unfinished[u] + Cardinality(Adding(u))

SessionInv ==
    /\ IsFiniteSet(DOMAIN user_sessions)
    /\ unfinished \in [Users -> Nat]
    /\ \A u \in Users : RowsBounded(u)

\* The facts about finite sets are taken under a name, here where they are
\* first needed.
LOCAL Fin == INSTANCE FiniteSetTheorems

\* A set is as large by either name.
LEMMA SameSets ==
    ASSUME NEW S
    PROVE  (Fin!IsFiniteSet(S) <=> IsFiniteSet(S)) /\ Fin!Cardinality(S) = Cardinality(S)
BY ZenonT(60) DEF Fin!IsFiniteSet, IsFiniteSet, Fin!Cardinality, Cardinality

LEMMA SubsetSize ==
    ASSUME NEW S, IsFiniteSet(S), NEW T \in SUBSET S
    PROVE  IsFiniteSet(T) /\ Cardinality(T) <= Cardinality(S)
BY Fin!FS_Subset, SameSets, ZenonT(60)

LEMMA SizeType == ASSUME NEW S, IsFiniteSet(S) PROVE Cardinality(S) \in Nat
BY Fin!FS_CardinalityType, SameSets, ZenonT(60)

LEMMA EmptySize ==
    /\ IsFiniteSet({}) /\ Cardinality({}) = 0
    /\ \A S : IsFiniteSet(S) => (Cardinality(S) = 0 <=> S = {})
BY Fin!FS_EmptySet, SameSets, ZenonT(60)

LEMMA SingletonSize ==
    /\ \A x : IsFiniteSet({x}) /\ Cardinality({x}) = 1
    /\ \A S : IsFiniteSet(S) => (Cardinality(S) = 1 <=> \E x : S = {x})
BY Fin!FS_Singleton, SameSets, ZenonT(60)

LEMMA SizeWith ==
    ASSUME NEW S, IsFiniteSet(S), NEW x
    PROVE  /\ IsFiniteSet(S \cup {x})
           /\ Cardinality(S \cup {x}) = IF x \in S THEN Cardinality(S) ELSE Cardinality(S) + 1
BY Fin!FS_AddElement, SameSets, ZenonT(60)

LEMMA SizeWithout ==
    ASSUME NEW S, IsFiniteSet(S), NEW x
    PROVE  /\ IsFiniteSet(S \ {x})
           /\ Cardinality(S \ {x}) = IF x \in S THEN Cardinality(S) - 1 ELSE Cardinality(S)
BY Fin!FS_RemoveElement, SameSets, ZenonT(60)

\* The sets that are counted are finite.
LEMMA AddingFinite ==
    ASSUME NEW u
    PROVE  IsFiniteSet(Adding(u)) /\ IsFiniteSet(Adding(u)')
<1>1. Adding(u) \in SUBSET Workers /\ Adding(u)' \in SUBSET Workers
  BY DEF Adding
<1>2. IsFiniteSet(Workers)
  BY AccountAssumption DEF AccountAssumption
<1>3. QED  BY <1>1, <1>2, SubsetSize

LEMMA CountedFinite ==
    ASSUME IsFiniteSet(DOMAIN user_sessions), NEW u
    PROVE  /\ IsFiniteSet(Of(user_sessions, u)) /\ Cardinality(Of(user_sessions, u)) \in Nat
           /\ IsFiniteSet(Adding(u)) /\ Cardinality(Adding(u)) \in Nat
<1>1. Of(user_sessions, u) \in SUBSET DOMAIN user_sessions
  BY DEF Of
<1>2. IsFiniteSet(Of(user_sessions, u)) /\ IsFiniteSet(Adding(u))
  BY <1>1, SubsetSize, AddingFinite
<1>3. QED  BY <1>2, SizeType

\* The rows g are rows of f, or f without some, and whose they are is the same.
Fewer(g, f) == DOMAIN g \subseteq DOMAIN f /\ \A t \in DOMAIN g : g[t].user = f[t].user

LEMMA FewerOf ==
    ASSUME NEW f, NEW g, Fewer(g, f), NEW u
    PROVE  Of(g, u) \in SUBSET Of(f, u)
  BY DEF Of, Fewer

LEMMA FewerFinite ==
    ASSUME NEW f, NEW g, Fewer(g, f), IsFiniteSet(DOMAIN f)
    PROVE  IsFiniteSet(DOMAIN g)
<1>1. DOMAIN g \in SUBSET DOMAIN f
  BY DEF Fewer
<1>2. QED  BY <1>1, SubsetSize

LEMMA TakesFewer ==
    ASSUME NEW f, NEW g, NEW S, Takes(g, f, S)
    PROVE  Fewer(g, f)
  BY DEF Takes, Fewer

\* w counts among the logins with a row if it did before.
Stays(w) == \A u \in Users : IsAdding(req[w], u) => IsAdding(req'[w], u)

LEMMA AddingGrows ==
    ASSUME NEW w \in Workers, Others(w), Stays(w), NEW u \in Users
    PROVE  Adding(u) \in SUBSET Adding(u)'
<1> SUFFICES ASSUME NEW v \in Adding(u) PROVE v \in Adding(u)'
  OBVIOUS
<1>1. v \in Workers /\ IsAdding(req[v], u)
  BY DEF Adding
<1>2. CASE v = w
  BY <1>1, <1>2 DEF Stays, Adding
<1>3. CASE v # w
  <2>1. Kept(v)
    BY <1>1, <1>3 DEF Others
  <2>2. QED  BY <1>1, <2>1 DEF Kept, IsAdding, Adding
<1>4. QED  BY <1>2, <1>3

\* No more rows and no fewer logins that have one.
LEMMA BoundKept ==
    ASSUME SessionInv, NEW u \in Users, unfinished'[u] = unfinished[u],
           Of(user_sessions, u)' \in SUBSET Of(user_sessions, u),
           Adding(u) \in SUBSET Adding(u)'
    PROVE  RowsBounded(u)'
<1>1. /\ IsFiniteSet(Of(user_sessions, u)) /\ Cardinality(Of(user_sessions, u)) \in Nat
      /\ Cardinality(Adding(u)) \in Nat
  BY CountedFinite DEF SessionInv
<1>2. /\ Cardinality(Of(user_sessions, u)') <= Cardinality(Of(user_sessions, u))
      /\ Cardinality(Of(user_sessions, u)') \in Nat
  BY <1>1, SubsetSize, SizeType
<1>3. IsFiniteSet(Adding(u)')
  BY AddingFinite
<1>4. Cardinality(Adding(u)') \in Nat /\ Cardinality(Adding(u)) <= Cardinality(Adding(u)')
  BY <1>3, SubsetSize, SizeType
<1>5. unfinished[u] \in Nat /\ RowsBounded(u)
  BY DEF SessionInv
<1>6. Cardinality(Of(user_sessions, u)') <= 1 + unfinished'[u] + Cardinality(Adding(u)')
  BY <1>1, <1>2, <1>4, <1>5, SMTT(60) DEF RowsBounded
<1>7. QED  BY <1>6 DEF RowsBounded

LEMMA SessionKept ==
    ASSUME SessionInv, UNCHANGED unfinished, Fewer(user_sessions', user_sessions),
           NEW w \in Workers, Others(w), Stays(w)
    PROVE  SessionInv'
<1>1. \A u \in Users : Adding(u) \in SUBSET Adding(u)'
  BY AddingGrows
<1>2. ASSUME NEW u \in Users PROVE RowsBounded(u)'
  <2>1. Of(user_sessions', u) \in SUBSET Of(user_sessions, u)
    BY FewerOf
  <2>2. Of(user_sessions, u)' \in SUBSET Of(user_sessions, u)
    BY <2>1 DEF Of
  <2>3. QED  BY <1>1, <2>2, BoundKept
<1>3. IsFiniteSet(DOMAIN user_sessions')
  BY FewerFinite DEF SessionInv
<1>4. QED  BY <1>2, <1>3 DEF SessionInv

\* A request that has no login with a row under way.
LEMMA NotAdding ==
    ASSUME NEW w \in Workers,
           req[w].pc \notin {"cache_session", "forget_others", "delete_others"}
    PROVE  Stays(w)
  BY DEF Stays, IsAdding

LEMMA SameFewer == Fewer(user_sessions, user_sessions)
  BY DEF Fewer

\* Steps of requests that change no row, and add or remove no login with a row.
LEMMA SessionQuiet ==
    ASSUME Base, SessionInv, NEW w \in Workers,
           \/ \E u \in Users : register_user(w, u)
           \/ \E u \in Users, t \in Tokens : login_user(w, u, t)
           \/ \E op \in AllOps, t \in Tokens : lookup_session(w, op, t)
           \/ insert_user(w) \/ cache_user(w) \/ cache_refreshed(w) \/ erase_entry(w)
           \/ find_active_session(w) \/ cache_found(w)
    PROVE  SessionInv'
<1>1. Types /\ Shape
  BY DEF Base
<1>2. UNCHANGED <<user_sessions, unfinished>>
  BY DEF register_user, login_user, lookup_session, insert_user, cache_user, cache_refreshed,
         erase_entry, find_active_session, cache_found, tables, history
<1>3. req[w].pc \notin {"cache_session", "forget_others", "delete_others"}
  BY DEF register_user, login_user, lookup_session, insert_user, cache_user, cache_refreshed,
         erase_entry, find_active_session, cache_found, Busy, At
<1>4. Others(w)
  <2>1. CASE \E u \in Users : register_user(w, u)
    BY <1>1, <2>1, RegisterEffect
  <2>2. CASE \E u \in Users, t \in Tokens : login_user(w, u, t)
    BY <1>1, <2>2, LoginStep
  <2>3. CASE \E op \in AllOps, t \in Tokens : lookup_session(w, op, t)
    BY <1>1, <2>3, LookupStep
  <2>4. CASE insert_user(w) \/ cache_user(w)
    BY <1>1, <2>4, InsertUserEffect, CacheUserEffect DEF Goes, Ends
  <2>5. CASE cache_refreshed(w) \/ cache_found(w)
    BY <1>1, <2>5, CacheRefreshedEffect, CacheFoundEffect DEF AcceptedNow, Goes
  <2>6. CASE erase_entry(w)
    BY <1>1, <2>6, EraseEffect DEF Goes
  <2>7. CASE find_active_session(w)
    BY <1>1, <2>7, FindEffect DEF Goes, Finds
  <2>8. QED  BY <2>1, <2>2, <2>3, <2>4, <2>5, <2>6, <2>7
<1>5. Stays(w) /\ Fewer(user_sessions', user_sessions)
  BY <1>2, <1>3, NotAdding, SameFewer
<1>6. QED  BY <1>2, <1>4, <1>5, SessionKept

\* Steps that take rows away, or renew one.
LEMMA SessionRows ==
    ASSUME Base, SessionInv, NEW w \in Workers,
           \/ refresh_session(w) \/ cleanup_session_token_or_expired(w) \/ remove_session(w)
           \/ delete_session(w)
    PROVE  SessionInv'
<1>1. Types /\ Shape
  BY DEF Base
<1>2. UNCHANGED unfinished
  BY DEF refresh_session, cleanup_session_token_or_expired, remove_session, delete_session,
         history
<1>3. req[w].pc \notin {"cache_session", "forget_others", "delete_others"}
  BY DEF refresh_session, cleanup_session_token_or_expired, remove_session, delete_session, At
<1>4. Others(w) /\ Fewer(user_sessions', user_sessions)
  <2>1. CASE refresh_session(w)
    <3>1. Others(w)
      BY <1>1, <2>1, RefreshEffect DEF Goes, AcceptedNow
    <3>2. ASSUME refresh_matches(req[w].token, req[w].user),
                 Adds(user_sessions', user_sessions, req[w].token, req[w].user, now + Ttl)
          PROVE  Fewer(user_sessions', user_sessions)
      BY <3>2 DEF refresh_matches, Adds, Fewer
    <3>3. QED  BY <1>1, <2>1, <3>1, <3>2, RefreshEffect, SameFewer
  <2>2. CASE cleanup_session_token_or_expired(w)
    BY <1>1, <2>2, CleanupEffect, TakesFewer, SameFewer DEF Ends
  <2>3. CASE delete_session(w)
    BY <1>1, <2>3, DeleteOneEffect, TakesFewer, SameFewer DEF Ends
  <2>4. CASE remove_session(w)
    <3>1. req[w].token \in issued
      BY <1>1, <2>4 DEF Shape, Carries, remove_session, At
    <3>2. UNCHANGED user_sessions
      BY <2>4 DEF remove_session, tables
    <3>3. QED  BY <1>1, <2>4, <3>1, <3>2, RemoveOneEffect, SameFewer
  <2>5. QED  BY <2>1, <2>2, <2>3, <2>4
<1>5. Stays(w)
  BY <1>3, NotAdding
<1>6. QED  BY <1>2, <1>4, <1>5, SessionKept

\* A login goes on: its row still counts.
LEMMA SessionGoesOn ==
    ASSUME Base, SessionInv, NEW w \in Workers, persist_session(w) \/ remove_user_sessions(w)
    PROVE  SessionInv'
<1>1. Types /\ Shape
  BY DEF Base
<1>2. UNCHANGED <<user_sessions, unfinished>>
  BY DEF persist_session, remove_user_sessions, tables, history
<1>3. /\ Others(w) /\ req'[w].op = req[w].op /\ req'[w].user = req[w].user
      /\ req'[w].pc \in {"forget_others", "delete_others"}
  <2>1. CASE persist_session(w)
    BY <1>1, <2>1, PersistEffect DEF Goes, Carried
  <2>2. CASE remove_user_sessions(w)
    BY <1>1, <2>2, RemoveOthersEffect
  <2>3. QED  BY <2>1, <2>2
<1>4. Stays(w)
  BY <1>3 DEF Stays, IsAdding
<1>5. Fewer(user_sessions', user_sessions)
  BY <1>2, SameFewer
<1>6. QED  BY <1>2, <1>3, <1>4, <1>5, SessionKept

\* A login adds its row and counts from now on.
LEMMA SessionUpsert ==
    ASSUME Base, SessionInv, NEW w \in Workers, upsert_session(w)
    PROVE  SessionInv'
<1> DEFINE u0 == req[w].user
           t == req[w].token
<1>1. /\ Types /\ Shape /\ req[w].pc = "upsert_session" /\ req[w].op = "login" /\ u0 \in Users
      /\ UNCHANGED unfinished
  BY DEF Base, Shape, Carries, upsert_session, At, history
<1>2. Stays(w)
  BY <1>1, NotAdding
<1>3. CASE Ends(w) /\ UNCHANGED user_sessions
  <2>1. Fewer(user_sessions', user_sessions)
    BY <1>3, SameFewer
  <2>2. QED  BY <1>1, <1>2, <1>3, <2>1, SessionKept DEF Ends
<1>4. CASE /\ Goes(w, "cache_session")
           /\ Adds(user_sessions', user_sessions, t, u0, now + Ttl)
  <2>1. Others(w) /\ IsAdding(req'[w], u0) /\ ~IsAdding(req[w], u0)
    BY <1>1, <1>4 DEF Goes, Carried, IsAdding
  <2>2. IsFiniteSet(DOMAIN user_sessions')
    <3>1. DOMAIN user_sessions' = DOMAIN user_sessions \cup {t}
      BY <1>4 DEF Adds
    <3>2. QED  BY <3>1, SizeWith DEF SessionInv
  <2>3. ASSUME NEW u \in Users \ {u0} PROVE RowsBounded(u)'
    <3>1. Of(user_sessions, u)' \in SUBSET Of(user_sessions, u)
      BY <1>4 DEF Of, Adds
    <3>2. Adding(u) \in SUBSET Adding(u)'
      BY <1>2, <2>1, AddingGrows
    <3>3. QED  BY <1>1, <3>1, <3>2, BoundKept
  <2>4. ASSUME NEW u \in Users, u = u0 PROVE RowsBounded(u)'
    <3> DEFINE R == Of(user_sessions, u)
               S == {x \in DOMAIN user_sessions' : user_sessions'[x].user = u}
               A == Adding(u)
               B == {v \in Workers : IsAdding(req'[v], u)}
    <3>1. S \in SUBSET (R \cup {t})
      BY <1>4, <2>4 DEF Of, Adds
    <3>2. A \cup {w} \in SUBSET B /\ w \notin A
      BY <2>1, <2>4 DEF Adding, Others, Kept, IsAdding
    <3>3. IsFiniteSet(R) /\ Cardinality(R) \in Nat /\ IsFiniteSet(A) /\ Cardinality(A) \in Nat
      BY CountedFinite DEF SessionInv
    <3>4. IsFiniteSet(B)
      <4>1. B \in SUBSET Workers
        OBVIOUS
      <4>2. QED  BY <4>1, SubsetSize, AccountAssumption DEF AccountAssumption
    <3>5. unfinished[u] \in Nat /\ Cardinality(R) <= 1 + unfinished[u] + Cardinality(A)
      BY <1>1 DEF SessionInv, RowsBounded
    <3> HIDE DEF R, S, A, B
    <3>6. IsFiniteSet(R \cup {t}) /\ Cardinality(R \cup {t}) <= Cardinality(R) + 1
      BY <3>3, SizeWith, SMTT(60)
    <3>7. Cardinality(S) \in Nat /\ Cardinality(S) <= Cardinality(R \cup {t})
          /\ Cardinality(R \cup {t}) \in Nat
      BY <3>1, <3>6, SubsetSize, SizeType
    <3>8. Cardinality(A \cup {w}) = Cardinality(A) + 1
      BY <3>2, <3>3, SizeWith
    <3>9. Cardinality(B) \in Nat /\ Cardinality(A \cup {w}) <= Cardinality(B)
      BY <3>2, <3>4, SubsetSize, SizeType
    <3>10. Cardinality(S) <= 1 + unfinished[u] + Cardinality(B)
      BY <3>3, <3>5, <3>6, <3>7, <3>8, <3>9, SMTT(60)
    <3>11. QED  BY <1>1, <3>10 DEF RowsBounded, Of, Adding, S, B
  <2>5. QED  BY <1>1, <2>2, <2>3, <2>4 DEF SessionInv
<1>5. QED  BY <1>1, <1>3, <1>4, UpsertEffect

\* At most the session that a login keeps is left to its user.
LEMMA OneLeft ==
    ASSUME NEW S, NEW x, S \in SUBSET {x}
    PROVE  Cardinality(S) \in Nat /\ Cardinality(S) <= 1
<1>1. IsFiniteSet({x}) /\ Cardinality({x}) = 1
  BY SingletonSize
<1>2. IsFiniteSet(S) /\ Cardinality(S) <= Cardinality({x})
  BY <1>1, SubsetSize
<1>3. Cardinality(S) \in Nat
  BY <1>2, SizeType
<1>4. QED  BY <1>1, <1>2, <1>3

\* A login that removes the other sessions leaves its own; one that fails to is
\* counted as unfinished.
LEMMA SessionDeleteOthers ==
    ASSUME Base, SessionInv, NEW w \in Workers, delete_user_sessions(w)
    PROVE  SessionInv'
<1> DEFINE u0 == req[w].user
           t == req[w].token
<1>1. /\ Types /\ Shape /\ req[w].pc = "delete_others" /\ u0 \in Users
      /\ unfinished \in [Users -> Nat] /\ IsFiniteSet(DOMAIN user_sessions)
  BY DEF Base, Shape, Carries, delete_user_sessions, At, SessionInv
<1>2. ASSUME Others(w), NEW u \in Users \ {u0} PROVE Adding(u) \in SUBSET Adding(u)'
  <2>1. ~IsAdding(req[w], u)
    BY DEF IsAdding
  <2>2. QED  BY <1>2, <2>1 DEF Adding, Others, Kept, IsAdding
<1>3. CASE /\ Ends(w) /\ UNCHANGED unfinished
           /\ Takes(user_sessions', user_sessions, Of(user_sessions, u0) \ Keeps(w))
  <2>1. Fewer(user_sessions', user_sessions)
    BY <1>3, TakesFewer
  <2>2. IsFiniteSet(DOMAIN user_sessions')
    BY <1>1, <2>1, FewerFinite
  <2>3. ASSUME NEW u \in Users \ {u0} PROVE RowsBounded(u)'
    <3>1. Of(user_sessions', u) \in SUBSET Of(user_sessions, u)
      BY <2>1, FewerOf
    <3>2. Of(user_sessions, u)' \in SUBSET Of(user_sessions, u)
      BY <3>1 DEF Of
    <3>3. QED  BY <1>2, <1>3, <3>2, BoundKept DEF Ends
  <2>4. ASSUME NEW u \in Users, u = u0 PROVE RowsBounded(u)'
    <3>1. Of(user_sessions, u)' \in SUBSET {t}
      BY <1>3, <2>4 DEF Takes, Of, Keeps
    <3>2. /\ Cardinality(Of(user_sessions, u)') \in Nat
          /\ Cardinality(Of(user_sessions, u)') <= 1
      BY <3>1, OneLeft
    <3>3. Cardinality(Adding(u)') \in Nat /\ unfinished'[u] \in Nat
      BY <1>1, <1>3, AddingFinite, SizeType
    <3>4. Cardinality(Of(user_sessions, u)') <= 1 + unfinished'[u] + Cardinality(Adding(u)')
      BY <3>2, <3>3, SMTT(60)
    <3>5. QED  BY <3>4 DEF RowsBounded
  <2>5. QED  BY <1>1, <1>3, <2>2, <2>3, <2>4 DEF SessionInv
<1>4. CASE /\ req[w].op # "login" /\ Ends(w) /\ UNCHANGED <<user_sessions, unfinished>>
  <2>1. Stays(w)
    BY <1>4 DEF Stays, IsAdding
  <2>2. Fewer(user_sessions', user_sessions)
    BY <1>4, SameFewer
  <2>3. QED  BY <1>4, <2>1, <2>2, SessionKept DEF Ends
<1>5. CASE /\ req[w].op = "login" /\ Goes(w, "forget") /\ UNCHANGED user_sessions
           /\ unfinished' = [unfinished EXCEPT ![u0] = @ + 1]
  <2>1. /\ unfinished' \in [Users -> Nat] /\ unfinished'[u0] = unfinished[u0] + 1
        /\ \A u \in Users \ {u0} : unfinished'[u] = unfinished[u]
    BY <1>1, <1>5, SMTT(60)
  <2>2. ASSUME NEW u \in Users \ {u0} PROVE RowsBounded(u)'
    <3>1. Of(user_sessions, u)' \in SUBSET Of(user_sessions, u)
      BY <1>5 DEF Of
    <3>2. QED  BY <1>2, <1>5, <2>1, <3>1, BoundKept DEF Goes
  <2>3. ASSUME NEW u \in Users, u = u0 PROVE RowsBounded(u)'
    <3> DEFINE A == Adding(u)
               B == {v \in Workers : IsAdding(req'[v], u)}
               R == Of(user_sessions, u)
    <3>1. A \ {w} \in SUBSET B
      BY <1>5 DEF Adding, Others, Kept, Goes, IsAdding
    <3>2. IsFiniteSet(A) /\ Cardinality(A) \in Nat /\ Cardinality(R) \in Nat
      BY <1>1, CountedFinite
    <3>3. IsFiniteSet(B)
      <4>1. B \in SUBSET Workers
        OBVIOUS
      <4>2. QED  BY <4>1, SubsetSize, AccountAssumption DEF AccountAssumption
    <3>4. unfinished[u] \in Nat /\ Cardinality(R) <= 1 + unfinished[u] + Cardinality(A)
      BY DEF SessionInv, RowsBounded
    <3> HIDE DEF A, B, R
    <3>5. /\ Cardinality(A \ {w}) \in Nat
          /\ Cardinality(A \ {w}) = IF w \in A THEN Cardinality(A) - 1 ELSE Cardinality(A)
      BY <3>2, SizeWithout, SizeType
    <3>6. Cardinality(B) \in Nat /\ Cardinality(A \ {w}) <= Cardinality(B)
      BY <3>1, <3>3, SubsetSize, SizeType
    <3>7. Cardinality(R) <= 1 + (unfinished[u] + 1) + Cardinality(B)
      BY <3>2, <3>4, <3>5, <3>6, SMTT(60)
    <3>8. QED  BY <1>5, <2>1, <2>3, <3>7 DEF RowsBounded, Of, Adding, R, B
  <2>4. QED  BY <1>1, <1>5, <2>1, <2>2, <2>3 DEF SessionInv
<1>6. QED  BY <1>1, <1>3, <1>4, <1>5, DeleteOthersEffect

\* A crash: every login under way is counted as unfinished.
LEMMA SessionCrash ==
    ASSUME Base, SessionInv, load_user_cache
    PROVE  SessionInv'
<1> DEFINE L(u) == {w \in Workers : req[w].user = u /\ req[w].op = "login" /\ Busy(w)}
<1>1. UNCHANGED user_sessions /\ unfinished' = [u \in Users |-> unfinished[u] + Cardinality(L(u))]
  BY DEF load_user_cache, tables
<1>2. ASSUME NEW u \in Users
      PROVE  /\ unfinished[u] \in Nat /\ Cardinality(L(u)) \in Nat
             /\ Cardinality(Adding(u)) \in Nat /\ Cardinality(Adding(u)) <= Cardinality(L(u))
             /\ Cardinality(Of(user_sessions, u)) \in Nat
             /\ Cardinality(Of(user_sessions, u)) <= 1 + unfinished[u] + Cardinality(Adding(u))
             /\ Cardinality(Adding(u)') \in Nat
  <2>1. L(u) \in SUBSET Workers /\ Adding(u) \in SUBSET L(u)
    BY DEF Adding, IsAdding, Busy
  <2> HIDE DEF L
  <2>2. IsFiniteSet(L(u))
    BY <2>1, SubsetSize, AccountAssumption DEF AccountAssumption
  <2>3. Cardinality(L(u)) \in Nat /\ Cardinality(Adding(u)) <= Cardinality(L(u))
    BY <2>1, <2>2, SubsetSize, SizeType
  <2>4. Cardinality(Adding(u)) \in Nat /\ Cardinality(Of(user_sessions, u)) \in Nat
    BY CountedFinite DEF SessionInv
  <2>5. Cardinality(Adding(u)') \in Nat
    BY AddingFinite, SizeType
  <2>6. QED  BY <2>3, <2>4, <2>5 DEF SessionInv, RowsBounded
<1> HIDE DEF L
<1>3. unfinished' \in [Users -> Nat]
  BY <1>1, <1>2, SMTT(60)
<1>4. ASSUME NEW u \in Users PROVE RowsBounded(u)'
  <2>1. unfinished'[u] = unfinished[u] + Cardinality(L(u))
    BY <1>1
  <2>2. Cardinality(Of(user_sessions, u)) <= 1 + unfinished'[u] + Cardinality(Adding(u)')
    BY <1>2, <2>1, SMTT(60)
  <2>3. QED  BY <1>1, <2>2 DEF RowsBounded, Of
<1>5. QED  BY <1>1, <1>3, <1>4 DEF SessionInv

LEMMA SessionNext == Base /\ SessionInv /\ [Next]_vars => SessionInv'
<1> SUFFICES ASSUME Base, SessionInv, [Next]_vars PROVE SessionInv'
  OBVIOUS
<1>1. ASSUME NEW w \in Workers,
             \/ \E u \in Users : register_user(w, u)
             \/ \E u \in Users, t \in Tokens : login_user(w, u, t)
             \/ \E op \in AllOps, t \in Tokens : lookup_session(w, op, t)
             \/ insert_user(w) \/ cache_user(w) \/ cache_refreshed(w) \/ erase_entry(w)
             \/ find_active_session(w) \/ cache_found(w)
      PROVE  SessionInv'
  BY <1>1, SessionQuiet
<1>2. ASSUME NEW w \in Workers,
             \/ refresh_session(w) \/ cleanup_session_token_or_expired(w) \/ remove_session(w)
             \/ delete_session(w) \/ persist_session(w) \/ remove_user_sessions(w)
             \/ upsert_session(w) \/ delete_user_sessions(w)
      PROVE  SessionInv'
  BY <1>2, SessionRows, SessionGoesOn, SessionUpsert, SessionDeleteOthers
<1>3. CASE Tick \/ (\E u \in Users : Disable(u)) \/ UNCHANGED vars
  <2>1. UNCHANGED <<user_sessions, req, unfinished>>
    BY <1>3 DEF Tick, Disable, vars, tables, history
  <2>2. QED  BY <2>1 DEF SessionInv, RowsBounded, Of, Adding
<1>4. CASE load_user_cache
  BY <1>4, SessionCrash
<1>5. QED  BY <1>1, <1>2, <1>3, <1>4 DEF Next

LEMMA SessionInit == Init => SessionInv
<1> SUFFICES ASSUME Init PROVE SessionInv
  OBVIOUS
<1>1. /\ DOMAIN user_sessions = {} /\ unfinished = [u \in Users |-> 0]
      /\ \A w \in Workers : req[w].pc = "idle"
  BY IdleType DEF Init, Empty
<1>2. ASSUME NEW u \in Users PROVE RowsBounded(u)
  <2>1. Of(user_sessions, u) = {} /\ Adding(u) = {} /\ unfinished[u] = 0
    BY <1>1 DEF Of, Adding, IsAdding
  <2>2. Cardinality({}) = 0
    BY EmptySize
  <2>3. QED  BY <2>1, <2>2, SMTT(60) DEF RowsBounded
<1>3. unfinished \in [Users -> Nat]
  BY <1>1, SMTT(60)
<1>4. IsFiniteSet(DOMAIN user_sessions)
  BY <1>1, EmptySize
<1>5. QED  BY <1>2, <1>3, <1>4 DEF SessionInv

\* The logins that have added a row are among those under way.
LEMMA SessionBound == SessionInv => OneSessionPerUser
<1> SUFFICES ASSUME SessionInv, NEW u \in Users
             PROVE  Cardinality(Of(user_sessions, u)) <= 1 + unfinished[u] + Cardinality(
                       {w \in Workers : Busy(w) /\ req[w].op = "login" /\ req[w].user = u})
  BY DEF OneSessionPerUser
<1> DEFINE L == {w \in Workers : Busy(w) /\ req[w].op = "login" /\ req[w].user = u}
<1>1. L \in SUBSET Workers /\ Adding(u) \in SUBSET L
  BY DEF Adding, IsAdding, Busy
<1> HIDE DEF L
<1>2. IsFiniteSet(L)
  BY <1>1, SubsetSize, AccountAssumption DEF AccountAssumption
<1>3. Cardinality(L) \in Nat /\ Cardinality(Adding(u)) <= Cardinality(L)
  BY <1>1, <1>2, SubsetSize, SizeType
<1>4. Cardinality(Adding(u)) \in Nat /\ Cardinality(Of(user_sessions, u)) \in Nat
  BY CountedFinite DEF SessionInv
<1>5. /\ unfinished[u] \in Nat
      /\ Cardinality(Of(user_sessions, u)) <= 1 + unfinished[u] + Cardinality(Adding(u))
  BY DEF SessionInv, RowsBounded
<1>6. Cardinality(Of(user_sessions, u)) <= 1 + unfinished[u] + Cardinality(L)
  BY <1>3, <1>4, <1>5, SMTT(60)
<1>7. QED  BY <1>6 DEF L

\* However logins, logouts, refreshes, failing statements and crashes interleave, a
\* user has one row in user_sessions, and one more at most for each login that is
\* under way or that stopped before it removed the others.
THEOREM SessionsSafe == Spec => []OneSessionPerUser
<1>1. Init => Base /\ SessionInv
  BY BaseInit, SessionInit
<1>2. Base /\ SessionInv /\ [Next]_vars => (Base /\ SessionInv)'
  BY BaseNext, SessionNext
<1>3. QED  BY <1>1, <1>2, SessionBound, PTL DEF Spec
=============================================================================
