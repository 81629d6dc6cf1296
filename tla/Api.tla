-------------------------------- MODULE Api ---------------------------------
(***************************************************************************)
(* The requests about one file's metadata, its downloads and its share     *)
(* links: FileController and OperationController over service/files and    *)
(* repo/mysql.  FileStore models uploads, folders and the storage of       *)
(* contents; here a file is a row with a content, and what matters is what *)
(* concurrent requests on the same file and the same link see.             *)
(*                                                                         *)
(* A worker executes one request; a step is one SQL statement or the       *)
(* opening of the content.  hard_delete_file is one transaction, so one    *)
(* step, and the removal of the content after its COMMIT another.          *)
(***************************************************************************)
EXTENDS Router, FiniteSets

CONSTANTS
    Workers,
    ApiUsers,
    Files,
    Owner,         \* the owner of each file
    Shares,        \* what make_share_token returns: each value once
    Limits,        \* values of max_downloads that are asked for; 0 is no limit
    Nil,
    MaxRequests,   \* bound: requests that start
    MaxFaults      \* bound: statements that fail

ApiAssumption ==
    /\ Owner \in [Files -> ApiUsers]
    /\ Limits \subseteq Nat
    /\ MaxRequests \in Nat /\ MaxFaults \in Nat
    /\ Nil \notin ApiUsers \cup Files \cup Shares \cup {"download"}

VARIABLES
    file_table,      \* rows of files: [state, public]; state "active", "trash" or "gone"
    contents,        \* files whose content exists
    file_shares,     \* rows of file_shares: token -> [file, max_downloads, download_count, expired]
    operation_logs,  \* number of rows per user
    req,             \* what each worker does
    requests,        \* requests started so far
    faults,          \* statements that failed so far
    granted,         \* history: per token, the downloads that were let through
    limit            \* history: per token, the limit it was created with

apiVars == <<file_table, contents, file_shares, operation_logs, req, requests, faults,
             granted, limit>>
shareHistory == <<granted, limit>>

\* purged: the file disappeared while the request was under way
NoRequest == [pc |-> "idle", op |-> Nil, user |-> Nil, file |-> Nil, token |-> Nil,
              max |-> 0, public |-> FALSE, attempt |-> 0, purged |-> FALSE]

WithRow(f, k, v) == [x \in DOMAIN f \cup {k} |-> IF x = k THEN v ELSE f[x]]

ApiInit ==
    /\ file_table = [f \in Files |-> [state |-> "active", public |-> FALSE]]
    /\ contents = Files
    /\ file_shares = [t \in {} |-> Nil]
    /\ operation_logs = [u \in ApiUsers |-> 0]
    /\ req = [w \in Workers |-> NoRequest]
    /\ requests = 0 /\ faults = 0
    /\ granted = [t \in Shares |-> 0] /\ limit = [t \in {} |-> Nil]

ReqAt(w, p) == req[w].pc = p
ReqMove(w, r) == req' = [req EXCEPT ![w] = r]
ReqGoto(w, p) == ReqMove(w, [req[w] EXCEPT !.pc = p])
Respond(w) == ReqMove(w, NoRequest)
Fault == faults < MaxFaults /\ faults' = faults + 1
Ok == UNCHANGED faults

\* The first statement of a request finds what it needs; a request that is
\* refused by then changes nothing.
Start(w, r) ==
    /\ ReqAt(w, "idle")
    /\ requests < MaxRequests
    /\ requests' = requests + 1
    /\ ReqMove(w, r)
    /\ UNCHANGED <<file_table, contents, file_shares, operation_logs, faults, shareHistory>>

Active(f) == file_table[f].state = "active"
-----------------------------------------------------------------------------
(***************************************************************************)
(* Metadata                                                                *)
(***************************************************************************)

\* load_owned_file_record, then the UPDATE of the operation.
remove(w, u, f) ==
    /\ Owner[f] = u /\ Active(f)
    /\ Start(w, [NoRequest EXCEPT !.pc = "soft_delete", !.user = u, !.file = f])

update_visibility(w, u, f, public) ==
    /\ Owner[f] = u /\ Active(f)
    /\ Start(w, [NoRequest EXCEPT !.pc = "visibility", !.user = u, !.file = f, !.public = public])

restore(w, u, f) ==
    /\ Owner[f] = u /\ file_table[f].state = "trash"
    /\ Start(w, [NoRequest EXCEPT !.pc = "restore", !.user = u, !.file = f])

\* One UPDATE each.  soft_delete_file and update_file_visibility succeed when
\* they match no row; only the first and restore_file look at deleted_at again.
update_file(w) ==
    LET r == req[w]
        row == file_table[r.file]
        set(state, public) ==
            file_table' = [file_table EXCEPT ![r.file] = [state |-> state, public |-> public]]
    IN  /\ \/ /\ ReqAt(w, "soft_delete") /\ ReqGoto(w, "log")
              /\ IF row.state = "active" THEN set("trash", FALSE) ELSE UNCHANGED file_table
           \/ /\ ReqAt(w, "visibility") /\ ReqGoto(w, "log")
              /\ IF row.state # "gone" THEN set(row.state, r.public) ELSE UNCHANGED file_table
           \/ /\ ReqAt(w, "restore")
              /\ IF row.state = "trash" THEN set("active", FALSE) /\ ReqGoto(w, "log")
                 ELSE UNCHANGED file_table /\ Respond(w)
        /\ UNCHANGED <<contents, file_shares, operation_logs, requests, faults, shareHistory>>

\* A plausible slip: the content goes although the COMMIT failed.
PurgeUncommitted(w, u, f) ==
    /\ ReqAt(w, "idle")
    /\ requests < MaxRequests /\ requests' = requests + 1
    /\ Owner[f] = u /\ file_table[f].state = "trash"
    /\ req' = [req EXCEPT ![w] = [NoRequest EXCEPT !.pc = "unlink", !.user = u, !.file = f]]
    /\ UNCHANGED <<file_table, file_shares, contents, operation_logs, faults, shareHistory>>

\* hard_delete_file: the rows of the file and, by the foreign key, of its
\* shares.  Requests that hold the record they read before are marked.
remove_permanently(w, u, f) ==
    /\ ReqAt(w, "idle")
    /\ requests < MaxRequests /\ requests' = requests + 1
    /\ Owner[f] = u /\ file_table[f].state = "trash"
    /\ file_table' = [file_table EXCEPT ![f] = [state |-> "gone", public |-> FALSE]]
    /\ file_shares' = [t \in {x \in DOMAIN file_shares : file_shares[x].file # f} |-> file_shares[t]]
    /\ req' = [v \in Workers |->
                  IF v = w THEN [NoRequest EXCEPT !.pc = "unlink", !.user = u, !.file = f]
                  ELSE IF req[v].file = f THEN [req[v] EXCEPT !.purged = TRUE] ELSE req[v]]
    /\ UNCHANGED <<contents, operation_logs, faults, shareHistory>>

remove_file(w) ==
    /\ ReqAt(w, "unlink")
    /\ contents' = contents \ {req[w].file}
    /\ ReqGoto(w, "log")
    /\ UNCHANGED <<file_table, file_shares, operation_logs, requests, faults, shareHistory>>

\* write_operation_log is the last statement of an operation, outside of its
\* transaction; its result is ignored.  A download is logged before the content
\* is opened, one of a guest without a user.
write_operation_log(w) ==
    LET r == req[w]
    IN  /\ ReqAt(w, "log")
        /\ \/ /\ Ok
              /\ operation_logs' = IF r.user = Nil THEN operation_logs
                                   ELSE [operation_logs EXCEPT ![r.user] = @ + 1]
           \/ Fault /\ UNCHANGED operation_logs
        /\ IF r.op = "download" THEN ReqGoto(w, "open") ELSE Respond(w)
        /\ UNCHANGED <<file_table, contents, file_shares, requests, shareHistory>>

operation_remove(w, u) ==
    /\ ReqAt(w, "idle") /\ requests < MaxRequests /\ requests' = requests + 1
    /\ operation_logs[u] > 0
    /\ operation_logs' = [operation_logs EXCEPT ![u] = @ - 1]
    /\ UNCHANGED <<file_table, contents, file_shares, req, faults, shareHistory>>

operation_clear(w, u) ==
    /\ ReqAt(w, "idle") /\ requests < MaxRequests /\ requests' = requests + 1
    /\ operation_logs' = [operation_logs EXCEPT ![u] = 0]
    /\ UNCHANGED <<file_table, contents, file_shares, req, faults, shareHistory>>
-----------------------------------------------------------------------------
(***************************************************************************)
(* Downloads and shares                                                    *)
(***************************************************************************)

\* load_owned_file_record or load_public_file_record
private_file_download(w, u, f) ==
    /\ Owner[f] = u /\ Active(f)
    /\ Start(w, [NoRequest EXCEPT !.pc = "log", !.op = "download", !.user = u, !.file = f])

public_file_download(w, f) ==
    /\ Active(f) /\ file_table[f].public
    /\ Start(w, [NoRequest EXCEPT !.pc = "log", !.op = "download", !.file = f])

\* load_shareable_file_record: one's own file, or a public one
share_create(w, u, f, max) ==
    /\ Active(f) /\ (Owner[f] = u \/ file_table[f].public)
    /\ Start(w, [NoRequest EXCEPT !.pc = "insert_share", !.user = u, !.file = f, !.max = max])

\* create_share_link tries three tokens.  The foreign key refuses a file that
\* is gone; one in the recycle bin is accepted.
insert_file_share(w, t) ==
    LET r == req[w]
    IN  /\ ReqAt(w, "insert_share")
        /\ \/ /\ file_table[r.file].state # "gone" /\ Ok
              /\ t \notin DOMAIN limit
              /\ file_shares' = WithRow(file_shares, t, [file |-> r.file, max_downloads |-> r.max,
                                                         download_count |-> 0, expired |-> FALSE])
              /\ limit' = WithRow(limit, t, r.max)
              /\ ReqMove(w, [r EXCEPT !.pc = "fetch_share", !.token = t])
           \/ /\ file_table[r.file].state = "gone" \/ faults < MaxFaults
              /\ faults' = IF file_table[r.file].state = "gone" THEN faults ELSE faults + 1
              /\ IF r.attempt = 2 THEN Respond(w) ELSE ReqMove(w, [r EXCEPT !.attempt = @ + 1])
              /\ UNCHANGED <<file_shares, limit>>
        /\ UNCHANGED <<file_table, contents, operation_logs, requests, granted>>

\* The new row is read back; when that fails the link stays, unreported.
fetch_created_share(w) ==
    /\ ReqAt(w, "fetch_share")
    /\ \/ req[w].token \in DOMAIN file_shares /\ Ok /\ ReqGoto(w, "log")
       \/ req[w].token \notin DOMAIN file_shares /\ Ok /\ Respond(w)
       \/ Fault /\ Respond(w)
    /\ UNCHANGED <<file_table, contents, file_shares, operation_logs, requests, shareHistory>>

\* Is the link usable?  (The access code is right or not needed.)
validate_share_access_candidate(t) ==
    LET s == file_shares[t]
    IN  /\ Active(s.file)
        /\ ~s.expired
        /\ s.max_downloads = 0 \/ s.download_count < s.max_downloads

share_download(w, t) ==
    /\ t \in DOMAIN file_shares
    /\ validate_share_access_candidate(t)
    /\ Start(w, [NoRequest EXCEPT !.pc = "increment", !.op = "download", !.token = t,
                                  !.file = file_shares[t].file])

\* A plausible slip: the UPDATE relies on the check that was made before it.
IncrementUnchecked(t) == t \in DOMAIN file_shares /\ ~file_shares[t].expired

\* The rows that UPDATE ... SET download_count = download_count + 1 matches.
increment_matches(t) ==
    /\ t \in DOMAIN file_shares
    /\ ~file_shares[t].expired
    /\ file_shares[t].max_downloads = 0
          \/ file_shares[t].download_count < file_shares[t].max_downloads

increment_file_share_download_count(w) ==
    LET t == req[w].token
    IN  /\ ReqAt(w, "increment")
        /\ \/ /\ increment_matches(t) /\ Ok
              /\ file_shares' = [file_shares EXCEPT ![t].download_count = @ + 1]
              /\ granted' = [granted EXCEPT ![t] = @ + 1]
              /\ ReqGoto(w, "log")
           \/ ~increment_matches(t) /\ Ok /\ Respond(w) /\ UNCHANGED <<file_shares, granted>>
           \/ Fault /\ Respond(w) /\ UNCHANGED <<file_shares, granted>>
        /\ UNCHANGED <<file_table, contents, operation_logs, requests, limit>>

\* open_managed_file, called by the connection with the path that the
\* controller put into the response.
open_managed_file(w) ==
    /\ ReqAt(w, "open")
    /\ IF req[w].file \in contents THEN Respond(w) ELSE ReqGoto(w, "not_found")
    /\ UNCHANGED <<file_table, contents, file_shares, operation_logs, requests, faults,
                   shareHistory>>

answer_not_found(w) ==
    /\ ReqAt(w, "not_found")
    /\ Respond(w)
    /\ UNCHANGED <<file_table, contents, file_shares, operation_logs, requests, faults,
                   shareHistory>>

\* Time passes: expires_at of a link is reached.
Expire(t) ==
    /\ t \in DOMAIN file_shares /\ ~file_shares[t].expired
    /\ file_shares' = [file_shares EXCEPT ![t].expired = TRUE]
    /\ UNCHANGED <<file_table, contents, operation_logs, req, requests, faults, shareHistory>>
-----------------------------------------------------------------------------
ApiNext ==
    \/ \E w \in Workers, u \in ApiUsers, f \in Files :
        \/ remove(w, u, f)
        \/ restore(w, u, f)
        \/ remove_permanently(w, u, f)
        \/ \E public \in BOOLEAN : update_visibility(w, u, f, public)
        \/ private_file_download(w, u, f)
        \/ \E max \in Limits : share_create(w, u, f, max)
    \/ \E w \in Workers :
        \/ update_file(w)
        \/ remove_file(w)
        \/ write_operation_log(w)
        \/ \E u \in ApiUsers : operation_remove(w, u)
        \/ \E u \in ApiUsers : operation_clear(w, u)
        \/ \E f \in Files : public_file_download(w, f)
        \/ \E t \in Shares : insert_file_share(w, t)
        \/ fetch_created_share(w)
        \/ \E t \in Shares : share_download(w, t)
        \/ increment_file_share_download_count(w)
        \/ open_managed_file(w)
        \/ answer_not_found(w)
    \/ \E t \in Shares : Expire(t)

ApiSpec == ApiInit /\ [][ApiNext]_apiVars
-----------------------------------------------------------------------------
(***************************************************************************)
(* Properties                                                              *)
(***************************************************************************)

\* Whatever substring the router finds in a path, a request reaches an operation
\* exactly when its method and its path are those of a documented endpoint, and
\* a private one only with a session (handle_request; evaluated once).
RoutesAsDocumented == requests = 0 => DispatchMatchesEndpoints

\* A share link lets no more downloads through than max_downloads says, however
\* many requests have passed validate_share_access_candidate at the same time,
\* and every download let through is counted.
ShareLimitRespected ==
    \A t \in DOMAIN limit :
        /\ limit[t] > 0 => granted[t] <= limit[t]
        /\ t \in DOMAIN file_shares => file_shares[t].download_count = granted[t]

\* open_managed_file misses the content of a download only when the file was
\* deleted for good after the request had read its row.
MissingOnlyAfterPurge == \A w \in Workers : ReqAt(w, "not_found") => req[w].purged
=============================================================================
