---------------------------- MODULE DriveProofs -----------------------------
(***************************************************************************)
(* The drive, for any number of workers, users, files, links, sessions and *)
(* uploads.  Requests: max_downloads is never exceeded, and a download     *)
(* misses its content only when the file was deleted for good after the    *)
(* request had read its row.  Storage: the reference counts are exact,     *)
(* files leave for good only from the recycle bin, and, when the           *)
(* consistency script does not run beside the server, no file loses its    *)
(* content and the script leaves nothing else on disk.                     *)
(***************************************************************************)
EXTENDS Api, StorageChecker, Integers, TLAPS
-----------------------------------------------------------------------------
(***************************************************************************)
(* Requests.  Leaves go to the SMT solver, unless they name Zenon or PTL.  *)
(***************************************************************************)

Requests ==
    [pc : {"idle", "soft_delete", "visibility", "restore", "unlink", "log", "open", "not_found",
           "insert_share", "fetch_share", "increment"},
     op : {Nil, "download"}, user : ApiUsers \cup {Nil}, file : Files \cup {Nil},
     token : Shares \cup {Nil}, max : Nat, public : BOOLEAN, attempt : Nat, purged : BOOLEAN]

ShareRows == [file : Files, max_downloads : Nat, download_count : Nat, expired : BOOLEAN]

\* A request under way is about a file.
Types ==
    /\ ApiAssumption
    /\ req \in [Workers -> Requests]
    /\ \A w \in Workers : req[w].pc # "idle" => req[w].file \in Files
    /\ file_table \in [Files -> [state : {"active", "trash", "gone"}, public : BOOLEAN]]
    /\ \A t \in DOMAIN file_shares : file_shares[t] \in ShareRows

\* The row of a link counts what it let through, and a token is used once.
Links ==
    /\ granted \in [Shares -> Nat]
    /\ DOMAIN file_shares \subseteq DOMAIN limit
    /\ DOMAIN limit \subseteq Shares
    /\ \A t \in DOMAIN limit : limit[t] \in Nat /\ (limit[t] > 0 => granted[t] <= limit[t])
    /\ \A t \in Shares \ DOMAIN limit : granted[t] = 0
    /\ \A t \in DOMAIN file_shares :
        file_shares[t].max_downloads = limit[t] /\ file_shares[t].download_count = granted[t]

\* A request that will open the content of a file whose row is gone has been
\* marked by remove_permanently.
Marked(r) ==
    /\ r.pc = "unlink" => file_table[r.file].state = "gone"
    /\ r.pc \in {"open", "not_found"} => r.op = "download"
    /\ r.op = "download" => r.pc \in {"increment", "log", "open", "not_found"}
    /\ r.op = "download" /\ file_table[r.file].state = "gone" => r.purged = TRUE
    /\ r.pc = "not_found" => r.purged = TRUE

\* A content is removed only after its row.
ContentThere ==
    /\ \A f \in Files \ contents : file_table[f].state = "gone"
    /\ \A w \in Workers : Marked(req[w])

Inv == Types /\ Links /\ ContentThere
-----------------------------------------------------------------------------
\* An idle worker, and what Goto makes of the request of a busy one.
LEMMA RequestRecords ==
    ASSUME Types
    PROVE  /\ NoRequest \in Requests
           /\ NoRequest.pc = "idle" /\ NoRequest.op = Nil /\ NoRequest.op # "download"
           /\ Marked(NoRequest)
           /\ \A w \in Workers, pc \in {"log", "open", "not_found", "fetch_share"} :
                LET r == [req[w] EXCEPT !.pc = pc]
                IN  /\ r \in Requests
                    /\ r.pc = pc /\ r.op = req[w].op /\ r.file = req[w].file /\ r.purged = req[w].purged
<1> USE SMTT(60)
<1>1. NoRequest \in Requests /\ NoRequest.pc = "idle" /\ NoRequest.op = Nil
  BY DEF NoRequest, Requests
<1>2. Nil # "download"
  BY DEF Types, ApiAssumption
<1>3. \A w \in Workers, pc \in {"log", "open", "not_found", "fetch_share"} :
        LET r == [req[w] EXCEPT !.pc = pc]
        IN  /\ r \in Requests
            /\ r.pc = pc /\ r.op = req[w].op /\ r.file = req[w].file /\ r.purged = req[w].purged
  <2> SUFFICES ASSUME NEW w \in Workers, NEW pc \in {"log", "open", "not_found", "fetch_share"}
               PROVE  LET r == [req[w] EXCEPT !.pc = pc]
                      IN  /\ r \in Requests
                          /\ r.pc = pc /\ r.op = req[w].op /\ r.file = req[w].file
                          /\ r.purged = req[w].purged
    BY ZenonT(60)
  <2>1. req[w] \in Requests
    BY DEF Types
  <2>2. QED  BY <2>1 DEF Requests
<1>4. QED  BY <1>1, <1>2, <1>3 DEF Marked

\* A worker goes on to r and the rows of files stay.
LEMMA RequestStep ==
    ASSUME Types, \A v \in Workers : Marked(req[v]),
           NEW w \in Workers, NEW r \in Requests, r.pc # "idle" => r.file \in Files, Marked(r),
           ReqMove(w, r), file_table' = file_table
    PROVE  /\ req' \in [Workers -> Requests]
           /\ \A v \in Workers : req'[v].pc # "idle" => req'[v].file \in Files
           /\ (\A v \in Workers : Marked(req[v]))'
  BY DEF Types, ReqMove, Marked

\* What a request starts with, when its first statement finds the file.
LEMMA StartStep ==
    ASSUME Inv, NEW w \in Workers, NEW r \in Requests, r.file \in Files, Marked(r), Start(w, r)
    PROVE  Inv'
<1> USE SMTT(60)
<1>1. /\ ReqMove(w, r) /\ file_table' = file_table /\ contents' = contents
      /\ file_shares' = file_shares
      /\ granted' = granted /\ limit' = limit
  BY DEF Start, shareHistory
<1>2. QED
  BY <1>1, RequestStep DEF Inv, Types, Links, ContentThere, ApiAssumption

\* The operations on a file that begin with a read of its row, which finds it
\* in the recycle bin or active.
LEMMA Starts ==
    ASSUME Inv, NEW w \in Workers, NEW u \in ApiUsers, NEW f \in Files,
           \/ remove(w, u, f) \/ restore(w, u, f)
           \/ \E public \in BOOLEAN : update_visibility(w, u, f, public)
           \/ private_file_download(w, u, f) \/ public_file_download(w, f)
           \/ \E max \in Limits : share_create(w, u, f, max)
           \/ \E t \in Shares : share_download(w, t)
    PROVE  Inv'
<1> USE SMTT(60)
<1>1. Types /\ Nil # "download"
  BY DEF Inv, Types, ApiAssumption
<1>2. CASE remove(w, u, f)
  <2> DEFINE r == [NoRequest EXCEPT !.pc = "soft_delete", !.user = u, !.file = f]
  <2>1. r \in Requests /\ r.pc = "soft_delete" /\ r.file = f /\ r.op = Nil
    BY ZenonT(60) DEF NoRequest, Requests
  <2>2. Start(w, r)
    BY <1>2 DEF remove
  <2> HIDE DEF r
  <2>3. QED  BY <1>1, <2>1, <2>2, StartStep, ZenonT(60) DEF Marked
<1>3. CASE restore(w, u, f)
  <2> DEFINE r == [NoRequest EXCEPT !.pc = "restore", !.user = u, !.file = f]
  <2>1. r \in Requests /\ r.pc = "restore" /\ r.file = f /\ r.op = Nil
    BY ZenonT(60) DEF NoRequest, Requests
  <2>2. Start(w, r)
    BY <1>3 DEF restore
  <2> HIDE DEF r
  <2>3. QED  BY <1>1, <2>1, <2>2, StartStep, ZenonT(60) DEF Marked
<1>4. ASSUME NEW public \in BOOLEAN, update_visibility(w, u, f, public) PROVE Inv'
  <2> DEFINE r == [NoRequest EXCEPT !.pc = "visibility", !.user = u, !.file = f, !.public = public]
  <2>1. r \in Requests /\ r.pc = "visibility" /\ r.file = f /\ r.op = Nil
    BY ZenonT(60) DEF NoRequest, Requests
  <2>2. Start(w, r)
    BY <1>4, ZenonT(60) DEF update_visibility
  <2> HIDE DEF r
  <2>3. QED  BY <1>1, <2>1, <2>2, StartStep, ZenonT(60) DEF Marked
<1>5. CASE private_file_download(w, u, f)
  <2> DEFINE r == [NoRequest EXCEPT !.pc = "log", !.op = "download", !.user = u, !.file = f]
  <2>1. r \in Requests /\ r.pc = "log" /\ r.file = f /\ r.op = "download"
    BY ZenonT(60) DEF NoRequest, Requests
  <2>2. Start(w, r) /\ file_table[f].state = "active"
    BY <1>5 DEF private_file_download, Active
  <2> HIDE DEF r
  <2>3. QED  BY <1>1, <2>1, <2>2, StartStep, ZenonT(60) DEF Marked
<1>6. CASE public_file_download(w, f)
  <2> DEFINE r == [NoRequest EXCEPT !.pc = "log", !.op = "download", !.file = f]
  <2>1. r \in Requests /\ r.pc = "log" /\ r.file = f /\ r.op = "download"
    BY ZenonT(60) DEF NoRequest, Requests
  <2>2. Start(w, r) /\ file_table[f].state = "active"
    BY <1>6 DEF public_file_download, Active
  <2> HIDE DEF r
  <2>3. QED  BY <1>1, <2>1, <2>2, StartStep, ZenonT(60) DEF Marked
<1>7. ASSUME NEW max \in Limits, share_create(w, u, f, max) PROVE Inv'
  <2> DEFINE r == [NoRequest EXCEPT !.pc = "insert_share", !.user = u, !.file = f, !.max = max]
  <2>1. max \in Nat
    BY <1>1 DEF Types, ApiAssumption
  <2>2. r \in Requests /\ r.pc = "insert_share" /\ r.file = f /\ r.op = Nil
    BY <2>1, ZenonT(60) DEF NoRequest, Requests
  <2>3. Start(w, r)
    BY <1>7, ZenonT(60) DEF share_create
  <2> HIDE DEF r
  <2>4. QED  BY <1>1, <2>2, <2>3, StartStep, ZenonT(60) DEF Marked
<1>8. ASSUME NEW t \in Shares, share_download(w, t) PROVE Inv'
  <2> DEFINE g == file_shares[t].file
             r == [NoRequest EXCEPT !.pc = "increment", !.op = "download", !.token = t, !.file = g]
  <2>1. g \in Files
    BY <1>1, <1>8, ZenonT(60) DEF Types, ShareRows, share_download
  <2>2. Start(w, r) /\ file_table[g].state = "active"
    BY <1>8, ZenonT(60) DEF share_download, validate_share_access_candidate, Active
  <2> HIDE DEF g
  <2>3. r \in Requests /\ r.pc = "increment" /\ r.file = g /\ r.op = "download"
    BY <2>1, ZenonT(60) DEF NoRequest, Requests
  <2> HIDE DEF r
  <2>4. QED  BY <1>1, <2>1, <2>2, <2>3, StartStep, ZenonT(60) DEF Marked
<1>9. QED  BY <1>2, <1>3, <1>4, <1>5, <1>6, <1>7, <1>8

\* update_file moves no row into or out of "gone", and no request that it has
\* to mark.
LEMMA RequestUpdates ==
    ASSUME Inv, NEW w \in Workers, update_file(w)
    PROVE  Inv'
<1> USE SMTT(60)
<1>1. Types /\ req[w] \in Requests /\ req[w].file \in Files
      /\ req[w].pc \in {"soft_delete", "visibility", "restore"}
  BY DEF Inv, Types, update_file, ReqAt
<1>2. /\ file_table' \in [Files -> [state : {"active", "trash", "gone"}, public : BOOLEAN]]
      /\ \A f \in Files : file_table'[f].state = "gone" <=> file_table[f].state = "gone"
  <2>1. \/ file_table' = file_table
        \/ /\ file_table[req[w].file].state # "gone"
           /\ \E state \in {"active", "trash"}, public \in BOOLEAN :
                file_table' = [file_table EXCEPT ![req[w].file] = [state |-> state, public |-> public]]
    <3>1. /\ req[w].public \in BOOLEAN
          /\ file_table[req[w].file] \in [state : {"active", "trash", "gone"}, public : BOOLEAN]
      BY <1>1 DEF Types, Requests
    <3>2. CASE ReqAt(w, "soft_delete")
      BY <3>2, ZenonT(60) DEF update_file, ReqAt
    <3>3. CASE ReqAt(w, "visibility")
      BY <3>1, <3>3 DEF update_file, ReqAt
    <3>4. CASE ReqAt(w, "restore")
      BY <3>4, ZenonT(60) DEF update_file, ReqAt
    <3>5. QED  BY <1>1, <3>2, <3>3, <3>4, ZenonT(60) DEF ReqAt
  <2>2. ASSUME NEW state \in {"active", "trash"}, NEW public \in BOOLEAN,
               file_table[req[w].file].state # "gone",
               file_table' = [file_table EXCEPT ![req[w].file] = [state |-> state, public |-> public]]
        PROVE  /\ file_table' \in [Files -> [state : {"active", "trash", "gone"}, public : BOOLEAN]]
               /\ \A f \in Files : file_table'[f].state = "gone" <=> file_table[f].state = "gone"
    <3>1. [state |-> state, public |-> public] \in [state : {"active", "trash", "gone"}, public : BOOLEAN]
      OBVIOUS
    <3>2. QED  BY <1>1, <2>2, <3>1 DEF Types
  <2>3. QED  BY <1>1, <2>1, <2>2, ZenonT(60) DEF Types
<1>3. PICK r \in Requests : /\ ReqMove(w, r) /\ (r.pc # "idle" => r.file \in Files)
                            /\ r.pc \in {"idle", "log"} /\ r.op # "download"
  <2>1. req[w].op # "download"
    BY <1>1 DEF Inv, ContentThere, Marked
  <2>2. ReqGoto(w, "log") \/ Respond(w)
    BY DEF update_file
  <2>3. CASE ReqGoto(w, "log")
    <3> DEFINE r == [req[w] EXCEPT !.pc = "log"]
    <3>1. r \in Requests /\ r.pc = "log" /\ r.op = req[w].op /\ r.file = req[w].file
      BY <1>1, RequestRecords, ZenonT(60)
    <3>2. ReqMove(w, r)
      BY <2>3 DEF ReqGoto
    <3> HIDE DEF r
    <3>3. QED  BY <1>1, <2>1, <3>1, <3>2
  <2>4. CASE Respond(w)
    BY <1>1, <2>4, RequestRecords DEF Respond
  <2>5. QED  BY <2>2, <2>3, <2>4
<1>4. /\ contents' = contents /\ file_shares' = file_shares /\ granted' = granted /\ limit' = limit
  BY DEF update_file, shareHistory
<1>5. Types'
  BY <1>1, <1>2, <1>3, <1>4 DEF Types, ApiAssumption, ReqMove
<1>6. (\A v \in Workers : Marked(req[v]))'
  <2> SUFFICES ASSUME NEW v \in Workers PROVE Marked(req[v])'
    OBVIOUS
  <2>1. CASE v = w
    BY <1>1, <1>3, <2>1 DEF Types, ReqMove, Marked
  <2>2. CASE v # w
    <3>1. req'[v] = req[v] /\ Marked(req[v])
      BY <1>1, <1>3, <2>2 DEF Types, ReqMove, Inv, ContentThere
    <3>2. req[v].pc # "idle" => req[v].file \in Files
      BY <1>1 DEF Types
    <3>3. QED  BY <1>2, <3>1, <3>2 DEF Marked
  <2>3. QED  BY <2>1, <2>2
<1>7. QED
  BY <1>2, <1>4, <1>5, <1>6 DEF Inv, Links, ContentThere

\* remove_permanently takes the row, and the links that refer to it, and marks
\* every other request on the file.
LEMMA PurgeStep ==
    ASSUME Inv, NEW w \in Workers, NEW u \in ApiUsers, NEW f \in Files, remove_permanently(w, u, f)
    PROVE  Inv'
<1> USE SMTT(60)
<1>1. Types /\ Links /\ ContentThere /\ Nil # "download"
  BY DEF Inv, Types, ApiAssumption
<1> DEFINE mine == [NoRequest EXCEPT !.pc = "unlink", !.user = u, !.file = f]
           marked(v) == [req[v] EXCEPT !.purged = TRUE]
<1>2. mine \in Requests /\ mine.pc = "unlink" /\ mine.file = f /\ mine.op = Nil
  BY ZenonT(60) DEF NoRequest, Requests
<1>3. \A v \in Workers :
        /\ marked(v) \in Requests
        /\ marked(v).pc = req[v].pc /\ marked(v).file = req[v].file /\ marked(v).op = req[v].op
        /\ marked(v).purged = TRUE
  <2> SUFFICES ASSUME NEW v \in Workers
               PROVE  /\ marked(v) \in Requests
                      /\ marked(v).pc = req[v].pc /\ marked(v).file = req[v].file
                      /\ marked(v).op = req[v].op /\ marked(v).purged = TRUE
    OBVIOUS
  <2>1. req[v] \in Requests
    BY <1>1 DEF Types
  <2>2. QED  BY <2>1, ZenonT(60) DEF Requests
<1>4. /\ req' = [v \in Workers |-> IF v = w THEN mine
                                  ELSE IF req[v].file = f THEN marked(v) ELSE req[v]]
      /\ file_table' = [file_table EXCEPT ![f] = [state |-> "gone", public |-> FALSE]]
      /\ file_shares' = [t \in {x \in DOMAIN file_shares : file_shares[x].file # f} |-> file_shares[t]]
      /\ contents' = contents /\ granted' = granted /\ limit' = limit
  BY DEF remove_permanently, shareHistory
<1> HIDE DEF mine, marked
<1>5. /\ file_table' \in [Files -> [state : {"active", "trash", "gone"}, public : BOOLEAN]]
      /\ file_table'[f].state = "gone" /\ \A g \in Files : g # f => file_table'[g] = file_table[g]
  BY <1>1, <1>4 DEF Types
<1>6. Types'
  BY <1>1, <1>2, <1>3, <1>4, <1>5 DEF Types, ApiAssumption
<1>7. Links'
  BY <1>1, <1>4 DEF Links
<1>8. (\A v \in Workers : Marked(req[v]))'
  <2> SUFFICES ASSUME NEW v \in Workers PROVE Marked(req[v])'
    OBVIOUS
  <2>1. Marked(req[v]) /\ (req[v].pc # "idle" => req[v].file \in Files)
    BY <1>1 DEF Types, ContentThere
  <2>2. CASE v = w
    BY <1>1, <1>2, <1>4, <1>5, <2>2 DEF Marked
  <2>3. CASE v # w /\ req[v].file = f
    BY <1>3, <1>4, <1>5, <2>1, <2>3 DEF Marked
  <2>4. CASE v # w /\ req[v].file # f
    BY <1>4, <1>5, <2>1, <2>4 DEF Marked
  <2>5. QED  BY <2>2, <2>3, <2>4
<1>9. QED  BY <1>1, <1>4, <1>5, <1>6, <1>7, <1>8 DEF Inv, ContentThere

\* The last steps of a request: what it leaves, besides the worker, is the
\* operation log and, after the row, the content.
LEMMA LastSteps ==
    ASSUME Inv, NEW w \in Workers,
           \/ remove_file(w) \/ write_operation_log(w) \/ fetch_created_share(w)
           \/ open_managed_file(w) \/ answer_not_found(w)
           \/ \E u \in ApiUsers : operation_remove(w, u) \/ operation_clear(w, u)
    PROVE  Inv'
<1> USE SMTT(60)
<1>1. Types /\ ContentThere /\ Links /\ req[w] \in Requests
      /\ Marked(req[w]) /\ (req[w].pc # "idle" => req[w].file \in Files)
  BY DEF Inv, Types, ContentThere
<1>2. /\ file_table' = file_table /\ file_shares' = file_shares /\ granted' = granted /\ limit' = limit
      /\ \A f \in Files \ contents' : file_table[f].state = "gone"
  <2>1. /\ file_table' = file_table /\ file_shares' = file_shares /\ granted' = granted /\ limit' = limit
        /\ contents' = contents \/ (req[w].pc = "unlink" /\ contents' = contents \ {req[w].file})
    BY ZenonT(60) DEF ReqAt, remove_file, write_operation_log, fetch_created_share,
       open_managed_file, answer_not_found, operation_remove, operation_clear, shareHistory
  <2>2. QED  BY <1>1, <2>1, ZenonT(60) DEF ContentThere, Marked
<1>3. \/ req' = req
      \/ Respond(w)
      \/ ReqGoto(w, "log") /\ req[w].pc \in {"unlink", "fetch_share"}
      \/ ReqGoto(w, "open") /\ req[w].pc = "log" /\ req[w].op = "download"
      \/ ReqGoto(w, "not_found") /\ req[w].pc = "open" /\ req[w].file \notin contents
  BY DEF ReqAt, remove_file, write_operation_log, fetch_created_share, open_managed_file,
     answer_not_found, operation_remove, operation_clear
<1>4. ASSUME req' = req \/ \E r \in Requests : /\ ReqMove(w, r) /\ Marked(r)
                                               /\ (r.pc # "idle" => r.file \in Files)
      PROVE  Inv'
  <2>0. ASSUME req' \in [Workers -> Requests],
               \A v \in Workers : req'[v].pc # "idle" => req'[v].file \in Files,
               (\A v \in Workers : Marked(req[v]))'
        PROVE  Inv'
    <3>1. Types'
      BY <1>1, <1>2, <2>0, ZenonT(60) DEF Types
    <3>2. Links'
      BY <1>1, <1>2, ZenonT(60) DEF Links
    <3>3. ContentThere'
      BY <1>2, <2>0, ZenonT(60) DEF ContentThere
    <3>4. QED  BY <3>1, <3>2, <3>3, ZenonT(60) DEF Inv
  <2>1. CASE req' = req
    <3>1. (\A v \in Workers : Marked(req[v]))'
      BY <1>1, <1>2, <2>1, ZenonT(60) DEF ContentThere, Marked
    <3>2. QED  BY <1>1, <2>0, <2>1, <3>1, ZenonT(60) DEF Types
  <2>2. ASSUME NEW r \in Requests, ReqMove(w, r), Marked(r), r.pc # "idle" => r.file \in Files
        PROVE  Inv'
    <3>1. /\ req' \in [Workers -> Requests]
          /\ \A v \in Workers : req'[v].pc # "idle" => req'[v].file \in Files
          /\ (\A v \in Workers : Marked(req[v]))'
      BY <1>1, <1>2, <2>2, RequestStep, ZenonT(60) DEF ContentThere
    <3>2. QED  BY <2>0, <3>1, ZenonT(60)
  <2>3. QED  BY <1>4, <2>1, <2>2
<1>5. CASE Respond(w)
  BY <1>1, <1>4, <1>5, RequestRecords DEF Respond
<1>6. ASSUME NEW pc \in {"log", "open", "not_found"}, ReqGoto(w, pc), req[w].pc # "idle",
             pc = "log" => req[w].op # "download",
             pc # "log" => req[w].op = "download",
             pc = "not_found" => req[w].purged = TRUE
      PROVE  Inv'
  <2> DEFINE r == [req[w] EXCEPT !.pc = pc]
  <2>1. /\ r \in Requests
        /\ r.pc = pc /\ r.op = req[w].op /\ r.file = req[w].file /\ r.purged = req[w].purged
    BY <1>1, RequestRecords, ZenonT(60)
  <2>2. ReqMove(w, r)
    BY <1>6 DEF ReqGoto
  <2> HIDE DEF r
  <2>3. Marked(r)
    BY <1>1, <1>6, <2>1, ZenonT(60) DEF Marked
  <2>4. QED  BY <1>1, <1>4, <1>6, <2>1, <2>2, <2>3, ZenonT(60)
<1>7. CASE ReqGoto(w, "log") /\ req[w].pc \in {"unlink", "fetch_share"}
  BY <1>1, <1>6, <1>7 DEF Marked
<1>8. CASE ReqGoto(w, "open") /\ req[w].pc = "log" /\ req[w].op = "download"
  BY <1>6, <1>8
<1>9. CASE ReqGoto(w, "not_found") /\ req[w].pc = "open" /\ req[w].file \notin contents
  BY <1>1, <1>6, <1>9, ZenonT(60) DEF Marked, ContentThere
<1>10. QED  BY <1>3, <1>4, <1>5, <1>7, <1>8, <1>9

\* insert_file_share: the new link has let nothing through.
LEMMA InsertStep ==
    ASSUME Inv, NEW w \in Workers, NEW t \in Shares, insert_file_share(w, t)
    PROVE  Inv'
<1> USE SMTT(60)
<1>1. Types /\ ContentThere /\ Links /\ req[w] \in Requests /\ req[w].pc = "insert_share"
      /\ Marked(req[w]) /\ req[w].file \in Files /\ req[w].op # "download"
  BY DEF Inv, Types, ContentThere, Marked, insert_file_share, ReqAt
<1>2. file_table' = file_table /\ contents' = contents /\ granted' = granted
  BY DEF insert_file_share
<1>3. ASSUME NEW r \in Requests, ReqMove(w, r), r.op # "download",
             r.pc \in {"idle", "fetch_share", "insert_share"}, r.pc # "idle" => r.file \in Files
      PROVE  /\ req' \in [Workers -> Requests]
             /\ \A v \in Workers : req'[v].pc # "idle" => req'[v].file \in Files
             /\ ContentThere'
  <2>1. Marked(r)
    BY <1>3 DEF Marked
  <2>2. QED  BY <1>1, <1>2, <1>3, <2>1, RequestStep DEF ContentThere
<1> DEFINE row == [file |-> req[w].file, max_downloads |-> req[w].max, download_count |-> 0,
                   expired |-> FALSE]
<1>4. CASE /\ t \notin DOMAIN limit
           /\ file_shares' = WithRow(file_shares, t, row)
           /\ limit' = WithRow(limit, t, req[w].max)
           /\ ReqMove(w, [req[w] EXCEPT !.pc = "fetch_share", !.token = t])
  <2>1. row \in ShareRows /\ row.max_downloads = req[w].max /\ row.download_count = 0 /\ req[w].max \in Nat
    BY <1>1 DEF ShareRows, Requests
  <2> HIDE DEF row
  <2>2. /\ DOMAIN limit' = DOMAIN limit \cup {t} /\ limit'[t] = req[w].max
        /\ \A x \in DOMAIN limit : limit'[x] = limit[x]
        /\ DOMAIN file_shares' = DOMAIN file_shares \cup {t} /\ file_shares'[t] = row
        /\ \A x \in DOMAIN file_shares : x # t => file_shares'[x] = file_shares[x]
    BY <1>4 DEF WithRow
  <2>3. Links'
    BY <1>1, <1>2, <1>4, <2>1, <2>2 DEF Links
  <2> DEFINE r == [req[w] EXCEPT !.pc = "fetch_share", !.token = t]
  <2>4. r \in Requests /\ r.pc = "fetch_share" /\ r.op = req[w].op /\ r.file = req[w].file
    BY <1>1, ZenonT(60) DEF Requests
  <2>5. ReqMove(w, r)
    BY <1>4
  <2> HIDE DEF r
  <2>6. /\ req' \in [Workers -> Requests]
        /\ \A v \in Workers : req'[v].pc # "idle" => req'[v].file \in Files
        /\ ContentThere'
    BY <1>1, <1>3, <2>4, <2>5
  <2>7. QED  BY <1>1, <1>2, <2>1, <2>2, <2>3, <2>6 DEF Inv, Types, ApiAssumption
<1>5. CASE /\ file_shares' = file_shares /\ limit' = limit
           /\ Respond(w) \/ ReqMove(w, [req[w] EXCEPT !.attempt = @ + 1])
  <2>1. /\ req' \in [Workers -> Requests]
        /\ \A v \in Workers : req'[v].pc # "idle" => req'[v].file \in Files
        /\ ContentThere'
    <3>1. CASE Respond(w)
      BY <1>1, <1>3, <3>1, RequestRecords DEF Respond
    <3>2. CASE ReqMove(w, [req[w] EXCEPT !.attempt = @ + 1])
      <4> DEFINE r == [req[w] EXCEPT !.attempt = @ + 1]
      <4>1. r \in Requests /\ r.pc = "insert_share" /\ r.op = req[w].op /\ r.file = req[w].file
        BY <1>1 DEF Requests
      <4>2. ReqMove(w, r)
        BY <3>2
      <4> HIDE DEF r
      <4>3. QED  BY <1>1, <1>3, <4>1, <4>2
    <3>3. QED  BY <1>5, <3>1, <3>2
  <2>2. QED  BY <1>1, <1>2, <1>5, <2>1 DEF Inv, Types, Links, ApiAssumption
<1>6. QED
  BY <1>4, <1>5 DEF insert_file_share

\* increment_file_share_download_count tests the limit in the statement that
\* counts, so two requests that passed the check before it cannot both take the
\* last download.
LEMMA IncrementStep ==
    ASSUME Inv, NEW w \in Workers, increment_file_share_download_count(w)
    PROVE  Inv'
<1> USE SMTT(60)
<1> DEFINE t == req[w].token
<1>1. Types /\ ContentThere /\ Links /\ req[w] \in Requests /\ req[w].pc = "increment"
      /\ Marked(req[w]) /\ req[w].file \in Files
  BY DEF Inv, Types, ContentThere, increment_file_share_download_count, ReqAt
<1>2. file_table' = file_table /\ contents' = contents /\ limit' = limit
  BY DEF increment_file_share_download_count
<1>3. /\ req' \in [Workers -> Requests]
      /\ \A v \in Workers : req'[v].pc # "idle" => req'[v].file \in Files
      /\ ContentThere'
  <2>1. CASE Respond(w)
    BY <1>1, <1>2, <2>1, RequestStep, RequestRecords DEF Respond, ContentThere
  <2>2. CASE ReqGoto(w, "log")
    <3> DEFINE r == [req[w] EXCEPT !.pc = "log"]
    <3>1. /\ r \in Requests
          /\ r.pc = "log" /\ r.op = req[w].op /\ r.file = req[w].file /\ r.purged = req[w].purged
      BY <1>1, RequestRecords, ZenonT(60)
    <3>2. ReqMove(w, r)
      BY <2>2 DEF ReqGoto
    <3> HIDE DEF r
    <3>3. Marked(r)
      BY <1>1, <3>1 DEF Marked
    <3>4. QED  BY <1>1, <1>2, <3>1, <3>2, <3>3, RequestStep DEF ContentThere
  <2>3. QED  BY <2>1, <2>2 DEF increment_file_share_download_count
<1>4. CASE UNCHANGED <<file_shares, granted>>
  <2>1. Types'
    BY <1>1, <1>2, <1>3, <1>4, ZenonT(60) DEF Types
  <2>2. Links'
    BY <1>1, <1>2, <1>4, ZenonT(60) DEF Links
  <2>3. QED  BY <1>3, <2>1, <2>2, ZenonT(60) DEF Inv
<1>5. CASE /\ increment_matches(t)
           /\ file_shares' = [file_shares EXCEPT ![t].download_count = @ + 1]
           /\ granted' = [granted EXCEPT ![t] = @ + 1]
  <2> DEFINE row == [file_shares[t] EXCEPT !.download_count = @ + 1]
  <2>1. /\ t \in DOMAIN file_shares /\ t \in DOMAIN limit /\ t \in Shares /\ file_shares[t] \in ShareRows
        /\ limit[t] \in Nat /\ granted[t] \in Nat
    BY <1>1, <1>5 DEF increment_matches, Types, Links
  <2>2. /\ row \in ShareRows /\ row.max_downloads = file_shares[t].max_downloads
        /\ row.download_count = file_shares[t].download_count + 1
    BY <2>1 DEF ShareRows
  <2>3. file_shares' = [file_shares EXCEPT ![t] = row]
    BY <1>5
  <2>4. limit[t] > 0 => granted[t] + 1 <= limit[t]
    BY <1>1, <1>5, <2>1 DEF Links, increment_matches
  <2> HIDE DEF row
  <2>5. /\ DOMAIN file_shares' = DOMAIN file_shares /\ file_shares'[t] = row
        /\ \A x \in DOMAIN file_shares : x # t => file_shares'[x] = file_shares[x]
    BY <2>1, <2>3
  <2>6. /\ granted' \in [Shares -> Nat] /\ granted'[t] = granted[t] + 1
        /\ \A x \in Shares : x # t => granted'[x] = granted[x]
    BY <1>1, <1>5, <2>1 DEF Links
  <2> HIDE DEF t
  <2>7. Links'
    <3>1. DOMAIN file_shares' \subseteq DOMAIN limit' /\ DOMAIN limit' \subseteq Shares
      BY <1>1, <1>2, <2>5, ZenonT(60) DEF Links
    <3>2. ASSUME NEW x \in DOMAIN limit
          PROVE  limit[x] \in Nat /\ (limit[x] > 0 => granted'[x] <= limit[x])
      <4>1. CASE x = t
        BY <2>1, <2>4, <2>6, <4>1, ZenonT(60)
      <4>2. CASE x # t
        BY <1>1, <2>6, <4>2, ZenonT(60) DEF Links
      <4>3. QED  BY <4>1, <4>2
    <3>3. ASSUME NEW x \in Shares \ DOMAIN limit PROVE granted'[x] = 0
      BY <1>1, <2>1, <2>6, ZenonT(60) DEF Links
    <3>4. ASSUME NEW x \in DOMAIN file_shares
          PROVE  file_shares'[x].max_downloads = limit[x] /\ file_shares'[x].download_count = granted'[x]
      <4>1. CASE x = t
        BY <1>1, <2>1, <2>2, <2>5, <2>6, <4>1, ZenonT(60) DEF Links
      <4>2. CASE x # t
        <5>1. x \in Shares
          BY <1>1, ZenonT(60) DEF Links
        <5>2. QED  BY <1>1, <2>5, <2>6, <4>2, <5>1, ZenonT(60) DEF Links
      <4>3. QED  BY <4>1, <4>2
    <3>5. QED  BY <1>2, <2>5, <2>6, <3>1, <3>2, <3>3, <3>4, ZenonT(60) DEF Links
  <2>8. Types'
    BY <1>1, <1>2, <1>3, <2>2, <2>5, ZenonT(60) DEF Types
  <2>9. QED  BY <1>3, <2>7, <2>8, ZenonT(60) DEF Inv
<1>6. QED  BY <1>4, <1>5 DEF increment_file_share_download_count

\* A link that expires keeps its counts.
LEMMA ExpireStep ==
    ASSUME Inv, NEW t \in Shares, Expire(t)
    PROVE  Inv'
<1> USE SMTT(60)
<1>1. Types /\ ContentThere /\ Links /\ t \in DOMAIN file_shares /\ file_shares[t] \in ShareRows
  BY DEF Inv, Types, Expire
<1> DEFINE row == [file_shares[t] EXCEPT !.expired = TRUE]
<1>2. /\ row \in ShareRows /\ row.max_downloads = file_shares[t].max_downloads
      /\ row.download_count = file_shares[t].download_count
  BY <1>1, ZenonT(60) DEF ShareRows
<1>3. /\ file_shares' = [file_shares EXCEPT ![t] = row]
      /\ file_table' = file_table /\ contents' = contents /\ req' = req /\ granted' = granted
      /\ limit' = limit
  BY DEF Expire, shareHistory
<1> HIDE DEF row
<1>4. /\ DOMAIN file_shares' = DOMAIN file_shares /\ file_shares'[t] = row
      /\ \A x \in DOMAIN file_shares : x # t => file_shares'[x] = file_shares[x]
  BY <1>1, <1>3
<1>5. Links'
  <2>1. \A x \in DOMAIN file_shares' : /\ file_shares'[x].max_downloads = limit[x]
                                       /\ file_shares'[x].download_count = granted[x]
    BY <1>1, <1>2, <1>4, ZenonT(60) DEF Links
  <2>2. QED  BY <1>1, <1>3, <1>4, <2>1, ZenonT(60) DEF Links
<1>6. Types'
  BY <1>1, <1>2, <1>3, <1>4, ZenonT(60) DEF Types
<1>7. ContentThere'
  BY <1>1, <1>3, ZenonT(60) DEF ContentThere, Marked
<1>8. QED  BY <1>5, <1>6, <1>7, ZenonT(60) DEF Inv
-----------------------------------------------------------------------------
\* Before the first request every file has its content and no link exists.
LEMMA InvInit == ApiAssumption /\ ApiInit => Inv
<1> USE SMTT(60)
<1> SUFFICES ASSUME ApiAssumption, ApiInit PROVE Inv
  OBVIOUS
<1>1. NoRequest \in Requests /\ NoRequest.pc = "idle" /\ NoRequest.op = Nil /\ Nil # "download"
  BY DEF NoRequest, Requests, ApiAssumption
<1>2. Types
  BY <1>1 DEF ApiInit, Types
<1>3. Links
  BY DEF ApiInit, Links
<1>4. ContentThere
  BY <1>1 DEF ApiInit, ContentThere, Marked
<1>5. QED  BY <1>2, <1>3, <1>4 DEF Inv

\* Every statement of every request keeps the invariant.
LEMMA InvNext == Inv /\ [ApiNext]_apiVars => Inv'
<1> USE SMTT(60)
<1> SUFFICES ASSUME Inv, [ApiNext]_apiVars PROVE Inv'
  OBVIOUS
<1>1. CASE UNCHANGED apiVars
  <2>1. Types'
    BY <1>1, ZenonT(60) DEF apiVars, Inv, Types
  <2>2. Links'
    BY <1>1, ZenonT(60) DEF apiVars, shareHistory, Inv, Links
  <2>3. ContentThere'
    BY <1>1, ZenonT(60) DEF apiVars, Inv, ContentThere, Marked
  <2>4. QED  BY <2>1, <2>2, <2>3, ZenonT(60) DEF Inv
<1>2. ApiUsers # {} \/ Files = {}
  BY DEF Inv, Types, ApiAssumption
<1>3. ASSUME NEW w \in Workers, NEW t \in Shares, share_download(w, t) PROVE Inv'
  <2>1. PICK f \in Files : TRUE
    BY <1>3 DEF share_download, Inv, Types, ShareRows
  <2>2. PICK u \in ApiUsers : TRUE
    BY <1>2, <2>1
  <2>3. QED  BY <1>3, Starts
<1>4. ASSUME NEW w \in Workers, NEW f \in Files, public_file_download(w, f) PROVE Inv'
  <2>1. PICK u \in ApiUsers : TRUE
    BY <1>2
  <2>2. QED  BY <1>4, Starts
<1>5. QED
  BY <1>1, <1>3, <1>4, Starts, RequestUpdates, PurgeStep, LastSteps, InsertStep,
     IncrementStep, ExpireStep
     DEF ApiNext

\* A share link lets no more downloads through than max_downloads, and counts
\* each (share_download, increment_file_share_download_count).
THEOREM ShareLimit == ApiAssumption /\ ApiSpec => []ShareLimitRespected
<1> USE SMTT(60)
<1>1. Inv => ShareLimitRespected
  BY DEF Inv, Links, ShareLimitRespected
<1>2. QED  BY <1>1, InvInit, InvNext, PTL DEF ApiSpec

\* A download that passed its checks misses the content only when
\* remove_permanently took the file away in between (open_managed_file).
THEOREM DownloadFindsContent == ApiAssumption /\ ApiSpec => []MissingOnlyAfterPurge
<1> USE SMTT(60)
<1>1. Inv => MissingOnlyAfterPurge
  BY DEF Inv, ContentThere, Marked, MissingOnlyAfterPurge, ReqAt
<1>2. QED  BY <1>1, InvInit, InvNext, PTL DEF ApiSpec
-----------------------------------------------------------------------------
(***************************************************************************)
(* Storage                                                                 *)
(***************************************************************************)

\* From here on leaves go to Zenon, unless they name SMT or PTL.
USE ZenonT(60)

SessionFields == {"pc", "user", "content", "folder", "name", "file", "phys", "created", "last",
                  "public", "todo"}
RowFields == {"owner", "folder", "name", "phys", "content", "public", "deleted"}

\* Ids are numbers of uploads; rows and sessions have their fields.
Shape ==
    /\ uploads \in Nat
    /\ DOMAIN files \subseteq 1..uploads /\ DOMAIN physical \subseteq 1..uploads
    /\ \A f \in DOMAIN files : DOMAIN files[f] = RowFields
    /\ \A p \in DOMAIN physical :
        DOMAIN physical[p] = {"content", "ref_count"} /\ physical[p].ref_count \in Nat
    /\ DOMAIN sess = Sessions
    /\ \A s \in Sessions : DOMAIN sess[s] = SessionFields

\* A file has its physical file, and a content at most one.
Rows ==
    /\ \A f \in DOMAIN files :
        files[f].phys \in DOMAIN physical /\ physical[files[f].phys].content = files[f].content
    /\ \A p, q \in DOMAIN physical : physical[p].content = physical[q].content => p = q

HoldPCs == {"repair", "materialize", "insert_file", "commit"}

\* What a transaction that has the record r relies on: an upload its new id and
\* the physical file it found or makes, a deletion its file.
Uploading(r) ==
    r.pc \in UploadPCs =>
        r.file \in 1..uploads /\ r.file \notin DOMAIN files /\ r.file \notin DOMAIN physical
Holding(r) ==
    r.pc \in HoldPCs =>
        IF r.created
        THEN r.phys = r.file /\ \A p \in DOMAIN physical : physical[p].content # r.content
        ELSE r.phys \in DOMAIN physical /\ physical[r.phys].content = r.content
Deleting(r) ==
    /\ r.pc \in DeletePCs =>
        /\ r.file \in DOMAIN files /\ files[r.file].deleted
        /\ files[r.file].phys = r.phys /\ files[r.file].content = r.content
    /\ r.pc = "commit_delete" =>
        (r.last <=> \A f \in DOMAIN files \ {r.file} : files[f].phys # r.phys)
    /\ r.pc = "unlink" /\ r.last => r.phys \in 1..uploads /\ r.phys \notin DOMAIN physical
Creating(r) == r.created => r.pc \in {"materialize", "insert_file", "commit"}
Part(r) == Uploading(r) /\ Holding(r) /\ Deleting(r) /\ Creating(r)

\* Two uploads have two ids, the lock of a content has one holder, and nobody
\* makes a physical file again that is about to be unlinked.
Apart(r, q) ==
    /\ r.pc \in UploadPCs /\ q.pc \in UploadPCs => r.file # q.file
    /\ r.pc \in HoldPCs \cup DeletePCs /\ q.pc \in HoldPCs \cup DeletePCs => r.content # q.content
    /\ r.pc = "unlink" /\ r.last /\ q.pc \in UploadPCs => r.phys # q.file

Parts ==
    /\ \A s \in Sessions : Part(sess[s])
    /\ \A s, t \in Sessions : s # t => Apart(sess[s], sess[t])

Base == Shape /\ Rows /\ RefCountExact /\ Parts

\* Every content is there, also the one of a row that is not committed yet.
Stored ==
    /\ \A p \in DOMAIN physical : p \in disk \cup lost
    /\ \A s \in Sessions :
        sess[s].pc \in {"insert_file", "commit"} /\ sess[s].created =>
            sess[s].phys \in disk \cup lost

\* While the script runs nothing else does, and what it has read still holds.
Offline ==
    /\ cpc \notin {"off", "report"} => \A s \in Sessions : sess[s].pc = "idle"
    /\ cpc \in {"list", "stale", "list_again", "remove"} => referenced = Referenced
    /\ cpc = "remove" => listed = disk /\ referenced \subseteq disk
    /\ cpc = "report" => disk = Referenced

-----------------------------------------------------------------------------
(***************************************************************************)
(* Steps of a session                                                      *)
(***************************************************************************)

\* A step of s changes what s does, and nobody else.
Moves(s) ==
    /\ DOMAIN sess' = Sessions /\ DOMAIN sess'[s] = SessionFields
    /\ \A t \in Sessions \ {s} : sess'[t] = sess[t]

LEMMA MoveStep ==
    ASSUME Shape, NEW s \in Sessions, NEW r, DOMAIN r = SessionFields, Move(s, r)
    PROVE  Moves(s) /\ sess'[s] = r
  BY DEF Shape, Move, Moves

\* A session that has no part in a transaction.
Plain(r) == r.pc \notin UploadPCs \cup DeletePCs \cup {"unlink"} /\ ~r.created

LEMMA IdleFields ==
    /\ DOMAIN Idle = SessionFields
    /\ Idle.pc = "idle" /\ Idle.created = FALSE /\ Idle.last = FALSE
  BY DEF Idle, SessionFields

LEMMA IdlePlain == Plain(Idle)
  BY IdleFields DEF Plain, UploadPCs, DeletePCs

LEMMA PlainPart ==
    ASSUME NEW s \in Sessions, Plain(sess[s])'
    PROVE  Part(sess[s])' /\ \A q : Apart(sess'[s], q) /\ Apart(q, sess'[s])
<1>1. /\ sess'[s].pc \notin UploadPCs /\ sess'[s].pc \notin DeletePCs /\ sess'[s].pc # "unlink"
      /\ ~sess'[s].created
  BY DEF Plain
<1>2. sess'[s].pc \notin HoldPCs /\ sess'[s].pc # "commit_delete"
  BY <1>1 DEF HoldPCs, UploadPCs, DeletePCs
<1>3. Part(sess[s])'
  BY <1>1, <1>2 DEF Part, Uploading, Holding, Deleting, Creating
<1>4. QED  BY <1>1, <1>2, <1>3 DEF Apart

\* What s may rely on is kept apart from what the others rely on.
Separate(s) ==
    \A t \in Sessions \ {s} : Apart(sess'[s], sess[t]) /\ Apart(sess[t], sess'[s])

LEMMA PartsStep ==
    ASSUME Parts, NEW s \in Sessions, Moves(s), Separate(s), Part(sess[s])',
           \A t \in Sessions \ {s} : Part(sess[t])'
    PROVE  Parts'
<1>1. \A t \in Sessions : Part(sess[t])'
  OBVIOUS
<1>2. ASSUME NEW t \in Sessions, NEW u \in Sessions, t # u PROVE Apart(sess[t], sess[u])'
  <2>1. CASE t = s
    BY <1>2, <2>1 DEF Moves, Separate
  <2>2. CASE u = s
    BY <1>2, <2>2 DEF Moves, Separate
  <2>3. CASE t # s /\ u # s
    BY <1>2, <2>3 DEF Moves, Parts
  <2>4. QED  BY <2>1, <2>2, <2>3
<1>3. QED  BY <1>1, <1>2 DEF Parts

\* A step that leaves the rows alone.
LEMMA ReadStep ==
    ASSUME Base, NEW s \in Sessions, Moves(s), UNCHANGED <<files, physical, uploads>>,
           Separate(s), Part(sess[s])'
    PROVE  Base'
<1>1. ASSUME NEW t \in Sessions \ {s} PROVE Part(sess[t])'
  <2>1. Part(sess[t]) /\ sess'[t] = sess[t]
    BY DEF Base, Parts, Moves
  <2>2. Uploading(sess[t])'
    BY <2>1 DEF Part, Uploading
  <2>3. Holding(sess[t])'
    BY <2>1 DEF Part, Holding
  <2>4. Deleting(sess[t])'
    BY <2>1 DEF Part, Deleting
  <2>5. Creating(sess[t])'
    BY <2>1 DEF Part, Creating
  <2>6. QED  BY <2>2, <2>3, <2>4, <2>5 DEF Part
<1>2. Parts'
  BY <1>1, PartsStep DEF Base
<1>3. Shape'
  BY DEF Base, Shape, Moves
<1>4. Rows'
  BY DEF Base, Rows
<1>5. RefCountExact'
  BY SMT DEF Base, RefCountExact
<1>6. QED  BY <1>2, <1>3, <1>4, <1>5 DEF Base

\* What every step of the server does.
Keeps ==
    /\ Base'
    /\ Stored => Stored'
    /\ \A f \in DOMAIN files : f \notin DOMAIN files' => files[f].deleted

LEMMA PlainStep ==
    ASSUME Base, NEW s \in Sessions, Moves(s), UNCHANGED <<files, physical, uploads>>,
           Plain(sess[s])'
    PROVE  Base'
<1>1. Part(sess[s])' /\ Separate(s)
  BY PlainPart DEF Separate
<1>2. QED  BY <1>1, ReadStep

LEMMA CallStep ==
    ASSUME Base, NEW s \in Sessions, NEW r, DOMAIN r = SessionFields, Plain(r), Move(s, r), ReadOnly
    PROVE  Keeps
<1>1. Moves(s) /\ sess'[s] = r
  BY MoveStep DEF Base
<1>2. UNCHANGED <<files, physical, uploads, disk, lost>>
  BY DEF ReadOnly, database, history
<1>3. Base'
  BY <1>1, <1>2, PlainStep
<1>4. ASSUME Stored PROVE Stored'
  BY <1>1, <1>2, <1>4 DEF Stored, Moves, Plain
<1>5. QED  BY <1>2, <1>3, <1>4 DEF Keeps

LEMMA ReturnStep ==
    ASSUME Base, NEW s \in Sessions, Return(s)
    PROVE  Moves(s) /\ Plain(sess[s])' /\ sess'[s] = Idle
<1>1. Moves(s) /\ sess'[s] = Idle
  BY IdleFields, MoveStep DEF Return, Base
<1>2. QED  BY <1>1, IdlePlain

LEMMA LeaveStep ==
    ASSUME Base, NEW s \in Sessions, Return(s), UNCHANGED <<files, physical, uploads, disk, lost>>
    PROVE  Keeps
<1>1. Moves(s) /\ Plain(sess[s])'
  BY ReturnStep
<1>2. Base'
  BY <1>1, PlainStep
<1>3. ASSUME Stored PROVE Stored'
  BY <1>1, <1>3 DEF Stored, Moves, Plain
<1>4. QED  BY <1>2, <1>3 DEF Keeps

LEMMA QuitStep ==
    ASSUME Base, NEW s \in Sessions, Return(s), ReadOnly
    PROVE  Keeps
  BY LeaveStep DEF ReadOnly, database, history

-----------------------------------------------------------------------------
(***************************************************************************)
(* Requests, and steps outside the transactions                            *)
(***************************************************************************)

LEMMA SoftDeleteStep ==
    ASSUME Base, NEW s \in Sessions, NEW u, NEW f, SoftDelete(s, u, f) PROVE Keeps
<1> DEFINE r == [Idle EXCEPT !.pc = "soft_delete", !.user = u, !.file = f]
<1>1. DOMAIN r = SessionFields /\ Plain(r)
  BY IdleFields DEF SessionFields, Plain, UploadPCs, DeletePCs
<1>2. Move(s, r) /\ ReadOnly
  BY DEF SoftDelete
<1> HIDE DEF r
<1>3. QED  BY <1>1, <1>2, CallStep

LEMMA VisibilityStep ==
    ASSUME Base, NEW s \in Sessions, NEW u, NEW f, NEW pub, Visibility(s, u, f, pub) PROVE Keeps
<1> DEFINE r == [Idle EXCEPT !.pc = "visibility", !.user = u, !.file = f, !.public = pub]
<1>1. DOMAIN r = SessionFields /\ Plain(r)
  BY IdleFields DEF SessionFields, Plain, UploadPCs, DeletePCs
<1>2. Move(s, r) /\ ReadOnly
  BY DEF Visibility
<1> HIDE DEF r
<1>3. QED  BY <1>1, <1>2, CallStep

LEMMA RestoreStep ==
    ASSUME Base, NEW s \in Sessions, NEW u, NEW f, Restore(s, u, f) PROVE Keeps
<1> DEFINE r == [Idle EXCEPT !.pc = "restore_folder", !.user = u, !.file = f,
                             !.folder = files[f].folder, !.name = files[f].name]
<1>1. DOMAIN r = SessionFields /\ Plain(r)
  BY IdleFields DEF SessionFields, Plain, UploadPCs, DeletePCs
<1>2. Move(s, r) /\ ReadOnly
  BY DEF Restore
<1> HIDE DEF r
<1>3. QED  BY <1>1, <1>2, CallStep

LEMMA HardDeleteStep ==
    ASSUME Base, NEW s \in Sessions, NEW u, NEW f, HardDelete(s, u, f) PROVE Keeps
<1> DEFINE r == [Idle EXCEPT !.pc = "lock_file", !.user = u, !.todo = <<f>>]
<1>1. DOMAIN r = SessionFields /\ Plain(r)
  BY IdleFields DEF SessionFields, Plain, UploadPCs, DeletePCs
<1>2. Move(s, r) /\ ReadOnly
  BY DEF HardDelete
<1> HIDE DEF r
<1>3. QED  BY <1>1, <1>2, CallStep

LEMMA TodoStep ==
    ASSUME Base, NEW s \in Sessions, NEW u, NEW todo, ReadOnly,
           Move(s, [Idle EXCEPT !.pc = "lock_file", !.user = u, !.todo = todo])
    PROVE  Keeps
<1> DEFINE r == [Idle EXCEPT !.pc = "lock_file", !.user = u, !.todo = todo]
<1>1. DOMAIN r = SessionFields /\ Plain(r)
  BY IdleFields DEF SessionFields, Plain, UploadPCs, DeletePCs
<1>2. Move(s, r)
  OBVIOUS
<1> HIDE DEF r
<1>3. QED  BY <1>1, <1>2, CallStep

LEMMA EmptyTrashStep ==
    ASSUME Base, NEW s \in Sessions, NEW u, EmptyTrash(s, u) PROVE Keeps
<1>1. PICK todo : Move(s, [Idle EXCEPT !.pc = "lock_file", !.user = u, !.todo = todo])
  BY DEF EmptyTrash
<1>2. QED  BY <1>1, TodoStep DEF EmptyTrash

LEMMA CreateFolderStep ==
    ASSUME Base, NEW s \in Sessions, NEW u, NEW d, NEW n, CreateFolder(s, u, d, n) PROVE Keeps
<1> DEFINE r == [Idle EXCEPT !.pc = "folder_name", !.user = u, !.folder = d, !.name = n]
<1>1. DOMAIN r = SessionFields /\ Plain(r)
  BY IdleFields DEF SessionFields, Plain, UploadPCs, DeletePCs
<1>2. Move(s, r) /\ ReadOnly
  BY DEF CreateFolder
<1> HIDE DEF r
<1>3. QED  BY <1>1, <1>2, CallStep

LEMMA DeleteFolderStep ==
    ASSUME Base, NEW s \in Sessions, NEW u, NEW d, DeleteFolder(s, u, d) PROVE Keeps
<1> DEFINE r == [Idle EXCEPT !.pc = "child_folders", !.user = u, !.folder = d]
<1>1. DOMAIN r = SessionFields /\ Plain(r)
  BY IdleFields DEF SessionFields, Plain, UploadPCs, DeletePCs
<1>2. Move(s, r) /\ ReadOnly
  BY DEF DeleteFolder
<1> HIDE DEF r
<1>3. QED  BY <1>1, <1>2, CallStep

\* A session outside the transactions goes on outside.
LEMMA OutsideFields ==
    ASSUME Base, NEW s \in Sessions, sess[s].pc \notin UploadPCs \cup DeletePCs \cup {"unlink"}
    PROVE  DOMAIN sess[s] = SessionFields /\ ~sess[s].created
<1>1. Creating(sess[s]) /\ DOMAIN sess[s] = SessionFields
  BY DEF Base, Shape, Parts, Part
<1>2. QED  BY <1>1 DEF Creating, UploadPCs

LEMMA RestoreFolderStep ==
    ASSUME Base, NEW s \in Sessions, RestoreFolder(s) PROVE Keeps
<1>1. DOMAIN sess[s] = SessionFields /\ ~sess[s].created
  BY OutsideFields DEF RestoreFolder, At, UploadPCs, DeletePCs
<1>2. PICK d : Move(s, [sess[s] EXCEPT !.pc = "restore_name", !.folder = d])
  BY <1>1 DEF RestoreFolder, SessionFields
<1> DEFINE r == [sess[s] EXCEPT !.pc = "restore_name", !.folder = d]
<1>3. DOMAIN r = SessionFields /\ Plain(r)
  BY <1>1 DEF SessionFields, Plain, UploadPCs, DeletePCs
<1>4. Move(s, r) /\ ReadOnly
  BY <1>2 DEF RestoreFolder
<1> HIDE DEF r
<1>5. QED  BY <1>3, <1>4, CallStep

LEMMA RestoreNameStep ==
    ASSUME Base, NEW s \in Sessions, RestoreName(s) PROVE Keeps
<1>1. DOMAIN sess[s] = SessionFields /\ ~sess[s].created
  BY OutsideFields DEF RestoreName, At, UploadPCs, DeletePCs
<1>2. PICK n : Move(s, [sess[s] EXCEPT !.pc = "restore", !.name = n])
  BY DEF RestoreName
<1> DEFINE r == [sess[s] EXCEPT !.pc = "restore", !.name = n]
<1>3. DOMAIN r = SessionFields /\ Plain(r)
  BY <1>1 DEF SessionFields, Plain, UploadPCs, DeletePCs
<1>4. Move(s, r) /\ ReadOnly
  BY <1>2 DEF RestoreName
<1> HIDE DEF r
<1>5. QED  BY <1>3, <1>4, CallStep

LEMMA CheckFolderNameStep ==
    ASSUME Base, NEW s \in Sessions, CheckFolderName(s) PROVE Keeps
<1>1. DOMAIN sess[s] = SessionFields /\ ~sess[s].created
  BY OutsideFields DEF CheckFolderName, At, UploadPCs, DeletePCs
<1>2. CASE Return(s)
  BY <1>2, QuitStep DEF CheckFolderName
<1>3. CASE Goto(s, "insert_folder")
  <2> DEFINE r == [sess[s] EXCEPT !.pc = "insert_folder"]
  <2>1. DOMAIN r = SessionFields /\ Plain(r)
    BY <1>1 DEF SessionFields, Plain, UploadPCs, DeletePCs
  <2>2. Move(s, r) /\ ReadOnly
    BY <1>3 DEF CheckFolderName, Goto
  <2> HIDE DEF r
  <2>3. QED  BY <2>1, <2>2, CallStep
<1>4. QED  BY <1>2, <1>3 DEF CheckFolderName

LEMMA CheckChildFoldersStep ==
    ASSUME Base, NEW s \in Sessions, CheckChildFolders(s) PROVE Keeps
<1>1. DOMAIN sess[s] = SessionFields /\ ~sess[s].created
  BY OutsideFields DEF CheckChildFolders, At, UploadPCs, DeletePCs
<1>2. CASE Return(s)
  BY <1>2, QuitStep DEF CheckChildFolders
<1>3. CASE Goto(s, "child_files")
  <2> DEFINE r == [sess[s] EXCEPT !.pc = "child_files"]
  <2>1. DOMAIN r = SessionFields /\ Plain(r)
    BY <1>1 DEF SessionFields, Plain, UploadPCs, DeletePCs
  <2>2. Move(s, r) /\ ReadOnly
    BY <1>3 DEF CheckChildFolders, Goto
  <2> HIDE DEF r
  <2>3. QED  BY <2>1, <2>2, CallStep
<1>4. QED  BY <1>2, <1>3 DEF CheckChildFolders

LEMMA CheckChildFilesStep ==
    ASSUME Base, NEW s \in Sessions, CheckChildFiles(s) PROVE Keeps
<1>1. DOMAIN sess[s] = SessionFields /\ ~sess[s].created
  BY OutsideFields DEF CheckChildFiles, At, UploadPCs, DeletePCs
<1>2. CASE Return(s)
  BY <1>2, QuitStep DEF CheckChildFiles
<1>3. CASE Goto(s, "delete_folder")
  <2> DEFINE r == [sess[s] EXCEPT !.pc = "delete_folder"]
  <2>1. DOMAIN r = SessionFields /\ Plain(r)
    BY <1>1 DEF SessionFields, Plain, UploadPCs, DeletePCs
  <2>2. Move(s, r) /\ ReadOnly
    BY <1>3 DEF CheckChildFiles, Goto
  <2> HIDE DEF r
  <2>3. QED  BY <2>1, <2>2, CallStep
<1>4. QED  BY <1>2, <1>3 DEF CheckChildFiles

LEMMA InsertFolderStep ==
    ASSUME Base, NEW s \in Sessions, InsertFolder(s) PROVE Keeps
  BY LeaveStep DEF InsertFolder, history

LEMMA UpdateDeleteFolderStep ==
    ASSUME Base, NEW s \in Sessions, UpdateDeleteFolder(s) PROVE Keeps
  BY LeaveStep DEF UpdateDeleteFolder, history

LEMMA FailStep ==
    ASSUME Base, NEW s \in Sessions, Fail(s) PROVE Keeps
  BY QuitStep DEF Fail

-----------------------------------------------------------------------------
(***************************************************************************)
(* create_uploaded_file                                                    *)
(***************************************************************************)

LEMMA UploadStep ==
    ASSUME Base, NEW s \in Sessions, NEW u, NEW c, NEW d, NEW n, NEW pub, Upload(s, u, c, d, n, pub)
    PROVE  Keeps
<1> DEFINE r == [Idle EXCEPT !.pc = "inspect", !.user = u, !.content = c, !.folder = d,
                             !.name = n, !.file = uploads + 1, !.public = pub]
<1>1. DOMAIN r = SessionFields /\ r.pc = "inspect" /\ r.file = uploads + 1 /\ ~r.created
  BY IdleFields DEF SessionFields
<1>2. Move(s, r) /\ UNCHANGED <<files, physical, disk, lost>> /\ uploads' = uploads + 1
  BY DEF Upload, database, history
<1> HIDE DEF r
<1>3. Moves(s) /\ sess'[s] = r
  BY <1>1, <1>2, MoveStep DEF Base
<1>4. /\ uploads' \in Nat /\ uploads + 1 \in 1..uploads' /\ uploads + 1 \notin 1..uploads
      /\ \A x \in 1..uploads : x \in 1..uploads'
  BY <1>2, SMT DEF Base, Shape
<1>5. DOMAIN files \subseteq 1..uploads /\ DOMAIN physical \subseteq 1..uploads
  BY DEF Base, Shape
<1>6. r.pc \notin HoldPCs /\ r.pc \notin DeletePCs /\ r.pc # "unlink"
  BY <1>1 DEF HoldPCs, DeletePCs
<1>7. Part(sess[s])'
  <2>1. Uploading(sess[s])'
    BY <1>1, <1>2, <1>3, <1>4, <1>5 DEF Uploading
  <2>2. (Holding(sess[s]) /\ Deleting(sess[s]) /\ Creating(sess[s]))'
    BY <1>1, <1>3, <1>6 DEF Holding, Deleting, Creating, DeletePCs
  <2>3. QED  BY <2>1, <2>2 DEF Part
<1>8. ASSUME NEW t \in Sessions \ {s}
      PROVE  Part(sess[t])' /\ Apart(sess'[s], sess[t]) /\ Apart(sess[t], sess'[s])
  <2>1. Part(sess[t]) /\ sess'[t] = sess[t]
    BY <1>3 DEF Base, Parts, Moves
  <2>2. Uploading(sess[t])'
    BY <1>2, <1>4, <2>1 DEF Part, Uploading
  <2>3. Holding(sess[t])'
    BY <1>2, <2>1 DEF Part, Holding
  <2>4. Deleting(sess[t])'
    BY <1>2, <1>4, <2>1 DEF Part, Deleting
  <2>5. Creating(sess[t])'
    BY <2>1 DEF Part, Creating
  <2>6. Apart(sess'[s], sess[t]) /\ Apart(sess[t], sess'[s])
    BY <1>1, <1>3, <1>4, <1>6, <2>1 DEF Part, Apart, Uploading, Deleting
  <2>7. QED  BY <2>2, <2>3, <2>4, <2>5, <2>6 DEF Part
<1>9. Parts'
  BY <1>3, <1>7, <1>8, PartsStep DEF Base, Separate
<1>10. Shape'
  BY <1>2, <1>3, <1>4, <1>5 DEF Base, Shape, Moves
<1>11. Rows'
  BY <1>2 DEF Base, Rows
<1>12. RefCountExact'
  BY <1>2, SMT DEF Base, RefCountExact
<1>13. ASSUME Stored PROVE Stored'
  BY <1>1, <1>2, <1>3, <1>13 DEF Stored, Moves
<1>14. QED  BY <1>2, <1>9, <1>10, <1>11, <1>12, <1>13 DEF Keeps, Base

\* Before the content is looked up: the upload has its id and no more.
LEMMA EarlyStep ==
    ASSUME Base, NEW s \in Sessions, NEW r, DOMAIN r = SessionFields, Move(s, r), ReadOnly,
           sess[s].pc \in UploadPCs, r.pc \in {"find", "insert_physical"},
           r.file = sess[s].file, ~r.created
    PROVE  Keeps
<1>1. Moves(s) /\ sess'[s] = r
  BY MoveStep DEF Base
<1>2. UNCHANGED <<files, physical, uploads, disk, lost>>
  BY DEF ReadOnly, database, history
<1>3. /\ r.pc \in UploadPCs
      /\ r.pc \notin HoldPCs /\ r.pc \notin DeletePCs /\ r.pc # "unlink" /\ r.pc # "commit_delete"
  BY DEF UploadPCs, HoldPCs, DeletePCs
<1>4. Part(sess[s])'
  <2>1. Uploading(sess[s])'
    BY <1>1, <1>2 DEF Base, Parts, Part, Uploading
  <2>2. (Holding(sess[s]) /\ Deleting(sess[s]) /\ Creating(sess[s]))'
    BY <1>1, <1>3 DEF Holding, Deleting, Creating
  <2>3. QED  BY <2>1, <2>2 DEF Part
<1>5. ASSUME NEW t \in Sessions \ {s}
      PROVE  Apart(sess'[s], sess[t]) /\ Apart(sess[t], sess'[s])
  <2>1. Apart(sess[s], sess[t]) /\ Apart(sess[t], sess[s])
    BY DEF Base, Parts
  <2>2. QED  BY <1>1, <1>3, <2>1 DEF Apart
<1>6. Base'
  BY <1>1, <1>2, <1>4, <1>5, ReadStep DEF Separate
<1>7. ASSUME Stored PROVE Stored'
  BY <1>1, <1>2, <1>7 DEF Stored, Moves
<1>8. QED  BY <1>2, <1>6, <1>7 DEF Keeps

\* With the lock of the content.
LEMMA HoldStep ==
    ASSUME Base, NEW s \in Sessions, NEW r, DOMAIN r = SessionFields, Move(s, r),
           UNCHANGED <<files, physical, uploads>>,
           sess[s].pc \in UploadPCs, r.pc \in HoldPCs,
           r.file = sess[s].file, r.content = sess[s].content,
           sess[s].pc \in HoldPCs \/ ~ContentLocked(sess[s].content),
           Holding(r), Creating(r)
    PROVE  Base'
<1>1. Moves(s) /\ sess'[s] = r
  BY MoveStep DEF Base
<1>2. /\ r.pc \in UploadPCs
      /\ r.pc \notin DeletePCs /\ r.pc # "unlink" /\ r.pc # "commit_delete"
  BY DEF UploadPCs, HoldPCs, DeletePCs
<1>3. Part(sess[s])'
  <2>1. Uploading(sess[s])'
    BY <1>1 DEF Base, Parts, Part, Uploading
  <2>2. Holding(sess[s])'
    BY <1>1 DEF Holding
  <2>3. (Deleting(sess[s]) /\ Creating(sess[s]))'
    BY <1>1, <1>2 DEF Deleting, Creating
  <2>4. QED  BY <2>1, <2>2, <2>3 DEF Part
<1>4. ASSUME NEW t \in Sessions \ {s}
      PROVE  Apart(sess'[s], sess[t]) /\ Apart(sess[t], sess'[s])
  <2>1. Apart(sess[s], sess[t]) /\ Apart(sess[t], sess[s])
    BY DEF Base, Parts
  <2>2. sess[t].pc \in HoldPCs \cup DeletePCs => r.content # sess[t].content
    <3>1. CASE sess[s].pc \in HoldPCs
      BY <2>1, <3>1 DEF Apart
    <3>2. CASE ~ContentLocked(sess[s].content)
      BY <3>2 DEF ContentLocked, HoldPCs
    <3>3. QED  BY <3>1, <3>2
  <2>3. QED  BY <1>1, <1>2, <2>1, <2>2 DEF Apart
<1>5. QED  BY <1>1, <1>3, <1>4, ReadStep DEF Separate

LEMMA SessionParts ==
    ASSUME Base, NEW s \in Sessions
    PROVE  /\ DOMAIN sess[s] = SessionFields
           /\ Uploading(sess[s]) /\ Holding(sess[s]) /\ Deleting(sess[s]) /\ Creating(sess[s])
  BY DEF Base, Shape, Parts, Part

LEMMA InspectUploadStep ==
    ASSUME Base, NEW s \in Sessions, InspectUpload(s) PROVE Keeps
<1>1. CASE Return(s)
  BY <1>1, QuitStep DEF InspectUpload
<1>2. CASE \E n : Move(s, [sess[s] EXCEPT !.pc = "find", !.name = n])
  <2>1. PICK n : Move(s, [sess[s] EXCEPT !.pc = "find", !.name = n])
    BY <1>2
  <2> DEFINE r == [sess[s] EXCEPT !.pc = "find", !.name = n]
  <2>2. sess[s].pc \in UploadPCs /\ ~sess[s].created
    BY SessionParts DEF InspectUpload, At, UploadPCs, Creating
  <2>3. DOMAIN r = SessionFields /\ r.pc = "find" /\ r.file = sess[s].file /\ ~r.created
    BY <2>2, SessionParts DEF SessionFields
  <2>4. Move(s, r) /\ ReadOnly
    BY <2>1 DEF InspectUpload
  <2> HIDE DEF r
  <2>5. QED  BY <2>2, <2>3, <2>4, EarlyStep
<1>3. QED  BY <1>1, <1>2 DEF InspectUpload

LEMMA UsePhysicalStep ==
    ASSUME Base, NEW s \in Sessions, UsePhysical(s), ReadOnly,
           sess[s].pc \in {"find", "insert_physical"}, ~ContentLocked(sess[s].content)
    PROVE  Keeps
<1>1. PICK p \in physical_of(sess[s].content) :
        Move(s, [sess[s] EXCEPT !.pc = IF p \in disk THEN "insert_file" ELSE "repair", !.phys = p])
  BY DEF UsePhysical
<1>2. PICK q \in {"insert_file", "repair"} : Move(s, [sess[s] EXCEPT !.pc = q, !.phys = p])
  BY <1>1
<1> DEFINE r == [sess[s] EXCEPT !.pc = q, !.phys = p]
<1>3. sess[s].pc \in UploadPCs /\ ~sess[s].created
  BY SessionParts DEF UploadPCs, Creating
<1>4. /\ DOMAIN r = SessionFields /\ r.pc = q /\ r.phys = p /\ r.file = sess[s].file
      /\ r.content = sess[s].content /\ ~r.created
  BY <1>3, SessionParts DEF SessionFields
<1>5. Move(s, r) /\ UNCHANGED <<files, physical, uploads, disk, lost>>
  BY <1>2 DEF ReadOnly, database, history
<1> HIDE DEF r
<1>6. r.pc \in HoldPCs /\ Holding(r) /\ Creating(r)
  BY <1>1, <1>4 DEF HoldPCs, Holding, Creating, physical_of
<1>7. Base'
  BY <1>3, <1>4, <1>5, <1>6, HoldStep
<1>8. Moves(s) /\ sess'[s] = r
  BY <1>4, <1>5, MoveStep DEF Base
<1>9. ASSUME Stored PROVE Stored'
  BY <1>4, <1>5, <1>8, <1>9 DEF Stored, Moves
<1>10. QED  BY <1>5, <1>7, <1>9 DEF Keeps

LEMMA FindPhysicalStep ==
    ASSUME Base, NEW s \in Sessions, FindPhysical(s) PROVE Keeps
<1>1. CASE UsePhysical(s)
  BY <1>1, UsePhysicalStep DEF FindPhysical, At
<1>2. CASE Goto(s, "insert_physical")
  <2> DEFINE r == [sess[s] EXCEPT !.pc = "insert_physical"]
  <2>1. sess[s].pc \in UploadPCs /\ ~sess[s].created
    BY SessionParts DEF FindPhysical, At, UploadPCs, Creating
  <2>2. DOMAIN r = SessionFields /\ r.pc = "insert_physical" /\ r.file = sess[s].file /\ ~r.created
    BY <2>1, SessionParts DEF SessionFields
  <2>3. Move(s, r) /\ ReadOnly
    BY <1>2 DEF FindPhysical, Goto
  <2> HIDE DEF r
  <2>4. QED  BY <2>1, <2>2, <2>3, EarlyStep
<1>3. QED  BY <1>1, <1>2 DEF FindPhysical

LEMMA InsertPhysicalStep ==
    ASSUME Base, NEW s \in Sessions, InsertPhysical(s) PROVE Keeps
<1>1. CASE UsePhysical(s)
  BY <1>1, UsePhysicalStep DEF InsertPhysical, At
<1>2. CASE ~UsePhysical(s)
  <2> DEFINE r == [sess[s] EXCEPT !.pc = "materialize", !.phys = sess[s].file, !.created = TRUE]
  <2>1. sess[s].pc \in UploadPCs
    BY DEF InsertPhysical, At, UploadPCs
  <2>2. /\ DOMAIN r = SessionFields /\ r.pc = "materialize" /\ r.phys = sess[s].file
        /\ r.file = sess[s].file /\ r.content = sess[s].content /\ r.created
    BY SessionParts DEF SessionFields
  <2>3. /\ Move(s, r) /\ UNCHANGED <<files, physical, uploads, disk, lost>>
        /\ physical_of(sess[s].content) = {} /\ ~ContentLocked(sess[s].content)
    BY <1>2 DEF InsertPhysical, ReadOnly, database, history
  <2> HIDE DEF r
  <2>4. r.pc \in HoldPCs /\ Holding(r) /\ Creating(r)
    BY <2>2, <2>3 DEF HoldPCs, Holding, Creating, physical_of
  <2>5. Base'
    BY <2>1, <2>2, <2>3, <2>4, HoldStep
  <2>6. Moves(s) /\ sess'[s] = r
    BY <2>2, <2>3, MoveStep DEF Base
  <2>7. ASSUME Stored PROVE Stored'
    BY <2>2, <2>3, <2>6, <2>7 DEF Stored, Moves
  <2>8. QED  BY <2>3, <2>5, <2>7 DEF Keeps
<1>3. QED  BY <1>1, <1>2

LEMMA WriteContentStep ==
    ASSUME Base, NEW s \in Sessions, WriteContent(s) PROVE Keeps
<1> DEFINE r == [sess[s] EXCEPT !.pc = "insert_file"]
<1>1. sess[s].pc \in UploadPCs /\ sess[s].pc \in HoldPCs
  BY DEF WriteContent, UploadPCs, HoldPCs
<1>2. /\ DOMAIN r = SessionFields /\ r.pc = "insert_file" /\ r.phys = sess[s].phys
      /\ r.file = sess[s].file /\ r.content = sess[s].content /\ r.created = sess[s].created
  BY SessionParts DEF SessionFields
<1>3. /\ Move(s, r) /\ UNCHANGED <<files, physical, uploads>>
      /\ disk' = disk \cup {sess[s].phys} /\ lost' = lost \ {sess[s].phys}
  BY DEF WriteContent, Goto, database
<1> HIDE DEF r
<1>4. r.pc \in HoldPCs /\ Holding(r) /\ Creating(r)
  BY <1>1, <1>2, SessionParts DEF HoldPCs, Holding, Creating
<1>5. Base'
  BY <1>1, <1>2, <1>3, <1>4, HoldStep
<1>6. Moves(s) /\ sess'[s] = r
  BY <1>2, <1>3, MoveStep DEF Base
<1>7. ASSUME Stored PROVE Stored'
  BY <1>2, <1>3, <1>6, <1>7 DEF Stored, Moves
<1>8. QED  BY <1>3, <1>5, <1>7 DEF Keeps

LEMMA InsertFileStep ==
    ASSUME Base, NEW s \in Sessions, InsertFile(s) PROVE Keeps
<1> DEFINE r == [sess[s] EXCEPT !.pc = "commit"]
<1>1. sess[s].pc \in UploadPCs /\ sess[s].pc \in HoldPCs /\ sess[s].pc = "insert_file"
  BY DEF InsertFile, At, UploadPCs, HoldPCs
<1>2. /\ DOMAIN r = SessionFields /\ r.pc = "commit" /\ r.phys = sess[s].phys
      /\ r.file = sess[s].file /\ r.content = sess[s].content /\ r.created = sess[s].created
  BY SessionParts DEF SessionFields
<1>3. Move(s, r) /\ UNCHANGED <<files, physical, uploads, disk, lost>>
  BY DEF InsertFile, Goto, ReadOnly, database, history
<1> HIDE DEF r
<1>4. r.pc \in HoldPCs /\ Holding(r) /\ Creating(r)
  BY <1>1, <1>2, SessionParts DEF HoldPCs, Holding, Creating
<1>5. Base'
  BY <1>1, <1>2, <1>3, <1>4, HoldStep
<1>6. Moves(s) /\ sess'[s] = r
  BY <1>2, <1>3, MoveStep DEF Base
<1>7. ASSUME Stored PROVE Stored'
  BY <1>1, <1>2, <1>3, <1>6, <1>7 DEF Stored, Moves
<1>8. QED  BY <1>3, <1>5, <1>7 DEF Keeps

LEMMA InsertFileFailsStep ==
    ASSUME Base, NEW s \in Sessions, InsertFileFails(s) PROVE Keeps
<1>1. sess[s].pc \in UploadPCs /\ sess[s].pc \in HoldPCs
  BY DEF InsertFileFails, At, UploadPCs, HoldPCs
<1>2. Moves(s) /\ Plain(sess[s])' /\ UNCHANGED <<files, physical, uploads, lost>>
  BY ReturnStep DEF InsertFileFails, database, history
<1>3. Base'
  BY <1>2, PlainStep
<1>4. ASSUME Stored PROVE Stored'
  <2>1. CASE ~sess[s].created
    BY <1>2, <1>4, <2>1 DEF InsertFileFails, Stored, Moves, Plain
  <2>2. CASE sess[s].created
    <3>1. sess[s].phys = sess[s].file /\ sess[s].phys \notin DOMAIN physical
      BY <1>1, <2>2, SessionParts DEF Holding, Uploading
    <3>2. ASSUME NEW t \in Sessions \ {s}, sess[t].pc \in {"insert_file", "commit"}, sess[t].created
          PROVE  sess[t].phys # sess[s].phys
      <4>1. sess[t].pc \in UploadPCs /\ sess[t].pc \in HoldPCs
        BY <3>2 DEF UploadPCs, HoldPCs
      <4>2. sess[t].phys = sess[t].file
        BY <3>2, <4>1, SessionParts DEF Holding
      <4>3. Apart(sess[s], sess[t])
        BY DEF Base, Parts
      <4>4. QED  BY <1>1, <3>1, <4>1, <4>2, <4>3 DEF Apart
    <3>3. disk' = disk \ {sess[s].phys}
      BY <2>2 DEF InsertFileFails
    <3>4. \A p \in DOMAIN physical' : p \in disk' \cup lost'
      BY <1>2, <1>4, <3>1, <3>3 DEF Stored
    <3>5. ASSUME NEW t \in Sessions, sess'[t].pc \in {"insert_file", "commit"}, sess'[t].created
          PROVE  sess'[t].phys \in disk' \cup lost'
      <4>1. t # s /\ sess'[t] = sess[t]
        BY <1>2, <3>5 DEF Moves, Plain
      <4>2. QED  BY <1>2, <1>4, <3>2, <3>3, <3>5, <4>1 DEF Stored
    <3>6. QED  BY <3>4, <3>5 DEF Stored
  <2>3. QED  BY <2>1, <2>2
<1>5. QED  BY <1>2, <1>3, <1>4 DEF Keeps

LEMMA CommitUploadFailsStep ==
    ASSUME Base, NEW s \in Sessions, CommitUploadFails(s) PROVE Keeps
  BY LeaveStep DEF CommitUploadFails, database

\* The facts about finite sets are taken under a name, here where they are
\* first needed.
LOCAL Fin == INSTANCE FiniteSetTheorems

\* A set is as large by either name.
LEMMA SameSets ==
    ASSUME NEW S
    PROVE  (Fin!IsFiniteSet(S) <=> IsFiniteSet(S)) /\ Fin!Cardinality(S) = Cardinality(S)
BY ZenonT(60) DEF Fin!IsFiniteSet, IsFiniteSet, Fin!Cardinality, Cardinality

LEMMA SubsetSize ==
    ASSUME NEW S, IsFiniteSet(S), NEW T \in SUBSET S
    PROVE  IsFiniteSet(T) /\ Cardinality(T) <= Cardinality(S)
BY Fin!FS_Subset, SameSets, ZenonT(60)

LEMMA SizeType == ASSUME NEW S, IsFiniteSet(S) PROVE Cardinality(S) \in Nat
BY Fin!FS_CardinalityType, SameSets, ZenonT(60)

LEMMA EmptySize ==
    /\ IsFiniteSet({}) /\ Cardinality({}) = 0
    /\ \A S : IsFiniteSet(S) => (Cardinality(S) = 0 <=> S = {})
BY Fin!FS_EmptySet, SameSets, ZenonT(60)

LEMMA SingletonSize ==
    /\ \A x : IsFiniteSet({x}) /\ Cardinality({x}) = 1
    /\ \A S : IsFiniteSet(S) => (Cardinality(S) = 1 <=> \E x : S = {x})
BY Fin!FS_Singleton, SameSets, ZenonT(60)

LEMMA SizeWith ==
    ASSUME NEW S, IsFiniteSet(S), NEW x
    PROVE  /\ IsFiniteSet(S \cup {x})
           /\ Cardinality(S \cup {x}) = IF x \in S THEN Cardinality(S) ELSE Cardinality(S) + 1
BY Fin!FS_AddElement, SameSets, ZenonT(60)

LEMMA SizeWithout ==
    ASSUME NEW S, IsFiniteSet(S), NEW x
    PROVE  /\ IsFiniteSet(S \ {x})
           /\ Cardinality(S \ {x}) = IF x \in S THEN Cardinality(S) - 1 ELSE Cardinality(S)
BY Fin!FS_RemoveElement, SameSets, ZenonT(60)

LEMMA IntervalFinite == ASSUME NEW n \in Nat PROVE IsFiniteSet(1..n)
<1>1. 1 \in Int /\ n \in Int
  BY SMTT(60)
<1>2. QED  BY <1>1, Fin!FS_Interval, SameSets, ZenonT(60)

Refs(p) == {f \in DOMAIN files : files[f].phys = p}

LEMMA RefsFinite ==
    ASSUME Shape, NEW p
    PROVE  IsFiniteSet(Refs(p)) /\ Cardinality(Refs(p)) \in Nat
<1>1. IsFiniteSet(1..uploads)
  BY IntervalFinite DEF Shape
<1>2. Refs(p) \subseteq 1..uploads
  BY DEF Refs, Shape
<1>3. QED  BY <1>1, <1>2, SubsetSize, SizeType

LEMMA RefsExact ==
    ASSUME RefCountExact, NEW p \in DOMAIN physical
    PROVE  physical[p].ref_count = Cardinality(Refs(p)) /\ physical[p].ref_count > 0
  BY SMT DEF RefCountExact, Refs

LEMMA RefsNew ==
    ASSUME \A p \in DOMAIN physical' :
             physical'[p].ref_count = Cardinality(Refs(p)') /\ physical'[p].ref_count > 0
    PROVE  RefCountExact'
  BY SMT DEF RefCountExact, Refs

LEMMA CommitUploadStep ==
    ASSUME Base, NEW s \in Sessions, CommitUpload(s) PROVE Keeps
<1> DEFINE r == sess[s]
           row == [owner |-> r.user, folder |-> r.folder, name |-> r.name, phys |-> r.phys,
                   content |-> r.content, public |-> r.public, deleted |-> FALSE]
           refs == IF r.created THEN 0 ELSE physical[r.phys].ref_count
           new == [content |-> r.content, ref_count |-> refs + 1]
<1>1. /\ r.pc = "commit" /\ files' = Put(files, r.file, row) /\ physical' = Put(physical, r.phys, new)
      /\ Return(s) /\ UNCHANGED <<uploads, disk, lost>>
  BY DEF CommitUpload, At, history
<1>2. /\ DOMAIN row = RowFields /\ row.phys = r.phys /\ row.content = r.content
      /\ DOMAIN new = {"content", "ref_count"} /\ new.content = r.content /\ new.ref_count = refs + 1
  BY DEF RowFields
<1> HIDE DEF row, new
<1>3. Moves(s) /\ Plain(sess[s])'
  BY <1>1, ReturnStep
<1>4. r.pc \in UploadPCs /\ r.pc \in HoldPCs
  BY <1>1 DEF UploadPCs, HoldPCs
<1>5. r.file \in 1..uploads /\ r.file \notin DOMAIN files /\ r.file \notin DOMAIN physical
  BY <1>4, SessionParts DEF Uploading
<1>6. \/ /\ r.created /\ r.phys = r.file /\ \A p \in DOMAIN physical : physical[p].content # r.content
      \/ ~r.created /\ r.phys \in DOMAIN physical /\ physical[r.phys].content = r.content
  BY <1>4, SessionParts DEF Holding
<1>7. /\ DOMAIN files' = DOMAIN files \cup {r.file} /\ files'[r.file] = row
      /\ \A f \in DOMAIN files : files'[f] = files[f]
  BY <1>1, <1>5 DEF Put
<1>8. /\ DOMAIN physical' = DOMAIN physical \cup {r.phys} /\ physical'[r.phys] = new
      /\ \A p \in DOMAIN physical \ {r.phys} : physical'[p] = physical[p]
  BY <1>1 DEF Put
<1>9. \A p \in DOMAIN physical : physical'[p].content = physical[p].content
  BY <1>2, <1>5, <1>6, <1>8
<1>10. /\ refs \in Nat /\ refs = Cardinality(Refs(r.phys))
  <2>1. CASE r.created
    <3>1. \A f \in DOMAIN files : files[f].phys \in DOMAIN physical
      BY DEF Base, Rows
    <3>2. r.phys \notin DOMAIN physical
      BY <1>5, <1>6, <2>1
    <3>3. Refs(r.phys) = {}
      BY <3>1, <3>2 DEF Refs
    <3>4. QED  BY <2>1, <3>3, EmptySize, SMT
  <2>2. CASE ~r.created
    BY <1>6, <2>2, RefsExact DEF Base, Shape
  <2>3. QED  BY <2>1, <2>2
<1> HIDE DEF refs
<1>11. refs + 1 \in Nat /\ refs + 1 > 0
  BY <1>10, SMT
<1>12. RefCountExact'
  <2>1. ASSUME NEW p \in DOMAIN physical'
        PROVE  physical'[p].ref_count = Cardinality(Refs(p)') /\ physical'[p].ref_count > 0
    <3>1. CASE p = r.phys
      <4>1. Refs(p)' = Refs(p) \cup {r.file} /\ r.file \notin Refs(p)
        BY <1>2, <1>5, <1>7, <3>1 DEF Refs
      <4>2. Cardinality(Refs(p)') = Cardinality(Refs(p)) + 1
        BY <4>1, RefsFinite, SizeWith DEF Base
      <4>3. QED  BY <1>2, <1>8, <1>10, <1>11, <3>1, <4>2
    <3>2. CASE p # r.phys
      <4>1. Refs(p)' = Refs(p)
        BY <1>2, <1>5, <1>7, <3>2 DEF Refs
      <4>2. p \in DOMAIN physical /\ physical'[p] = physical[p]
        BY <1>8, <3>2
      <4>3. QED  BY <4>1, <4>2, RefsExact DEF Base
    <3>3. QED  BY <3>1, <3>2
  <2>2. QED  BY <2>1, RefsNew
<1>13. Shape'
  <2>1. r.phys \in 1..uploads
    BY <1>5, <1>6 DEF Base, Shape
  <2>2. DOMAIN files' \subseteq 1..uploads' /\ DOMAIN physical' \subseteq 1..uploads' /\ uploads' \in Nat
    BY <1>1, <1>5, <1>7, <1>8, <2>1 DEF Base, Shape
  <2>3. \A f \in DOMAIN files' : DOMAIN files'[f] = RowFields
    BY <1>2, <1>7 DEF Base, Shape
  <2>4. \A p \in DOMAIN physical' :
          DOMAIN physical'[p] = {"content", "ref_count"} /\ physical'[p].ref_count \in Nat
    BY <1>2, <1>8, <1>11 DEF Base, Shape
  <2>5. QED  BY <1>3, <2>2, <2>3, <2>4 DEF Base, Shape, Moves
<1>14. Rows'
  <2>1. ASSUME NEW f \in DOMAIN files'
        PROVE  files'[f].phys \in DOMAIN physical'
               /\ physical'[files'[f].phys].content = files'[f].content
    <3>1. CASE f = r.file
      BY <1>2, <1>7, <1>8, <3>1
    <3>2. CASE f # r.file
      <4>1. f \in DOMAIN files /\ files'[f] = files[f]
        BY <1>7, <3>2
      <4>2. files[f].phys \in DOMAIN physical /\ physical[files[f].phys].content = files[f].content
        BY <4>1 DEF Base, Rows
      <4>3. QED  BY <1>8, <1>9, <4>1, <4>2
    <3>3. QED  BY <3>1, <3>2
  <2>2. ASSUME NEW p \in DOMAIN physical', NEW q \in DOMAIN physical',
               physical'[p].content = physical'[q].content
        PROVE  p = q
    <3>1. CASE p \in DOMAIN physical /\ q \in DOMAIN physical
      <4>1. physical[p].content = physical[q].content
        BY <1>9, <2>2, <3>1
      <4>2. QED  BY <3>1, <4>1 DEF Base, Rows
    <3>2. CASE p \notin DOMAIN physical
      <4>1. p = r.phys /\ physical'[p].content = r.content
        BY <1>2, <1>8, <3>2
      <4>2. \A x \in DOMAIN physical : physical[x].content # r.content
        BY <1>6, <3>2, <4>1
      <4>3. q \notin DOMAIN physical
        BY <1>9, <2>2, <4>1, <4>2
      <4>4. QED  BY <1>8, <4>1, <4>3
    <3>3. CASE q \notin DOMAIN physical
      <4>1. q = r.phys /\ physical'[q].content = r.content
        BY <1>2, <1>8, <3>3
      <4>2. \A x \in DOMAIN physical : physical[x].content # r.content
        BY <1>6, <3>3, <4>1
      <4>3. p \notin DOMAIN physical
        BY <1>9, <2>2, <4>1, <4>2
      <4>4. QED  BY <1>8, <4>1, <4>3
    <3>4. QED  BY <3>1, <3>2, <3>3
  <2>3. QED  BY <2>1, <2>2 DEF Rows
<1>15. ASSUME NEW t \in Sessions \ {s} PROVE Part(sess[t])'
  <2> DEFINE q == sess[t]
  <2>1. Part(q) /\ sess'[t] = q /\ Apart(r, q) /\ Apart(q, r)
    BY <1>3 DEF Base, Parts, Moves
  <2> HIDE DEF q
  <2>2. q.pc \in UploadPCs => q.file # r.file
    BY <1>4, <2>1 DEF Apart
  <2>3. q.pc \in HoldPCs \cup DeletePCs => q.content # r.content
    BY <1>4, <2>1 DEF Apart
  <2>4. Uploading(sess[t])'
    BY <1>1, <1>5, <1>6, <1>7, <1>8, <2>1, <2>2 DEF Part, Uploading
  <2>5. Holding(sess[t])'
    BY <1>2, <1>8, <1>9, <2>1, <2>3 DEF Part, Holding
  <2>6. Deleting(sess[t])'
    <3>1. ASSUME q.pc \in DeletePCs
          PROVE  /\ q.file \in DOMAIN files' /\ files'[q.file] = files[q.file]
                 /\ q.phys # r.phys /\ q.file # r.file
      <4>1. q.file \in DOMAIN files /\ files[q.file].phys = q.phys /\ files[q.file].content = q.content
        BY <2>1, <3>1 DEF Part, Deleting
      <4>2. q.phys \in DOMAIN physical /\ physical[q.phys].content = q.content
        BY <4>1 DEF Base, Rows
      <4>3. QED  BY <1>5, <1>6, <1>7, <2>3, <3>1, <4>1, <4>2
    <3>2. q.pc \in DeletePCs =>
            /\ q.file \in DOMAIN files' /\ files'[q.file].deleted
            /\ files'[q.file].phys = q.phys /\ files'[q.file].content = q.content
      BY <2>1, <3>1 DEF Part, Deleting
    <3>3. ASSUME q.pc = "commit_delete"
          PROVE  q.last <=> \A f \in DOMAIN files' \ {q.file} : files'[f].phys # q.phys
      <4>1. q.phys # r.phys /\ q.file # r.file
        BY <3>1, <3>3 DEF DeletePCs
      <4>2. q.last <=> \A f \in DOMAIN files \ {q.file} : files[f].phys # q.phys
        BY <2>1, <3>3 DEF Part, Deleting
      <4>3. (\A f \in DOMAIN files' \ {q.file} : files'[f].phys # q.phys)
              <=> \A f \in DOMAIN files \ {q.file} : files[f].phys # q.phys
        BY <1>2, <1>7, <4>1
      <4>4. QED  BY <4>2, <4>3
    <3>4. ASSUME q.pc = "unlink", q.last
          PROVE  q.phys \in 1..uploads' /\ q.phys \notin DOMAIN physical'
      <4>1. q.phys \in 1..uploads /\ q.phys \notin DOMAIN physical
        BY <2>1, <3>4 DEF Part, Deleting
      <4>2. q.phys # r.file
        BY <1>4, <2>1, <3>4 DEF Apart
      <4>3. q.phys # r.phys
        BY <1>6, <4>1, <4>2
      <4>4. QED  BY <1>1, <1>8, <4>1, <4>3
    <3>5. QED  BY <2>1, <3>2, <3>3, <3>4 DEF Deleting
  <2>7. Creating(sess[t])'
    BY <2>1 DEF Part, Creating
  <2>8. QED  BY <2>4, <2>5, <2>6, <2>7 DEF Part
<1>16. Parts'
  <2>1. Part(sess[s])' /\ Separate(s)
    BY <1>3, PlainPart DEF Separate
  <2>2. QED  BY <1>3, <1>15, <2>1, PartsStep DEF Base
<1>17. ASSUME Stored PROVE Stored'
  <2>1. r.phys \in disk \cup lost
    BY <1>1, <1>6, <1>17 DEF Stored
  <2>2. \A p \in DOMAIN physical' : p \in disk' \cup lost'
    BY <1>1, <1>8, <1>17, <2>1 DEF Stored
  <2>3. QED  BY <1>1, <1>3, <1>17, <2>2 DEF Stored, Moves, Plain
<1>18. QED  BY <1>7, <1>12, <1>13, <1>14, <1>16, <1>17 DEF Keeps, Base

-----------------------------------------------------------------------------
(***************************************************************************)
(* The recycle bin                                                         *)
(***************************************************************************)

\* An UPDATE of a row that no deletion has locked: the row keeps its physical
\* file.
Update(f) ==
    /\ DOMAIN files' = DOMAIN files
    /\ \A g \in DOMAIN files :
        DOMAIN files'[g] = RowFields /\ files'[g].phys = files[g].phys
            /\ files'[g].content = files[g].content
    /\ \A g \in DOMAIN files \ {f} : files'[g] = files[g]

LEMMA UpdateStep ==
    ASSUME Base, NEW s \in Sessions, NEW f, Return(s), ~FileLocked(f), Update(f),
           UNCHANGED <<physical, uploads, disk, lost>>
    PROVE  Keeps
<1>1. Moves(s) /\ Plain(sess[s])'
  BY ReturnStep
<1>2. /\ DOMAIN files' = DOMAIN files
      /\ \A g \in DOMAIN files : files'[g].phys = files[g].phys
      /\ \A g \in DOMAIN files : files'[g].content = files[g].content
  BY DEF Update
<1>3. ASSUME NEW t \in Sessions \ {s} PROVE Part(sess[t])'
  <2>1. Part(sess[t]) /\ sess'[t] = sess[t]
    BY <1>1 DEF Base, Parts, Moves
  <2>2. Uploading(sess[t])'
    BY <1>2, <2>1 DEF Part, Uploading
  <2>3. Holding(sess[t])'
    BY <2>1 DEF Part, Holding
  <2>4. Deleting(sess[t])'
    <3>1. sess[t].pc \in DeletePCs =>
            sess[t].file \in DOMAIN files /\ files'[sess[t].file] = files[sess[t].file]
      BY <2>1 DEF FileLocked, Update, Part, Deleting
    <3>2. (\A g \in DOMAIN files' \ {sess[t].file} : files'[g].phys # sess[t].phys)
            <=> \A g \in DOMAIN files \ {sess[t].file} : files[g].phys # sess[t].phys
      BY <1>2
    <3>3. QED  BY <1>2, <2>1, <3>1, <3>2 DEF Part, Deleting
  <2>5. Creating(sess[t])'
    BY <2>1 DEF Part, Creating
  <2>6. QED  BY <2>2, <2>3, <2>4, <2>5 DEF Part
<1>4. Parts'
  <2>1. Part(sess[s])' /\ Separate(s)
    BY <1>1, PlainPart DEF Separate
  <2>2. QED  BY <1>1, <1>3, <2>1, PartsStep DEF Base
<1>5. Shape'
  BY <1>1, <1>2 DEF Base, Shape, Moves, Update
<1>6. Rows'
  BY <1>2 DEF Base, Rows
<1>7. RefCountExact'
  <2>1. ASSUME NEW p PROVE Refs(p)' = Refs(p)
    BY <1>2 DEF Refs
  <2>2. QED  BY <2>1, RefsExact, RefsNew DEF Base
<1>8. ASSUME Stored PROVE Stored'
  BY <1>1, <1>8 DEF Stored, Moves, Plain
<1>9. QED  BY <1>2, <1>4, <1>5, <1>6, <1>7, <1>8 DEF Keeps, Base

LEMMA SameRows ==
    ASSUME Base, files' = files, NEW f
    PROVE  Update(f)
  BY DEF Base, Shape, Update

LEMMA UpdateSoftDeleteStep ==
    ASSUME Base, NEW s \in Sessions, UpdateSoftDelete(s) PROVE Keeps
<1> DEFINE f == sess[s].file
<1>1. /\ ~FileLocked(f) /\ Return(s) /\ UNCHANGED <<physical, uploads, disk, lost>>
      /\ files' = IF f \in DOMAIN files /\ ~files[f].deleted
                  THEN [files EXCEPT ![f].deleted = TRUE, ![f].public = FALSE]
                  ELSE files
  BY DEF UpdateSoftDelete, history
<1> HIDE DEF f
<1>2. Update(f)
  <2>1. CASE files' = files
    BY <2>1, SameRows
  <2>2. CASE f \in DOMAIN files /\ files' = [files EXCEPT ![f].deleted = TRUE, ![f].public = FALSE]
    <3>1. DOMAIN files[f] = RowFields
      BY <2>2 DEF Base, Shape
    <3>2. DOMAIN files' = DOMAIN files /\ \A g \in DOMAIN files \ {f} : files'[g] = files[g]
      BY <2>2
    <3>3. DOMAIN files'[f] = RowFields /\ files'[f].phys = files[f].phys
            /\ files'[f].content = files[f].content
      BY <2>2, <3>1, SMT DEF RowFields
    <3>4. QED  BY <3>2, <3>3 DEF Update, Base, Shape
  <2>3. QED  BY <1>1, <2>1, <2>2
<1>3. QED  BY <1>1, <1>2, UpdateStep

LEMMA UpdateVisibilityStep ==
    ASSUME Base, NEW s \in Sessions, UpdateVisibility(s) PROVE Keeps
<1> DEFINE f == sess[s].file
<1>1. /\ ~FileLocked(f) /\ Return(s) /\ UNCHANGED <<physical, uploads, disk, lost>>
      /\ files' = IF f \in DOMAIN files THEN [files EXCEPT ![f].public = sess[s].public] ELSE files
  BY DEF UpdateVisibility, history
<1> HIDE DEF f
<1>2. Update(f)
  <2>1. CASE files' = files
    BY <2>1, SameRows
  <2>2. CASE f \in DOMAIN files /\ files' = [files EXCEPT ![f].public = sess[s].public]
    <3>1. DOMAIN files[f] = RowFields
      BY <2>2 DEF Base, Shape
    <3>2. DOMAIN files' = DOMAIN files /\ \A g \in DOMAIN files \ {f} : files'[g] = files[g]
      BY <2>2
    <3>3. DOMAIN files'[f] = RowFields /\ files'[f].phys = files[f].phys
            /\ files'[f].content = files[f].content
      BY <2>2, <3>1, SMT DEF RowFields
    <3>4. QED  BY <3>2, <3>3 DEF Update, Base, Shape
  <2>3. QED  BY <1>1, <2>1, <2>2
<1>3. QED  BY <1>1, <1>2, UpdateStep

LEMMA UpdateRestoreStep ==
    ASSUME Base, NEW s \in Sessions, UpdateRestore(s) PROVE Keeps
<1> DEFINE r == sess[s]
           f == r.file
           row == [files[f] EXCEPT !.deleted = FALSE, !.public = FALSE,
                                   !.folder = r.folder, !.name = r.name]
<1>1. /\ ~FileLocked(f) /\ Return(s) /\ UNCHANGED <<physical, uploads, disk, lost>>
      /\ \/ files' = files
         \/ f \in DOMAIN files /\ files' = [files EXCEPT ![f] = row]
  BY DEF UpdateRestore, Owned, history
<1>2. f \in DOMAIN files =>
        DOMAIN row = RowFields /\ row.phys = files[f].phys /\ row.content = files[f].content
  BY DEF Base, Shape, RowFields
<1> HIDE DEF f, row
<1>3. Update(f)
  <2>1. CASE files' = files
    BY <2>1, SameRows
  <2>2. CASE f \in DOMAIN files /\ files' = [files EXCEPT ![f] = row]
    <3>1. /\ DOMAIN files' = DOMAIN files /\ files'[f] = row
          /\ \A g \in DOMAIN files \ {f} : files'[g] = files[g]
      BY <2>2
    <3>2. QED  BY <1>2, <2>2, <3>1 DEF Update, Base, Shape
  <2>3. QED  BY <1>1, <2>1, <2>2
<1>4. QED  BY <1>1, <1>3, UpdateStep

LEMMA LockFileStep ==
    ASSUME Base, NEW s \in Sessions, LockFile(s) PROVE Keeps
<1> DEFINE f == Head(sess[s].todo)
           r == [sess[s] EXCEPT !.pc = "delete_rows", !.file = f, !.phys = files[f].phys,
                                !.content = files[f].content]
<1>1. CASE Return(s)
  BY <1>1, QuitStep DEF LockFile
<1>2. CASE ~Return(s)
  <2>1. /\ Move(s, r) /\ f \in DOMAIN files /\ files[f].deleted /\ ~ContentLocked(files[f].content)
        /\ sess[s].pc = "lock_file" /\ UNCHANGED <<files, physical, uploads, disk, lost>>
    BY <1>2 DEF LockFile, At, Owned, ReadOnly, database, history
  <2>2. DOMAIN sess[s] = SessionFields /\ ~sess[s].created
    BY <2>1, OutsideFields DEF UploadPCs, DeletePCs
  <2>3. /\ DOMAIN r = SessionFields /\ r.pc = "delete_rows" /\ r.file = f /\ r.phys = files[f].phys
        /\ r.content = files[f].content /\ ~r.created
    BY <2>2 DEF SessionFields
  <2> HIDE DEF f, r
  <2>4. Moves(s) /\ sess'[s] = r
    BY <2>1, <2>3, MoveStep DEF Base
  <2>5. /\ r.pc \notin UploadPCs /\ r.pc \notin HoldPCs /\ r.pc \in DeletePCs
        /\ r.pc # "unlink" /\ r.pc # "commit_delete"
    BY <2>3 DEF UploadPCs, HoldPCs, DeletePCs
  <2>6. Part(sess[s])'
    <3>1. (Uploading(sess[s]) /\ Holding(sess[s]) /\ Creating(sess[s]))'
      BY <2>3, <2>4, <2>5 DEF Uploading, Holding, Creating
    <3>2. Deleting(sess[s])'
      BY <2>1, <2>3, <2>4, <2>5 DEF Deleting
    <3>3. QED  BY <3>1, <3>2 DEF Part
  <2>7. ASSUME NEW t \in Sessions \ {s}
        PROVE  Apart(sess'[s], sess[t]) /\ Apart(sess[t], sess'[s])
    <3>1. sess[t].pc \in HoldPCs \cup DeletePCs => sess[t].content # r.content
      BY <2>1, <2>3 DEF ContentLocked, HoldPCs
    <3>2. QED  BY <2>4, <2>5, <3>1 DEF Apart
  <2>8. Base'
    BY <2>1, <2>4, <2>6, <2>7, ReadStep DEF Separate
  <2>9. ASSUME Stored PROVE Stored'
    BY <2>1, <2>3, <2>4, <2>9 DEF Stored, Moves
  <2>10. QED  BY <2>1, <2>8, <2>9 DEF Keeps
<1>3. QED  BY <1>1, <1>2

LEMMA DeleteRowsStep ==
    ASSUME Base, NEW s \in Sessions, DeleteRows(s) PROVE Keeps
<1> DEFINE alone == \A f \in DOMAIN files \ {sess[s].file} : files[f].phys # sess[s].phys
           last == physical[sess[s].phys].ref_count <= 1 /\ alone
           r == [sess[s] EXCEPT !.pc = "commit_delete", !.last = last]
<1>1. /\ Move(s, r) /\ sess[s].pc = "delete_rows"
      /\ UNCHANGED <<files, physical, uploads, disk, lost>>
  BY DEF DeleteRows, At, ReadOnly, database, history
<1>2. /\ sess[s].pc \in DeletePCs /\ sess[s].pc \notin UploadPCs /\ ~sess[s].created
      /\ DOMAIN sess[s] = SessionFields
  BY <1>1, SessionParts DEF UploadPCs, DeletePCs, Creating
<1>3. /\ DOMAIN r = SessionFields /\ r.pc = "commit_delete" /\ r.file = sess[s].file
      /\ r.phys = sess[s].phys /\ r.content = sess[s].content /\ ~r.created /\ r.last = last
  BY <1>2 DEF SessionFields
<1>4. /\ r.file \in DOMAIN files /\ files[r.file].deleted
      /\ files[r.file].phys = r.phys /\ files[r.file].content = r.content
  BY <1>2, <1>3, SessionParts DEF Deleting
<1>5. last <=> alone
  <2>1. ASSUME alone PROVE physical[sess[s].phys].ref_count <= 1
    <3>1. Refs(r.phys) = {r.file}
      BY <1>3, <1>4, <2>1 DEF Refs
    <3>2. r.phys \in DOMAIN physical
      BY <1>4 DEF Base, Rows
    <3>3. physical[r.phys].ref_count = 1
      BY <3>1, <3>2, RefsExact, SingletonSize DEF Base
    <3>4. QED  BY <1>3, <3>3, SMT
  <2>2. QED  BY <2>1
<1>6. r.last <=> \A f \in DOMAIN files \ {r.file} : files[f].phys # r.phys
  BY <1>3, <1>5
<1> HIDE DEF alone, last, r
<1>7. Moves(s) /\ sess'[s] = r
  BY <1>1, <1>3, MoveStep DEF Base
<1>8. r.pc \notin UploadPCs /\ r.pc \notin HoldPCs /\ r.pc \in DeletePCs /\ r.pc # "unlink"
  BY <1>3 DEF UploadPCs, HoldPCs, DeletePCs
<1>9. Part(sess[s])'
  <2>1. (Uploading(sess[s]) /\ Holding(sess[s]) /\ Creating(sess[s]))'
    BY <1>3, <1>7, <1>8 DEF Uploading, Holding, Creating
  <2>2. Deleting(sess[s])'
    BY <1>1, <1>4, <1>6, <1>7, <1>8 DEF Deleting
  <2>3. QED  BY <2>1, <2>2 DEF Part
<1>10. ASSUME NEW t \in Sessions \ {s}
       PROVE  Apart(sess'[s], sess[t]) /\ Apart(sess[t], sess'[s])
  <2>1. Apart(sess[s], sess[t]) /\ Apart(sess[t], sess[s])
    BY DEF Base, Parts
  <2>2. QED  BY <1>2, <1>3, <1>7, <1>8, <2>1 DEF Apart
<1>11. Base'
  BY <1>1, <1>7, <1>9, <1>10, ReadStep DEF Separate
<1>12. ASSUME Stored PROVE Stored'
  BY <1>1, <1>3, <1>7, <1>12 DEF Stored, Moves
<1>13. QED  BY <1>1, <1>11, <1>12 DEF Keeps

LEMMA NextFileStep ==
    ASSUME Base, NEW s \in Sessions, NextFile(s)
    PROVE  Moves(s) /\ Plain(sess[s])'
<1>1. CASE Return(s)
  BY <1>1, ReturnStep
<1>2. CASE ~Return(s)
  <2>1. PICK u, todo : Move(s, [Idle EXCEPT !.pc = "lock_file", !.user = u, !.todo = todo])
    BY <1>2 DEF NextFile
  <2> DEFINE r == [Idle EXCEPT !.pc = "lock_file", !.user = u, !.todo = todo]
  <2>2. DOMAIN r = SessionFields /\ Plain(r)
    BY IdleFields DEF SessionFields, Plain, UploadPCs, DeletePCs
  <2>3. Move(s, r)
    BY <2>1
  <2> HIDE DEF r
  <2>4. QED  BY <2>2, <2>3, MoveStep DEF Base
<1>3. QED  BY <1>1, <1>2

LEMMA UnlinkStep ==
    ASSUME Base, NEW s \in Sessions, Unlink(s) PROVE Keeps
<1>1. /\ Moves(s) /\ Plain(sess[s])' /\ UNCHANGED <<files, physical, uploads, lost>>
      /\ sess[s].pc = "unlink"
  BY NextFileStep DEF Unlink, At, database, history
<1>2. Base'
  BY <1>1, PlainStep
<1>3. ASSUME Stored PROVE Stored'
  <2>1. CASE ~sess[s].last
    BY <1>1, <1>3, <2>1 DEF Unlink, Stored, Moves, Plain
  <2>2. CASE sess[s].last
    <3>1. sess[s].phys \notin DOMAIN physical
      BY <1>1, <2>2, SessionParts DEF Deleting
    <3>2. ASSUME NEW t \in Sessions \ {s}, sess[t].pc \in {"insert_file", "commit"}, sess[t].created
          PROVE  sess[t].phys # sess[s].phys
      <4>1. sess[t].pc \in UploadPCs /\ sess[t].pc \in HoldPCs
        BY <3>2 DEF UploadPCs, HoldPCs
      <4>2. sess[t].phys = sess[t].file
        BY <3>2, <4>1, SessionParts DEF Holding
      <4>3. Apart(sess[s], sess[t])
        BY DEF Base, Parts
      <4>4. QED  BY <1>1, <2>2, <4>1, <4>2, <4>3 DEF Apart
    <3>3. disk' = disk \ {sess[s].phys}
      BY <2>2 DEF Unlink
    <3>4. \A p \in DOMAIN physical' : p \in disk' \cup lost'
      BY <1>1, <1>3, <3>1, <3>3 DEF Stored
    <3>5. ASSUME NEW t \in Sessions, sess'[t].pc \in {"insert_file", "commit"}, sess'[t].created
          PROVE  sess'[t].phys \in disk' \cup lost'
      <4>1. t # s /\ sess'[t] = sess[t]
        BY <1>1, <3>5 DEF Moves, Plain
      <4>2. QED  BY <1>1, <1>3, <3>2, <3>3, <3>5, <4>1 DEF Stored
    <3>6. QED  BY <3>4, <3>5 DEF Stored
  <2>3. QED  BY <2>1, <2>2
<1>4. QED  BY <1>1, <1>2, <1>3 DEF Keeps

LEMMA UnlinkFailsStep ==
    ASSUME Base, NEW s \in Sessions, UnlinkFails(s) PROVE Keeps
<1>1. Moves(s) /\ Plain(sess[s])' /\ UNCHANGED <<files, physical, uploads, disk, lost>>
  BY NextFileStep DEF UnlinkFails, database
<1>2. Base'
  BY <1>1, PlainStep
<1>3. ASSUME Stored PROVE Stored'
  BY <1>1, <1>3 DEF Stored, Moves, Plain
<1>4. QED  BY <1>1, <1>2, <1>3 DEF Keeps

\* COMMIT of a deletion: the physical file goes with its last file, and has
\* one file less otherwise.
LEMMA CommitDeleteStep ==
    ASSUME Base, NEW s \in Sessions, CommitDelete(s) PROVE Keeps
<1> DEFINE q == sess[s]
           r == [q EXCEPT !.pc = "unlink"]
<1>1. /\ q.pc = "commit_delete" /\ files' = Drop(files, q.file) /\ Move(s, r)
      /\ UNCHANGED <<uploads, disk, lost>>
      /\ physical' = IF q.last THEN Drop(physical, q.phys)
                     ELSE [physical EXCEPT ![q.phys].ref_count = IF @ > 0 THEN @ - 1 ELSE 0]
  BY DEF CommitDelete, At, Goto, history
<1>2. q.pc \in DeletePCs /\ q.pc \notin UploadPCs /\ ~q.created
  BY <1>1, SessionParts DEF UploadPCs, DeletePCs, Creating
<1>3. /\ DOMAIN r = SessionFields /\ r.pc = "unlink" /\ r.phys = q.phys
      /\ ~r.created /\ r.last = q.last
  BY <1>2, SessionParts DEF SessionFields
<1> HIDE DEF r
<1>4. Moves(s) /\ sess'[s] = r
  BY <1>1, <1>3, MoveStep DEF Base
<1>5. /\ q.file \in DOMAIN files /\ files[q.file].deleted
      /\ files[q.file].phys = q.phys /\ files[q.file].content = q.content
  BY <1>2, SessionParts DEF Deleting
<1>6. q.phys \in DOMAIN physical /\ physical[q.phys].content = q.content
  BY <1>5 DEF Base, Rows
<1>7. q.last <=> \A f \in DOMAIN files \ {q.file} : files[f].phys # q.phys
  BY <1>1, SessionParts DEF Deleting
<1>8. /\ DOMAIN files' = DOMAIN files \ {q.file}
      /\ \A f \in DOMAIN files' : f \in DOMAIN files /\ files'[f] = files[f]
  BY <1>1 DEF Drop
<1>9. /\ DOMAIN physical' = IF q.last THEN DOMAIN physical \ {q.phys} ELSE DOMAIN physical
      /\ \A p \in DOMAIN physical' \ {q.phys} : physical'[p] = physical[p]
  BY <1>1 DEF Drop
<1>10. physical[q.phys].ref_count = Cardinality(Refs(q.phys)) /\ physical[q.phys].ref_count > 0
       /\ physical[q.phys].ref_count \in Nat /\ DOMAIN physical[q.phys] = {"content", "ref_count"}
  BY <1>6, RefsExact DEF Base, Shape
<1>11. ~q.last => /\ DOMAIN physical'[q.phys] = {"content", "ref_count"}
                  /\ physical'[q.phys].content = q.content
                  /\ physical'[q.phys].ref_count = physical[q.phys].ref_count - 1
                  /\ physical'[q.phys].ref_count \in Nat
  BY <1>1, <1>6, <1>10, SMTT(60)
<1>12. ASSUME ~q.last, NEW p, p = q.phys
       PROVE  physical'[p].ref_count = Cardinality(Refs(p)') /\ physical'[p].ref_count > 0
  <2>1. Refs(p)' = Refs(p) \ {q.file} /\ q.file \in Refs(p)
    BY <1>5, <1>8, <1>12 DEF Refs
  <2>2. IsFiniteSet(Refs(p)) /\ IsFiniteSet(Refs(p)')
    BY <2>1, RefsFinite, SizeWithout DEF Base
  <2>3. Cardinality(Refs(p)') = Cardinality(Refs(p)) - 1
    BY <2>1, <2>2, SizeWithout
  <2>4. Refs(p)' # {}
    BY <1>7, <1>8, <1>12 DEF Refs
  <2>5. Cardinality(Refs(p)') # 0 /\ Cardinality(Refs(p)') \in Nat
    BY <2>2, <2>4, EmptySize, SizeType
  <2>6. physical'[p].ref_count = Cardinality(Refs(p)')
    BY <1>10, <1>11, <1>12, <2>3
  <2>7. QED  BY <2>5, <2>6, SMT
<1>13. RefCountExact'
  <2>1. ASSUME NEW p \in DOMAIN physical'
        PROVE  physical'[p].ref_count = Cardinality(Refs(p)') /\ physical'[p].ref_count > 0
    <3>1. CASE p = q.phys
      BY <1>9, <1>12, <3>1
    <3>2. CASE p # q.phys
      <4>1. Refs(p)' = Refs(p)
        BY <1>5, <1>8, <3>2 DEF Refs
      <4>2. p \in DOMAIN physical /\ physical'[p] = physical[p]
        BY <1>9, <3>2
      <4>3. QED  BY <4>1, <4>2, RefsExact DEF Base
    <3>3. QED  BY <3>1, <3>2
  <2>2. QED  BY <2>1, RefsNew
<1>14. \A p \in DOMAIN physical' :
         /\ p \in DOMAIN physical /\ physical'[p].content = physical[p].content
         /\ DOMAIN physical'[p] = {"content", "ref_count"} /\ physical'[p].ref_count \in Nat
  <2>1. ASSUME NEW p \in DOMAIN physical'
        PROVE  /\ p \in DOMAIN physical /\ physical'[p].content = physical[p].content
               /\ DOMAIN physical'[p] = {"content", "ref_count"} /\ physical'[p].ref_count \in Nat
    <3>1. CASE p = q.phys
      BY <1>6, <1>9, <1>11, <3>1
    <3>2. CASE p # q.phys
      BY <1>9, <3>2 DEF Base, Shape
    <3>3. QED  BY <3>1, <3>2
  <2>2. QED  BY <2>1
<1>15. \A p \in DOMAIN physical : p \in DOMAIN physical' \/ (q.last /\ p = q.phys)
  BY <1>9
<1>16. Shape'
  <2>1. DOMAIN files' \subseteq 1..uploads' /\ DOMAIN physical' \subseteq 1..uploads' /\ uploads' \in Nat
    BY <1>1, <1>8, <1>14 DEF Base, Shape
  <2>2. \A f \in DOMAIN files' : DOMAIN files'[f] = RowFields
    BY <1>8 DEF Base, Shape
  <2>3. QED  BY <1>4, <1>14, <2>1, <2>2 DEF Base, Shape, Moves
<1>17. Rows'
  <2>1. ASSUME NEW f \in DOMAIN files'
        PROVE  files'[f].phys \in DOMAIN physical'
               /\ physical'[files'[f].phys].content = files'[f].content
    <3>1. f \in DOMAIN files /\ f # q.file /\ files'[f] = files[f]
      BY <1>8
    <3>2. files[f].phys \in DOMAIN physical /\ physical[files[f].phys].content = files[f].content
      BY <3>1 DEF Base, Rows
    <3>3. files[f].phys \in DOMAIN physical'
      BY <1>7, <1>15, <3>1, <3>2
    <3>4. QED  BY <1>14, <3>1, <3>2, <3>3
  <2>2. \A p1, p2 \in DOMAIN physical' : physical'[p1].content = physical'[p2].content => p1 = p2
    BY <1>14 DEF Base, Rows
  <2>3. QED  BY <2>1, <2>2 DEF Rows
<1>18. ASSUME NEW t \in Sessions \ {s}
       PROVE  Part(sess[t])' /\ Apart(sess'[s], sess[t]) /\ Apart(sess[t], sess'[s])
  <2> DEFINE o == sess[t]
  <2>1. Part(o) /\ sess'[t] = o /\ Apart(q, o) /\ Apart(o, q)
    BY <1>4 DEF Base, Parts, Moves
  <2> HIDE DEF o
  <2>2. o.pc \in HoldPCs \cup DeletePCs => o.content # q.content
    BY <1>2, <2>1 DEF Apart
  <2>3. Uploading(sess[t])'
    BY <1>1, <1>8, <1>14, <2>1 DEF Part, Uploading
  <2>4. Holding(sess[t])'
    <3>1. ASSUME o.pc \in HoldPCs, o.created
          PROVE  o.phys = o.file /\ \A p \in DOMAIN physical' : physical'[p].content # o.content
      BY <1>14, <2>1, <3>1 DEF Part, Holding
    <3>2. ASSUME o.pc \in HoldPCs, ~o.created
          PROVE  o.phys \in DOMAIN physical' /\ physical'[o.phys].content = o.content
      <4>1. o.phys \in DOMAIN physical /\ physical[o.phys].content = o.content
        BY <2>1, <3>2 DEF Part, Holding
      <4>2. o.phys # q.phys
        BY <1>6, <2>2, <3>2, <4>1
      <4>3. QED  BY <1>14, <1>15, <4>1, <4>2
    <3>3. QED  BY <2>1, <3>1, <3>2 DEF Holding
  <2>5. Deleting(sess[t])'
    <3>1. ASSUME o.pc \in DeletePCs
          PROVE  o.file # q.file /\ o.phys # q.phys /\ o.file \in DOMAIN files'
      <4>1. o.file \in DOMAIN files /\ files[o.file].phys = o.phys /\ files[o.file].content = o.content
        BY <2>1, <3>1 DEF Part, Deleting
      <4>2. o.phys \in DOMAIN physical /\ physical[o.phys].content = o.content
        BY <4>1 DEF Base, Rows
      <4>3. o.file # q.file /\ o.phys # q.phys
        BY <1>5, <1>6, <2>2, <3>1, <4>1, <4>2
      <4>4. QED  BY <1>8, <4>1, <4>3
    <3>2. o.pc \in DeletePCs =>
            /\ o.file \in DOMAIN files' /\ files'[o.file].deleted
            /\ files'[o.file].phys = o.phys /\ files'[o.file].content = o.content
      BY <1>8, <2>1, <3>1 DEF Part, Deleting
    <3>3. ASSUME o.pc = "commit_delete"
          PROVE  o.last <=> \A f \in DOMAIN files' \ {o.file} : files'[f].phys # o.phys
      <4>1. o.file # q.file /\ o.phys # q.phys
        BY <3>1, <3>3 DEF DeletePCs
      <4>2. o.last <=> \A f \in DOMAIN files \ {o.file} : files[f].phys # o.phys
        BY <2>1, <3>3 DEF Part, Deleting
      <4>3. (\A f \in DOMAIN files' \ {o.file} : files'[f].phys # o.phys)
              <=> \A f \in DOMAIN files \ {o.file} : files[f].phys # o.phys
        BY <1>5, <1>8, <4>1
      <4>4. QED  BY <4>2, <4>3
    <3>4. ASSUME o.pc = "unlink", o.last
          PROVE  o.phys \in 1..uploads' /\ o.phys \notin DOMAIN physical'
      BY <1>1, <1>14, <2>1, <3>4 DEF Part, Deleting
    <3>5. QED  BY <2>1, <3>2, <3>3, <3>4 DEF Deleting
  <2>6. Creating(sess[t])'
    BY <2>1 DEF Part, Creating
  <2>7. r.pc \notin UploadPCs /\ r.pc \notin HoldPCs \cup DeletePCs
    BY <1>3 DEF UploadPCs, HoldPCs, DeletePCs
  <2>8. o.pc \in UploadPCs => o.file # q.phys
    BY <1>6, <2>1 DEF Part, Uploading
  <2>9. Apart(r, o) /\ Apart(o, r)
    BY <1>3, <2>7, <2>8 DEF Apart
  <2>10. QED  BY <1>4, <2>3, <2>4, <2>5, <2>6, <2>9 DEF Part, o
<1>19. Part(sess[s])'
  <2>1. r.pc \notin UploadPCs /\ r.pc \notin HoldPCs /\ r.pc \notin DeletePCs /\ r.pc # "commit_delete"
    BY <1>3 DEF UploadPCs, HoldPCs, DeletePCs
  <2>2. (Uploading(sess[s]) /\ Holding(sess[s]) /\ Creating(sess[s]))'
    BY <1>3, <1>4, <2>1 DEF Uploading, Holding, Creating
  <2>3. q.phys \in 1..uploads' /\ (q.last => q.phys \notin DOMAIN physical')
    BY <1>1, <1>6, <1>9 DEF Base, Shape
  <2>4. Deleting(sess[s])'
    BY <1>3, <1>4, <2>1, <2>3 DEF Deleting
  <2>5. QED  BY <2>2, <2>4 DEF Part
<1>20. Parts'
  BY <1>4, <1>18, <1>19, PartsStep DEF Base, Separate
<1>21. ASSUME Stored PROVE Stored'
  BY <1>1, <1>3, <1>4, <1>14, <1>21 DEF Stored, Moves
<1>22. \A f \in DOMAIN files : f \notin DOMAIN files' => files[f].deleted
  BY <1>5, <1>8
<1>23. QED  BY <1>13, <1>16, <1>17, <1>20, <1>21, <1>22 DEF Keeps, Base

-----------------------------------------------------------------------------
(***************************************************************************)
(* The server                                                              *)
(***************************************************************************)

\* The rows are what they were.
LEMMA SameStep ==
    ASSUME Base, UNCHANGED <<files, uploads, sess>>, DOMAIN physical' = DOMAIN physical,
           \A p \in DOMAIN physical : physical'[p] = physical[p]
    PROVE  Base'
<1>1. Shape'
  BY DEF Base, Shape
<1>2. Rows'
  BY DEF Base, Rows
<1>3. RefCountExact'
  <2>1. ASSUME NEW p PROVE Refs(p)' = Refs(p)
    BY DEF Refs
  <2>2. QED  BY <2>1, RefsExact, RefsNew DEF Base
<1>4. ASSUME NEW s \in Sessions PROVE Part(sess[s])'
  <2>1. Part(sess[s])
    BY DEF Base, Parts
  <2>2. (Uploading(sess[s]) /\ Creating(sess[s]))'
    BY <2>1 DEF Part, Uploading, Creating
  <2>3. Holding(sess[s])'
    BY <2>1 DEF Part, Holding
  <2>4. Deleting(sess[s])'
    BY <2>1 DEF Part, Deleting
  <2>5. QED  BY <2>2, <2>3, <2>4 DEF Part
<1>5. Parts'
  BY <1>4 DEF Base, Parts
<1>6. QED  BY <1>1, <1>2, <1>3, <1>5 DEF Base

LEMMA CrashStep ==
    ASSUME Base, Crash PROVE Keeps
<1>1. sess' = [s \in Sessions |-> Idle] /\ UNCHANGED <<files, physical, uploads, disk, lost>>
  BY DEF Crash, database
<1>2. \A s \in Sessions : sess'[s] = Idle
  BY <1>1
<1>3. \A s \in Sessions : Plain(sess[s])'
  BY <1>2, IdlePlain
<1>4. Parts'
  <2>1. \A s \in Sessions : Part(sess[s])' /\ \A q : Apart(sess'[s], q)
    BY <1>3, PlainPart
  <2>2. QED  BY <2>1 DEF Parts
<1>5. Shape'
  BY <1>1, <1>2, IdleFields DEF Base, Shape
<1>6. Rows'
  BY <1>1 DEF Base, Rows
<1>7. RefCountExact'
  BY <1>1, SMT DEF Base, RefCountExact
<1>8. ASSUME Stored PROVE Stored'
  BY <1>1, <1>3, <1>8 DEF Stored, Plain
<1>9. QED  BY <1>1, <1>4, <1>5, <1>6, <1>7, <1>8 DEF Keeps, Base

LEMMA LoseContentStep ==
    ASSUME Base, LoseContent PROVE Keeps
<1>1. UNCHANGED <<files, physical, uploads, sess>> /\ disk' \cup lost' = disk \cup lost
  BY DEF LoseContent, database
<1>2. Base'
  BY <1>1, SameStep
<1>3. ASSUME Stored PROVE Stored'
  BY <1>1, <1>3 DEF Stored
<1>4. QED  BY <1>1, <1>2, <1>3 DEF Keeps

LEMMA StayStep ==
    ASSUME Base, UNCHANGED vars PROVE Keeps
<1>1. UNCHANGED <<files, physical, uploads, sess, disk, lost>>
  BY DEF vars, database, history
<1>2. Base'
  BY <1>1, SameStep
<1>3. ASSUME Stored PROVE Stored'
  BY <1>1, <1>3 DEF Stored
<1>4. QED  BY <1>1, <1>2, <1>3 DEF Keeps

LEMMA ServerStepKeeps ==
    ASSUME Base, Next PROVE Keeps
<1>1. ASSUME NEW s \in Sessions, Step(s) PROVE Keeps
  BY <1>1, InspectUploadStep, FindPhysicalStep, InsertPhysicalStep, WriteContentStep,
     InsertFileStep, InsertFileFailsStep, CommitUploadStep, CommitUploadFailsStep,
     UpdateSoftDeleteStep, UpdateVisibilityStep, RestoreFolderStep, RestoreNameStep,
     UpdateRestoreStep, LockFileStep, DeleteRowsStep, CommitDeleteStep, UnlinkStep,
     UnlinkFailsStep, CheckFolderNameStep, InsertFolderStep, CheckChildFoldersStep,
     CheckChildFilesStep, UpdateDeleteFolderStep DEF Step
<1>2. ASSUME NEW s \in Sessions, NEW u \in Users, Request(s, u) PROVE Keeps
  BY <1>2, UploadStep, SoftDeleteStep, RestoreStep, HardDeleteStep, VisibilityStep,
     EmptyTrashStep, DeleteFolderStep, CreateFolderStep DEF Request
<1>3. ASSUME Quiet PROVE Keeps
  BY <1>3, StayStep DEF Quiet
<1>4. QED  BY <1>1, <1>2, <1>3, FailStep, CrashStep, LoseContentStep DEF Next

LEMMA BaseInit ==
    ASSUME Init PROVE Base /\ Stored
<1>1. /\ DOMAIN files = {} /\ DOMAIN physical = {} /\ uploads = 0 /\ DOMAIN sess = Sessions
      /\ \A s \in Sessions : sess[s] = Idle
  BY DEF Init, Empty
<1>2. Shape
  BY <1>1, IdleFields, SMT DEF Shape
<1>3. Rows /\ RefCountExact
  BY <1>1 DEF Rows, RefCountExact
<1>4. Parts
  <2>1. Idle.pc \notin UploadPCs /\ Idle.pc \notin HoldPCs /\ Idle.pc \notin DeletePCs
        /\ Idle.pc # "unlink" /\ Idle.pc # "commit_delete" /\ ~Idle.created
    BY IdleFields DEF UploadPCs, HoldPCs, DeletePCs
  <2>2. Part(Idle)
    BY <2>1 DEF Part, Uploading, Holding, Deleting, Creating
  <2>3. Apart(Idle, Idle)
    BY <2>1 DEF Apart
  <2>4. QED  BY <1>1, <2>2, <2>3 DEF Parts
<1>5. Stored
  BY <1>1, IdleFields DEF Stored
<1>6. QED  BY <1>2, <1>3, <1>4, <1>5 DEF Base

-----------------------------------------------------------------------------
(***************************************************************************)
(* The script beside the server                                            *)
(***************************************************************************)

\* A physical file without files is never committed, so nothing is stale.
LEMMA AllReferenced ==
    ASSUME Base PROVE DOMAIN physical = Referenced
<1>1. ASSUME NEW p \in DOMAIN physical PROVE p \in Referenced
  <2>1. Cardinality(Refs(p)) # 0
    BY RefsExact, SMT DEF Base
  <2>2. Refs(p) # {}
    BY <2>1, EmptySize
  <2>3. QED  BY <2>2 DEF Refs, Referenced
<1>2. \A p \in Referenced : p \in DOMAIN physical
  BY DEF Base, Rows, Referenced
<1>3. QED  BY <1>1, <1>2

LEMMA StaleStep ==
    ASSUME Base, DeleteStaleRows
    PROVE  Base' /\ DOMAIN physical' = DOMAIN physical
<1>1. DOMAIN physical' = DOMAIN physical /\ \A p \in DOMAIN physical : physical'[p] = physical[p]
  BY AllReferenced DEF DeleteStaleRows
<1>2. QED  BY <1>1, SameStep DEF DeleteStaleRows

\* What the script and the server do to the rows together.
LEMMA CheckerKeeps ==
    ASSUME Base, [CheckerNext]_allVars
    PROVE  Base' /\ \A f \in DOMAIN files : f \notin DOMAIN files' => files[f].deleted
<1>1. CASE ServerStep
  BY <1>1, ServerStepKeeps DEF ServerStep, Keeps
<1>2. CASE UNCHANGED vars
  BY <1>2, StayStep DEF Keeps
<1>3. CASE DeleteStaleRows
  BY <1>3, StaleStep DEF DeleteStaleRows
<1>4. CASE RemoveOrphan
  <2>1. UNCHANGED <<files, physical, uploads, sess>>
    BY <1>4 DEF RemoveOrphan, database
  <2>2. QED  BY <2>1, SameStep
<1>5. QED
  BY <1>1, <1>2, <1>3, <1>4
     DEF CheckerNext, StartCheck, QueryDatabase, ListDisk, Report, allVars

LEMMA BaseAlways == CheckerSpec => []Base
<1>1. CheckerInit => Base
  BY BaseInit DEF CheckerInit
<1>2. Base /\ [CheckerNext]_allVars => Base'
  BY CheckerKeeps
<1>3. QED  BY <1>1, <1>2, PTL DEF CheckerSpec

\* The triggers of file_repository keep ref_count equal to the number of files
\* of a physical file, and none is committed without files, whatever uploads,
\* deletions, failures and runs of the script overlap.
THEOREM RefCountSafe == CheckerSpec => []RefCountExact
<1>1. Base => RefCountExact
  BY DEF Base
<1>2. QED  BY <1>1, BaseAlways, PTL

\* hard_delete_file and empty_trash delete a file for good only while it is in
\* the recycle bin, also when restore_file runs at the same time.
THEOREM TrashSafe == CheckerSpec => DeletedFromTrashOnly
<1>1. Base /\ [CheckerNext]_allVars =>
        [\A f \in DOMAIN files : f \notin DOMAIN files' => files[f].deleted]_vars
  BY CheckerKeeps
<1>2. QED  BY <1>1, BaseAlways, PTL DEF CheckerSpec, DeletedFromTrashOnly

-----------------------------------------------------------------------------
(***************************************************************************)
(* The script while no request is handled                                  *)
(***************************************************************************)

Calm == Base /\ Stored /\ Offline

\* The script reads, and nothing it has read changes.
LEMMA ReadsStep ==
    ASSUME ~Online, Calm, StartCheck \/ QueryDatabase \/ ListDisk \/ Report
    PROVE  Calm'
<1>1. UNCHANGED <<files, physical, uploads, sess, disk, lost>>
  BY DEF StartCheck, QueryDatabase, ListDisk, Report, vars, database, history
<1>2. Base' /\ Stored' /\ Referenced' = Referenced
  BY <1>1, SameStep DEF Calm, Stored, Referenced
<1>3. CASE StartCheck
  BY <1>1, <1>2, <1>3 DEF Calm, Offline, StartCheck, At
<1>4. CASE QueryDatabase
  <2>1. \A s \in Sessions : sess'[s].pc = "idle"
    BY <1>1, <1>4 DEF Calm, Offline, QueryDatabase
  <2>2. cpc' = "off" \/ (cpc' \in {"list", "list_again"} /\ referenced' = Referenced)
    BY <1>4 DEF QueryDatabase, Exit
  <2>3. QED  BY <1>2, <2>1, <2>2 DEF Calm, Offline
<1>5. CASE ListDisk
  <2>1. (\A s \in Sessions : sess'[s].pc = "idle") /\ referenced = Referenced
    BY <1>1, <1>5 DEF Calm, Offline, ListDisk
  <2>2. \/ cpc' = "off"
        \/ /\ cpc' \in {"stale", "remove"} /\ referenced' = referenced
           /\ listed' = disk /\ referenced \subseteq disk
    BY <1>5 DEF ListDisk, Exit
  <2>3. QED  BY <1>1, <1>2, <2>1, <2>2 DEF Calm, Offline
<1>6. CASE Report
  <2>1. cpc' = "report" /\ listed = disk /\ listed \subseteq referenced
        /\ referenced \subseteq disk /\ referenced = Referenced
    BY <1>6 DEF Report, Exit, Calm, Offline
  <2>2. disk = Referenced
    BY <2>1
  <2>3. QED  BY <1>1, <1>2, <2>1, <2>2 DEF Calm, Offline
<1>7. QED  BY <1>3, <1>4, <1>5, <1>6

LEMMA CalmStale ==
    ASSUME Calm, DeleteStaleRows
    PROVE  Calm'
<1>1. Base' /\ DOMAIN physical' = DOMAIN physical
  BY StaleStep DEF Calm
<1>2. cpc = "stale" /\ cpc' = "query_again" /\ UNCHANGED <<sess, disk, lost>>
  BY DEF DeleteStaleRows, history
<1>3. Stored' /\ Offline'
  BY <1>1, <1>2 DEF Calm, Stored, Offline
<1>4. QED  BY <1>1, <1>3 DEF Calm

\* rm -f removes nothing that a row refers to.
LEMMA CalmRemove ==
    ASSUME Calm, RemoveOrphan
    PROVE  Calm'
<1>1. /\ cpc = "remove" /\ UNCHANGED <<files, physical, uploads, sess, lost, cpc, referenced>>
  BY DEF RemoveOrphan, database, history
<1>2. PICK p \in listed \ referenced : disk' = disk \ {p} /\ listed' = listed \ {p}
  BY DEF RemoveOrphan
<1>3. /\ \A s \in Sessions : sess[s].pc = "idle"
      /\ referenced = Referenced /\ listed = disk /\ referenced \subseteq disk
  BY <1>1 DEF Calm, Offline
<1>4. Base' /\ Referenced' = Referenced
  BY <1>1, SameStep DEF Calm, Referenced
<1>5. p \notin DOMAIN physical
  BY <1>2, <1>3, AllReferenced DEF Calm
<1>6. Stored'
  BY <1>1, <1>2, <1>3, <1>5 DEF Calm, Stored
<1>7. Offline'
  BY <1>1, <1>2, <1>3, <1>4 DEF Offline
<1>8. QED  BY <1>4, <1>6, <1>7 DEF Calm

LEMMA CalmServer ==
    ASSUME ~Online, Calm, ServerStep
    PROVE  Calm'
<1>1. Base' /\ Stored'
  BY ServerStepKeeps DEF ServerStep, Keeps, Calm
<1>2. cpc' = "off"
  BY DEF ServerStep, Serve
<1>3. Offline'
  BY <1>2 DEF Offline
<1>4. QED  BY <1>1, <1>3 DEF Calm

LEMMA CalmStay ==
    ASSUME Calm, UNCHANGED allVars
    PROVE  Calm'
<1>1. Base' /\ Stored'
  BY StayStep DEF Calm, Keeps, allVars
<1>2. UNCHANGED <<files, sess, disk, cpc, referenced, listed>>
  BY DEF allVars, checkerVars, vars, database
<1>3. Referenced' = Referenced
  BY <1>2 DEF Referenced
<1>4. Offline'
  BY <1>2, <1>3 DEF Calm, Offline
<1>5. QED  BY <1>1, <1>4 DEF Calm

LEMMA CalmAlways ==
    ASSUME ~Online
    PROVE  CheckerSpec => []Calm
<1>1. CheckerInit => Calm
  BY BaseInit DEF CheckerInit, Calm, Offline
<1>2. Calm /\ [CheckerNext]_allVars => Calm'
  BY ReadsStep, CalmStale, CalmRemove, CalmServer, CalmStay DEF CheckerNext
<1>3. QED  BY <1>1, <1>2, PTL DEF CheckerSpec

\* A content is on disk before the COMMIT that refers to it and is unlinked
\* after the one that drops its last reference, whoever uploads it again
\* meanwhile: no file is without its content, when the script does not run
\* beside requests.
THEOREM ContentSafe ==
    ASSUME ~Online
    PROVE  CheckerSpec => []ContentAvailable
<1>1. Calm => ContentAvailable
  BY DEF Calm, Base, Rows, Stored, ContentAvailable
<1>2. QED  BY <1>1, CalmAlways, PTL

\* check_storage_consistency.sh --fix-orphans removes no content that a file
\* refers to.
THEOREM OrphansSafe ==
    ASSUME ~Online
    PROVE  CheckerSpec => []OnlyOrphansRemoved
<1>1. Calm => OnlyOrphansRemoved
  BY DEF Calm, Base, Rows, Stored, OnlyOrphansRemoved
<1>2. QED  BY <1>1, CalmAlways, PTL

\* When the script reports success, only referenced contents are on disk.
THEOREM CleanSafe ==
    ASSUME ~Online
    PROVE  CheckerSpec => []CleanAfterFix
<1>1. Calm => CleanAfterFix
  BY DEF Calm, Offline, CleanAfterFix
<1>2. QED  BY <1>1, CalmAlways, PTL
=============================================================================
