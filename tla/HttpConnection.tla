--------------------------- MODULE HttpConnection ---------------------------
(***************************************************************************)
(* One request on one connection: the bytes of a message arrive in pieces, *)
(* the reactor reads them (read_once, read_once_et), a worker parses what  *)
(* is there and, when the request is complete, runs it and prepares the    *)
(* answer (HttpConnection::process), and the answer goes out in pieces     *)
(* (HttpConnection::write).  Reading and processing exclude each other by  *)
(* the connection's request lock, and a read is followed by a queued task. *)
(* Requests are POSTs: the other methods do not parse their bodies.        *)
(***************************************************************************)
EXTENDS Multipart, SequencesExt

CONSTANTS
    Messages,       \* the messages a client may send
    Triggers,       \* m_TRIGMode: 0 (level) and 1 (edge)
    MaxRecvs,       \* ET_READ_EVENT_MAX_RECVS
    TlsBuffer       \* m_file_send_buf.size()

VARIABLES
    d,              \* the message
    arrived,        \* tokens of it that the kernel has received
    taken,          \* tokens of it that recv returned
    trig,           \* m_TRIGMode
    p,              \* the parser's state
    fresh,          \* m_has_new_data
    armed,          \* epoll reports the descriptor (EPOLLONESHOT) when there is something to read
    task,           \* calls of process() that are queued
    recvs,          \* recvs_this_event; -1 outside read_once
    outcome,        \* what the request was found to be, once process_read decides
    reply,          \* the answer: its kind, and what is still to be sent
    out,            \* what the client was sent
    pc              \* "open", "writing", "done", "closed"

vars == <<d, armed, arrived, taken, trig, p, fresh, task, recvs, outcome, reply, out, pc>>

\* d.parts # <<>> makes the body a multipart one.  A chunked body is cut into
\* chunks of d.chunk bytes.  d.host: where Host is, "no", "first" or "last".
Part(x) == <<<<"part", x.name, x.isFile>>>> \o CRLF \o CRLF \o x.value \o Delimiter
MultipartBody(parts) ==
    <<Dash, Dash, Boundary>> \o CRLF
    \o FlattenSeq([i \in DOMAIN parts |-> Part(parts[i]) \o IF i = Len(parts) THEN <<Dash, Dash>> ELSE CRLF]) \o CRLF
Body(m) == IF m.parts = <<>> THEN m.text ELSE MultipartBody(m.parts)

Lines(m) ==
    <<<<m.version>>>>
    \o (IF m.host = "first" THEN <<<<"Host">>>> ELSE <<>>)
    \o (IF m.linger THEN <<>> ELSE <<<<"Connection", "close">>>>)
    \o (IF m.framing \in {"length", "both"} THEN <<<<"Content-Length", Len(Body(m))>>>> ELSE <<>>)
    \o (IF m.framing \in {"chunked", "both"} THEN <<<<"Transfer-Encoding", "chunked">>>> ELSE <<>>)
    \o (IF m.parts # <<>> THEN <<<<"Content-Type", "multipart">>>> ELSE <<>>)
    \o (IF m.host = "last" THEN <<<<"Host">>>> ELSE <<>>)

RECURSIVE Chunks(_, _)
Chunks(s, n) ==
    LET k == Smaller(n, Len(s))
    IN  IF s = <<>> THEN <<<<"size", 0>>>> \o CRLF \o CRLF
        ELSE <<<<"size", k>>>> \o CRLF \o SubSeq(s, 1, k) \o CRLF \o Chunks(Drop(s, k), n)

Encoded(m) ==
    FlattenSeq([i \in DOMAIN Lines(m) |-> <<Lines(m)[i]>> \o CRLF]) \o CRLF
    \o (IF m.framing = "chunked" THEN Chunks(Body(m), m.chunk) ELSE Body(m))

Encodings == [m \in Messages |-> Encoded(m)]
Wire == Encodings[d]
-----------------------------------------------------------------------------
(***************************************************************************)
(* The client and the storage                                              *)
(***************************************************************************)
Arrive ==
    /\ pc = "open" /\ arrived < Len(Wire)
    /\ arrived' = arrived + 1
    /\ UNCHANGED <<d, armed, taken, trig, p, fresh, task, recvs, outcome, reply, out, pc>>

DiskFails ==
    /\ p.disk /\ d.parts # <<>> /\ pc = "open"
    /\ p' = [p EXCEPT !.disk = FALSE]
    /\ UNCHANGED <<d, armed, arrived, taken, trig, fresh, task, recvs, outcome, reply, out, pc>>
-----------------------------------------------------------------------------
(***************************************************************************)
(* Ending a request                                                        *)
(***************************************************************************)
\* A plausible slip: only the spooled body is removed.
CleanupBodyOnly(q) == [q EXCEPT !.files = @ \ {"body"}, !.spool = "none", !.m_upload_tmp_path = FALSE]

cleanup_temp_upload_state(q) ==
    [q EXCEPT !.files = @ \ ((IF q.spool # "none" THEN {"body"} ELSE {})
                             \cup (IF q.m_upload_tmp_path THEN {"upload"} ELSE {})),
              !.spool = "none", !.spooled = <<>>, !.m_upload_tmp_path = FALSE]

\* close_conn_locked: the reactor closes on an error, a hang-up or a timeout.
close_conn_locked ==
    /\ p' = cleanup_temp_upload_state(p)
    /\ pc' = "closed"
    /\ task' = 0
    /\ recvs' = -1

HangUp ==
    /\ pc \in {"open", "writing"} /\ recvs = -1
    /\ close_conn_locked
    /\ UNCHANGED <<d, armed, arrived, taken, trig, fresh, outcome, reply, out>>
-----------------------------------------------------------------------------
(***************************************************************************)
(* Reading                                                                 *)
(***************************************************************************)
\* Has recvs = 0 ... MaxRecvs while read_once runs, which holds the lock.
Reading == pc = "open" /\ recvs >= 0
Full == ring_writable(p) = 0

read_once ==
    /\ pc = "open" /\ recvs = -1 /\ armed /\ taken < arrived
    /\ armed' = FALSE
    /\ \/ /\ ~Full \/ CanGrow(p)
          /\ p' = IF Full THEN ensure_read_capacity(p) ELSE p
          /\ fresh' = FALSE
          /\ recvs' = 0
          /\ UNCHANGED <<task, pc>>
       \/ /\ Full /\ ~CanGrow(p)
          /\ close_conn_locked
          /\ UNCHANGED fresh
    /\ UNCHANGED <<d, arrived, taken, trig, outcome, reply, out>>

\* The bytes a recv returns; a spooled body goes to its file at once.
Received ==
    LET n == Smaller(ring_writable(p), arrived - taken)
    IN  flush_streamed_body_from_read_buffer([p EXCEPT !.buf = @ \o SubSeq(Wire, taken + 1, taken + n)])

\* dealwithread appends the task when read_once returns true.
ReadReturns(q, new) ==
    /\ p' = q
    /\ fresh' = new
    /\ task' = task + 1
    /\ recvs' = -1
    /\ UNCHANGED pc

ring_recv ==
    /\ Reading /\ ~Full /\ taken < arrived
    /\ taken' = taken + Smaller(ring_writable(p), arrived - taken)
    /\ \/ /\ Received.code # "NO_REQUEST"
          /\ close_conn_locked
          /\ UNCHANGED fresh
       \/ /\ Received.code = "NO_REQUEST"
          /\ trig = 1 /\ recvs + 1 >= MaxRecvs
          /\ ReadReturns(Received, TRUE)
       \/ /\ Received.code = "NO_REQUEST"
          /\ trig = 0 \/ recvs + 1 < MaxRecvs
          /\ p' = Received
          /\ fresh' = TRUE
          /\ recvs' = IF trig = 1 THEN recvs + 1 ELSE recvs
          /\ UNCHANGED <<task, pc>>
    /\ UNCHANGED <<d, armed, arrived, trig, outcome, reply, out>>

WouldBlock ==
    /\ Reading /\ ~Full /\ taken = arrived
    /\ ReadReturns(p, fresh)
    /\ UNCHANGED <<d, armed, arrived, taken, trig, outcome, reply, out>>

\* Level-triggered: ring_recv of a full ring returns -1 and leaves errno as some
\* earlier call set it, which read_once then tests.
StaleErrno ==
    /\ Reading /\ Full /\ trig = 0
    /\ \/ ReadReturns([p EXCEPT !.undefined = TRUE], fresh)              \* EAGAIN
       \/ /\ p' = [p EXCEPT !.undefined = TRUE]                         \* EINTR, for ever
          /\ UNCHANGED <<fresh, task, recvs, pc>>
       \/ /\ close_conn_locked
          /\ UNCHANGED fresh
    /\ UNCHANGED <<d, armed, arrived, taken, trig, outcome, reply, out>>

Grow ==
    /\ Reading /\ Full /\ trig = 1 /\ CanGrow(p)
    /\ p' = ensure_read_capacity(p)
    /\ UNCHANGED <<d, armed, arrived, taken, trig, fresh, task, recvs, outcome, reply, out, pc>>

\* At READ_BUFFER_MAX_SIZE read_once_et parses the head itself, and goes on
\* reading if a body that is being spooled follows; it closes otherwise.
ProbeFullBuffer ==
    /\ Reading /\ Full /\ trig = 1 /\ ~CanGrow(p)
    /\ LET q == IF p.m_check_state # "CONTENT" THEN process_read(p) ELSE flush_streamed_body_from_read_buffer(p)
       IN  \/ /\ q.code = "NO_REQUEST" /\ q.spool = "open" /\ q.m_check_state = "CONTENT"
              /\ p' = q
              /\ UNCHANGED <<task, recvs, pc>>
           \/ /\ ~(q.code = "NO_REQUEST" /\ q.spool = "open" /\ q.m_check_state = "CONTENT")
              /\ close_conn_locked
    /\ UNCHANGED <<d, armed, arrived, taken, trig, fresh, outcome, reply, out>>
-----------------------------------------------------------------------------
(***************************************************************************)
(* Processing                                                              *)
(***************************************************************************)
StatusOf(code) ==
    CASE code = "BAD_REQUEST" -> 400 [] code = "PAYLOAD_TOO_LARGE" -> 413 [] code = "INTERNAL_ERROR" -> 500

Plain(status, body) == [status |-> status, body |-> body, fields |-> {}, file |-> <<>>]

\* parse_post_body, as do_request calls it: what the handler is given, or the
\* status of the error.  Without the disk the upload's own file cannot be opened
\* (500) or written (400).
parse_post_body(q) ==
    LET result == parse_spooled_multipart(q.spooled)
    IN  IF q.spool = "none" THEN {Plain(200, q.m_request_body)}
        ELSE IF q.disk \/ result.status # 200
             THEN {[status |-> result.status, body |-> <<>>, fields |-> result.fields, file |-> result.file]}
        ELSE {Plain(400, <<>>), Plain(500, <<>>)}

\* The spool file goes once it is parsed; the upload's temporary file stays for
\* the handler.  An error leaves the spool file to the cleanup.
parse_multipart_form_data_from_file(q, result) ==
    IF q.spool = "none" THEN q
    ELSE IF result.status # 200 THEN [q EXCEPT !.spool = "closed"]
    ELSE [q EXCEPT !.spool = "none", !.spooled = <<>>, !.files = {"upload"}, !.m_upload_tmp_path = TRUE]

\* handle_request, then release_consumed_temp_uploads: the handler may have
\* moved the upload into the store.
release_consumed_temp_uploads(q, moved) ==
    IF q.m_upload_tmp_path /\ moved THEN [q EXCEPT !.files = {}, !.m_upload_tmp_path = FALSE] ELSE q

HeadBytes == <<"head">>
Answer(kind) == IF kind = "memory" THEN <<HeadBytes, <<"body">>>> ELSE <<HeadBytes, <<"f1">>, <<"f2">>, <<"f3">>>>

\* ring: m_write_ring; file: what follows m_file_offset; buffer: m_file_send_buf
\* from m_file_send_offset on.
process_write(kind, tls) ==
    [kind |-> kind, tls |-> tls, bytes_to_send |-> Len(Answer(kind)), buffer |-> <<>>,
     ring |-> IF kind = "memory" THEN Answer(kind) ELSE <<HeadBytes>>,
     file |-> IF kind = "memory" THEN <<>> ELSE Tail(Answer(kind))]

NoReply == [process_write("memory", FALSE) EXCEPT !.bytes_to_send = 0, !.ring = <<>>]

\* A task queued earlier, perhaps for another connection on the descriptor, finds
\* no new data, or the answer being sent, and only re-arms the descriptor.
ProcessNothing ==
    /\ task > 0 /\ recvs = -1
    /\ pc = "writing" \/ (pc = "open" /\ ~fresh)
    /\ task' = task - 1
    /\ armed' = TRUE
    /\ UNCHANGED <<d, arrived, taken, trig, p, fresh, recvs, outcome, reply, out, pc>>

ProcessWaits(q) ==
    /\ q.code = "NO_REQUEST"
    /\ p' = [q EXCEPT !.freed = "other"]
    /\ UNCHANGED <<outcome, reply, pc>>

\* do_request or the error, reset_request_parser_state and process_write.
ProcessAnswers(q) ==
    /\ q.code # "NO_REQUEST"
    /\ outcome' \in IF q.code = "GET_REQUEST" THEN parse_post_body(q) ELSE {Plain(StatusOf(q.code), <<>>)}
    /\ \E moved, tls \in BOOLEAN, kind \in {"memory", "file"} :
         LET parsed == IF q.code = "GET_REQUEST" THEN parse_multipart_form_data_from_file(q, outcome') ELSE q
             left == release_consumed_temp_uploads(parsed, moved)
         IN  /\ kind = "file" => outcome'.status = 200
             /\ p' = [NewRequest EXCEPT
                        !.files = left.files, !.spool = left.spool, !.m_upload_tmp_path = left.m_upload_tmp_path,
                        !.m_linger = q.m_linger, !.undefined = q.undefined, !.disk = q.disk]
             /\ reply' = process_write(kind, tls)
    /\ pc' = "writing"

process ==
    /\ task > 0 /\ pc = "open" /\ recvs = -1 /\ fresh
    /\ task' = task - 1
    /\ armed' = TRUE
    /\ fresh' = FALSE
    /\ \E freed \in {"NUL", "other"} :
         LET q == process_read([p EXCEPT !.freed = freed]) IN ProcessWaits(q) \/ ProcessAnswers(q)
    /\ UNCHANGED <<d, arrived, taken, trig, recvs, out>>
-----------------------------------------------------------------------------
(***************************************************************************)
(* Writing                                                                 *)
(***************************************************************************)
\* bytes are what a send took of the answer; r what is left.  finish_write_cycle
\* follows the last byte: init() keeps the connection, close_conn does not.
Sent(bytes, r) ==
    /\ out' = out \o bytes
    /\ reply' = [r EXCEPT !.bytes_to_send = @ - Len(bytes)]
    /\ IF reply'.bytes_to_send <= 0
       THEN pc' = "done" /\ p' = cleanup_temp_upload_state(p)
       ELSE UNCHANGED <<pc, p>>
    /\ UNCHANGED <<d, armed, arrived, taken, trig, fresh, task, recvs, outcome>>

ring_send(k) ==
    /\ pc = "writing" /\ k <= Len(reply.ring)
    /\ Sent(SubSeq(reply.ring, 1, k), [reply EXCEPT !.ring = Drop(@, k)])

sendfile(k) ==
    /\ pc = "writing" /\ reply.ring = <<>> /\ ~reply.tls
    /\ k <= Smaller(Len(reply.file), reply.bytes_to_send)
    /\ Sent(SubSeq(reply.file, 1, k), [reply EXCEPT !.file = Drop(@, k)])

\* A plausible slip: what SSL_write did not take of the buffer is given up.
TlsDropsRest(k) ==
    LET loaded == SubSeq(reply.file, 1, Smaller(TlsBuffer, Len(reply.file)))
    IN  /\ pc = "writing" /\ reply.ring = <<>> /\ reply.tls
        /\ k <= Len(loaded)
        /\ Sent(SubSeq(loaded, 1, k), [reply EXCEPT !.file = Drop(@, Len(loaded))])

send_file_over_tls(k) ==
    LET load == reply.buffer = <<>>
        n == Smaller(TlsBuffer, Len(reply.file))
        loaded == IF load THEN SubSeq(reply.file, 1, n) ELSE reply.buffer
    IN  /\ pc = "writing" /\ reply.ring = <<>> /\ reply.tls
        /\ k <= Len(loaded)
        /\ Sent(SubSeq(loaded, 1, k),
                [reply EXCEPT !.file = IF load THEN Drop(@, n) ELSE @, !.buffer = Drop(loaded, k)])
-----------------------------------------------------------------------------
\* A task for the connection the descriptor had before may still be queued.
Init ==
    /\ d \in Messages /\ trig \in Triggers
    /\ arrived = 0 /\ taken = 0
    /\ p = NewRequest
    /\ armed = TRUE /\ fresh = FALSE /\ task \in {0, 1} /\ recvs = -1
    /\ outcome = Plain(0, <<>>) /\ reply = NoReply /\ out = <<>>
    /\ pc = "open"

Reads == read_once \/ ring_recv \/ WouldBlock \/ StaleErrno \/ Grow \/ ProbeFullBuffer
Processes == ProcessNothing \/ process
Writes == \E k \in 1..3 : ring_send(k) \/ sendfile(k) \/ send_file_over_tls(k)

Next == Arrive \/ DiskFails \/ HangUp \/ Reads \/ Processes \/ Writes

Spec == Init /\ [][Next]_vars
-----------------------------------------------------------------------------
\* What a message is, told from its description alone.
WellFormed(m) == m.version \in {"HTTP/1.1", "HTTP/1.0"} /\ m.framing # "both" /\ (m.version = "HTTP/1.1" => m.host # "no")

\* What is wrong with part i, given the parts before it.
PartStatus(parts, i) ==
    IF parts[i].isFile /\ \E j \in 1..(i - 1) : parts[j].isFile THEN 400
    ELSE IF Len(parts[i].value) > (IF parts[i].isFile THEN UploadMax ELSE FieldLimit) THEN 413
    ELSE IF parts[i].isFile /\ parts[i].value = <<>> THEN 400
    ELSE 200

ExpectedParts(parts) ==
    LET wrong == {i \in DOMAIN parts : PartStatus(parts, i) # 200}
        files == {i \in DOMAIN parts : parts[i].isFile}
        value(i) == IF parts[i].isFile THEN Filename ELSE parts[i].value
    IN  IF wrong # {} THEN Plain(PartStatus(parts, Min(wrong)), <<>>)
        ELSE IF files = {} THEN Plain(400, <<>>)
        ELSE [status |-> 200, body |-> <<>>, file |-> parts[Min(files)].value,
              fields |-> {<<parts[i].name, value(i)>> : i \in DOMAIN parts}]

Expected(m) ==
    IF ~WellFormed(m) THEN Plain(400, <<>>)
    ELSE IF m.parts = <<>> THEN Plain(200, m.text)
    ELSE IF Len(Body(m)) > BodyLimit THEN Plain(413, <<>>)
    ELSE ExpectedParts(m.parts)

\* However the bytes of a request are cut into segments, recvs, tasks, chunks and
\* pieces of the spool file (read_once, process_read, parse_spooled_multipart), the
\* handler is given the body, the fields and the file that were sent, or the
\* client the error its request deserves; a disk that fails gives an error too.
DeliveredAsSent ==
    outcome.status # 0 /\ ~p.undefined =>
        \/ outcome = Expected(d)
        \/ ~p.disk /\ outcome.status \in {400, 500}

\* The client is sent the head and the content of the answer once each and in
\* order, whatever send, sendfile and SSL_write take at a time (write).
SentWhole ==
    /\ IsPrefix(out, Answer(reply.kind))
    /\ pc = "done" => out = Answer(reply.kind)

\* No temporary file outlives its request: not an upload that failed half way,
\* a connection that was closed, or a request that was answered
\* (cleanup_temp_upload_state in init and close_conn_locked).
TempFilesRemoved == pc \in {"done", "closed"} => p.files = {}

\* A step of read_once_et at READ_BUFFER_MAX_SIZE that changes nothing, and so is
\* repeated for ever.
Spinning ==
    /\ Reading /\ Full /\ trig = 1 /\ ~CanGrow(p)
    /\ p.m_check_state = "CONTENT" /\ p.spool = "open"
    /\ flush_streamed_body_from_read_buffer(p) = p

\* A request that has arrived as a whole is not left lying: as long as it is not
\* decided there is an event to come, a read that gets on, or a queued task that
\* will find new data or re-arm the descriptor for what is left.  (read_once
\* resets m_has_new_data, which process tests, and both go on only while bytes
\* move.)
NothingStranded ==
    pc = "open" /\ arrived = Len(Wire) /\ ~p.undefined =>
        \/ recvs = -1 /\ task > 0 /\ (fresh \/ taken < arrived)
        \/ recvs = -1 /\ armed /\ taken < arrived
        \/ Reading /\ ~Spinning
=============================================================================
