----------------------------- MODULE HttpParser -----------------------------
(***************************************************************************)
(* http/core/parser.cpp with the buffer handling of io.cpp it relies on    *)
(* and the spooling of bodies in http/files/file_response.cpp.             *)
(*                                                                         *)
(* A byte string is a sequence of tokens.  The text of a line of the head  *)
(* or of a chunk-size line is one token; CR and LF are tokens, and a token *)
(* of a body is a byte.  p is the parser's part of HttpConnection.  What   *)
(* m_read_buf holds is what m_read_ring holds, in order: p.buf.  The line  *)
(* ends that parse_line overwrites with NUL come back with the next        *)
(* sync_read_buffer and are not read again.                                *)
(***************************************************************************)
EXTENDS Integers, Sequences, FiniteSets, FiniteSetsExt

CONSTANTS
    InitialSize,    \* READ_BUFFER_INITIAL_SIZE
    MaxSize,        \* READ_BUFFER_MAX_SIZE
    BodyLimit       \* m_upload_max_bytes + m_upload_request_overhead_bytes

CR == <<"CR">>
LF == <<"LF">>
CRLF == <<CR, LF>>

\* HttpConnection::init.  m_host points into m_read_buf: "set", or "dangling"
\* once that vector has been reallocated.
NewRequest ==
    [buf |-> <<>>, capacity |-> InitialSize, m_checked_idx |-> 0, m_start_line |-> 0,
     m_body_start_idx |-> 0, m_check_state |-> "REQUESTLINE", line |-> "OK", code |-> "NO_REQUEST",
     m_is_http_1_1 |-> FALSE, m_host |-> "null", m_linger |-> FALSE, multipart |-> FALSE,
     m_content_length |-> 0, m_content_length_seen |-> FALSE, m_chunked |-> FALSE,
     m_chunk_state |-> "SIZE", m_chunked_parse_idx |-> 0, m_chunk_size |-> 0, m_chunk_bytes_read |-> 0,
     m_request_body |-> <<>>, spool |-> "none", spooled |-> <<>>, files |-> {}, m_upload_tmp_path |-> FALSE,
     disk |-> TRUE, freed |-> "other", undefined |-> FALSE]

\* Where pattern s occurs in t, after position from.
Found(t, s, from) == {i \in (from + 1)..(Len(t) - Len(s) + 1) : SubSeq(t, i, i + Len(s) - 1) = s}

Drop(t, n) == SubSeq(t, n + 1, Len(t))
Smaller(m, n) == IF m < n THEN m ELSE n
-----------------------------------------------------------------------------
(***************************************************************************)
(* The buffer                                                              *)
(***************************************************************************)
ring_writable(p) == p.capacity - Len(p.buf)

CanGrow(p) == p.capacity * 2 <= MaxSize

\* m_read_buf.assign moves the text that m_host points to.
ensure_read_capacity(p) ==
    [p EXCEPT !.capacity = @ * 2, !.m_host = IF @ = "set" THEN "dangling" ELSE @]

compact_read_buffer_prefix(p, n) ==
    IF n <= 0 THEN p
    ELSE [p EXCEPT !.buf = Drop(@, n), !.m_checked_idx = 0, !.m_body_start_idx = 0, !.m_start_line = 0]

\* p.disk: the storage accepts what is written.
begin_streamed_body_capture(p) ==
    IF p.disk THEN [p EXCEPT !.spool = "open", !.files = @ \cup {"body"}, !.spooled = <<>>, !.m_request_body = <<>>]
    ELSE [p EXCEPT !.code = "INTERNAL_ERROR"]

append_streamed_body_chunk(p, data) ==
    LET limit == IF p.m_chunked THEN BodyLimit ELSE p.m_content_length
    IN  IF Len(p.spooled) + Len(data) > limit
        THEN [p EXCEPT !.code = IF p.m_chunked THEN "PAYLOAD_TOO_LARGE" ELSE "BAD_REQUEST"]
        ELSE IF ~p.disk THEN [p EXCEPT !.code = "INTERNAL_ERROR"]
        ELSE [p EXCEPT !.spooled = @ \o data]

reset_streamed_body_buffer(p) ==
    [p EXCEPT !.buf = <<>>, !.m_checked_idx = 0, !.m_body_start_idx = 0, !.m_start_line = 0]

\* What is in the buffer of a body of known length goes to the spool file.
Spool(p) ==
    LET n == Smaller(Len(p.buf) - p.m_body_start_idx, p.m_content_length - Len(p.spooled))
        q == append_streamed_body_chunk(p, SubSeq(p.buf, p.m_body_start_idx + 1, p.m_body_start_idx + n))
    IN  IF n <= 0 THEN p
        ELSE IF q.code # "NO_REQUEST" THEN q
        ELSE reset_streamed_body_buffer(q)

\* The code stays NO_REQUEST where the function returns true.
flush_streamed_body_from_read_buffer(p) ==
    IF p.spool = "open" /\ p.m_check_state = "CONTENT" THEN Spool(p) ELSE p
-----------------------------------------------------------------------------
(***************************************************************************)
(* The head                                                                *)
(***************************************************************************)
\* A plausible slip: the CR at the end of the buffer is not looked at again.
ParseLineSkipsCr(p) ==
    LET stops == {i \in (p.m_checked_idx + 1)..Len(p.buf) : p.buf[i] \in {CR, LF}}
        i == Min(stops)
    IN  IF stops = {} \/ (p.buf[i] = CR /\ i = Len(p.buf))
        THEN [p EXCEPT !.m_checked_idx = Len(p.buf), !.line = "OPEN"]
        ELSE IF p.buf[i] = CR /\ p.buf[i + 1] = LF THEN [p EXCEPT !.m_checked_idx = i + 1, !.line = "OK"]
        ELSE [p EXCEPT !.m_checked_idx = i - 1, !.line = "BAD"]

\* A CR at the end of the buffer is looked at again.
parse_line(p) ==
    LET stops == {i \in (p.m_checked_idx + 1)..Len(p.buf) : p.buf[i] \in {CR, LF}}
        i == Min(stops)
    IN  IF stops = {} THEN [p EXCEPT !.m_checked_idx = Len(p.buf), !.line = "OPEN"]
        ELSE IF p.buf[i] = CR /\ i = Len(p.buf) THEN [p EXCEPT !.m_checked_idx = i - 1, !.line = "OPEN"]
        ELSE IF p.buf[i] = CR /\ p.buf[i + 1] = LF THEN [p EXCEPT !.m_checked_idx = i + 1, !.line = "OK"]
        ELSE [p EXCEPT !.m_checked_idx = i - 1, !.line = "BAD"]

parse_request_line(p, text) ==
    IF text \in {<<<<"HTTP/1.1">>>>, <<<<"HTTP/1.0">>>>}
    THEN [p EXCEPT !.m_is_http_1_1 = (text = <<<<"HTTP/1.1">>>>), !.m_linger = (text = <<<<"HTTP/1.1">>>>),
                   !.m_check_state = "HEADER", !.code = "NO_REQUEST"]
    ELSE [p EXCEPT !.code = "BAD_REQUEST"]

\* m_host[0] is read through a pointer that may be stale.
HostMissing(p) == p.m_host = "null" \/ (p.m_host = "dangling" /\ p.freed = "NUL")

EndOfHeaders(q) ==
    LET p == [q EXCEPT !.undefined = @ \/ (q.m_is_http_1_1 /\ q.m_host = "dangling")]
        content == [p EXCEPT !.m_check_state = "CONTENT", !.m_body_start_idx = p.m_checked_idx,
                             !.m_chunked_parse_idx = IF p.m_chunked THEN p.m_checked_idx ELSE @,
                             !.code = "NO_REQUEST"]
    IN  IF p.m_is_http_1_1 /\ HostMissing(p) THEN [p EXCEPT !.code = "BAD_REQUEST"]
        ELSE IF p.m_chunked /\ p.m_content_length_seen THEN [p EXCEPT !.code = "BAD_REQUEST"]
        ELSE IF ~p.m_chunked /\ p.m_content_length = 0 THEN [p EXCEPT !.code = "GET_REQUEST"]
        ELSE IF p.multipart /\ ~p.m_chunked /\ p.m_content_length > BodyLimit
             THEN [p EXCEPT !.code = "PAYLOAD_TOO_LARGE"]
        ELSE IF p.multipart THEN begin_streamed_body_capture(content)
        ELSE content

parse_headers(p, text) ==
    LET header == text[1]
        q == [p EXCEPT !.code = "NO_REQUEST"]
    IN  IF text = <<>> THEN EndOfHeaders(p)
        ELSE IF header = <<"Connection", "close">> THEN [q EXCEPT !.m_linger = FALSE]
        ELSE IF header[1] = "Content-Length"
             THEN [q EXCEPT !.m_content_length_seen = TRUE, !.m_content_length = header[2],
                            !.code = IF header[2] < 0 THEN "BAD_REQUEST" ELSE "NO_REQUEST"]
        ELSE IF header[1] = "Host" THEN [q EXCEPT !.m_host = "set"]
        ELSE IF header = <<"Content-Type", "multipart">> THEN [q EXCEPT !.multipart = TRUE]
        ELSE IF header = <<"Transfer-Encoding", "chunked">> THEN [q EXCEPT !.m_chunked = TRUE]
        ELSE q
-----------------------------------------------------------------------------
(***************************************************************************)
(* The body                                                                *)
(***************************************************************************)
append_decoded_body_chunk(p, data) ==
    IF p.spool = "open" THEN append_streamed_body_chunk([p EXCEPT !.code = "NO_REQUEST"], data)
    ELSE IF Len(p.m_request_body) + Len(data) > MaxSize THEN [p EXCEPT !.code = "PAYLOAD_TOO_LARGE"]
    ELSE [p EXCEPT !.m_request_body = @ \o data, !.code = "NO_REQUEST"]

\* The rest has not arrived: what is done with is removed from the buffer.
NeedMore(p) ==
    [compact_read_buffer_prefix(p, p.m_chunked_parse_idx) EXCEPT !.m_chunked_parse_idx = 0, !.code = "NO_REQUEST"]

ChunkCrlf(p) ==
    IF Len(p.buf) - p.m_chunked_parse_idx < 2 THEN [p EXCEPT !.m_chunk_state = "WAIT"]
    ELSE IF SubSeq(p.buf, p.m_chunked_parse_idx + 1, p.m_chunked_parse_idx + 2) # CRLF
         THEN [p EXCEPT !.code = "BAD_REQUEST"]
    ELSE [p EXCEPT !.m_chunked_parse_idx = @ + 2, !.m_chunk_state = "SIZE"]

RECURSIVE parse_chunked_content(_)
parse_chunked_content(p) ==
    LET rest == Drop(p.buf, p.m_chunked_parse_idx)
        ends == Found(rest, CRLF, 0)
        line == SubSeq(rest, 1, Min(ends) - 1)
        next == p.m_chunked_parse_idx + Min(ends) + 1
        n == Smaller(Len(rest), p.m_chunk_size - p.m_chunk_bytes_read)
        appended == append_decoded_body_chunk(p, SubSeq(rest, 1, n))
        counted == [appended EXCEPT !.m_chunked_parse_idx = @ + n, !.m_chunk_bytes_read = @ + n]
        crlf == ChunkCrlf(p)
    IN  IF rest = <<>> THEN NeedMore(p)
        ELSE CASE p.m_chunk_state = "SIZE" ->
                  IF ends = {} THEN NeedMore(p)
                  ELSE IF Len(line) # 1 \/ line[1][1] # "size" THEN [p EXCEPT !.code = "BAD_REQUEST"]
                  ELSE parse_chunked_content(
                          [p EXCEPT !.m_chunked_parse_idx = next, !.m_chunk_bytes_read = 0,
                                    !.m_chunk_size = line[1][2],
                                    !.m_chunk_state = IF line[1][2] = 0 THEN "TRAILER" ELSE "DATA"])
               [] p.m_chunk_state = "DATA" ->
                  IF appended.code # "NO_REQUEST" THEN appended
                  ELSE IF counted.m_chunk_bytes_read < p.m_chunk_size THEN NeedMore(counted)
                  ELSE parse_chunked_content([counted EXCEPT !.m_chunk_state = "DATA_CRLF"])
               [] p.m_chunk_state = "DATA_CRLF" ->
                  IF crlf.m_chunk_state = "WAIT" THEN NeedMore(p)
                  ELSE IF crlf.code = "BAD_REQUEST" THEN crlf
                  ELSE parse_chunked_content(crlf)
               [] p.m_chunk_state = "TRAILER" ->
                  IF ends = {} THEN NeedMore(p)
                  ELSE IF line = <<>> THEN [p EXCEPT !.m_chunked_parse_idx = next, !.m_chunk_state = "DONE",
                                                     !.code = "GET_REQUEST"]
                  ELSE parse_chunked_content([p EXCEPT !.m_chunked_parse_idx = next])

\* Spool never exceeds the length, so only the disk can fail.
parse_content(p) ==
    LET q == Spool(p)
        last == p.m_body_start_idx + p.m_content_length
    IN  IF p.m_chunked THEN parse_chunked_content([p EXCEPT !.code = "NO_REQUEST"])
        ELSE IF p.spool = "open"
             THEN [q EXCEPT !.code = IF q.code # "NO_REQUEST" THEN "INTERNAL_ERROR"
                                     ELSE IF Len(q.spooled) >= p.m_content_length THEN "GET_REQUEST"
                                     ELSE "NO_REQUEST"]
        ELSE IF Len(p.buf) >= last
             THEN [p EXCEPT !.code = "GET_REQUEST", !.m_request_body = SubSeq(p.buf, p.m_body_start_idx + 1, last)]
        ELSE [p EXCEPT !.code = "NO_REQUEST"]

\* Up to do_request.  A bad line, like an open one, ends the loop with NO_REQUEST.
\* After an incomplete body the loop goes on to look for line ends in it, which
\* changes nothing that is read before the next sync_read_buffer.
RECURSIVE process_read(_)
process_read(p) ==
    LET q == parse_line(p)
        text == SubSeq(q.buf, q.m_start_line + 1, q.m_checked_idx - 2)
        at == [q EXCEPT !.m_start_line = q.m_checked_idx]
        r == IF p.m_check_state = "REQUESTLINE" THEN parse_request_line(at, text)
             ELSE parse_headers(at, text)
    IN  IF p.m_check_state = "CONTENT" THEN parse_content(p)
        ELSE IF q.line # "OK" THEN [q EXCEPT !.code = "NO_REQUEST"]
        ELSE IF r.code # "NO_REQUEST" THEN r
        ELSE process_read(r)
=============================================================================
