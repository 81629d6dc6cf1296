------------------------------ MODULE Multipart ------------------------------
(***************************************************************************)
(* http/files/multipart_parser.cpp: parse_spooled_multipart over a spool   *)
(* file that MultipartTempFileReader reads in pieces of ReadSize, so that  *)
(* a delimiter may straddle two pieces.  The text of a header line is one  *)
(* token: <<"part", name, isFile>> is a Content-Disposition, <<"plain">>   *)
(* a header of another name, <<"broken">> a line without a colon.          *)
(***************************************************************************)
EXTENDS HttpParser

CONSTANTS
    ReadSize,       \* sizeof(chunk) in fill
    FieldLimit,     \* kMultipartTextFieldLimitBytes
    UploadMax       \* m_upload_max_bytes

Dash == <<"-">>
Boundary == <<"B">>
Delimiter == CRLF \o <<Dash, Dash, Boundary>>
Filename == <<<<"filename">>>>

FirstTwo(s) == SubSeq(s, 1, Smaller(2, Len(s)))

\* A reader, with the sink of the part it is in.  status: what the last call
\* returned ("ok", "false", or "none" for consume_delimiter's -1).
Reader(file) ==
    [file |-> file, m_buffer |-> <<>>, m_eof |-> FALSE, status |-> "ok", line |-> <<>>,
     disposition |-> <<>>, value |-> <<>>, limit |-> 0, limit_exceeded |-> FALSE, is_final |-> FALSE]

fill(r) ==
    LET n == Smaller(ReadSize, Len(r.file))
    IN  IF r.m_eof THEN [r EXCEPT !.status = "false"]
        ELSE IF n > 0 THEN [r EXCEPT !.m_buffer = @ \o SubSeq(r.file, 1, n), !.file = Drop(@, n), !.status = "ok"]
        ELSE [r EXCEPT !.m_eof = TRUE, !.status = IF r.m_buffer = <<>> THEN "false" ELSE "ok"]

RECURSIVE read_line(_)
read_line(r) ==
    LET ends == Found(r.m_buffer, CRLF, 0)
        q == fill(r)
    IN  IF ends # {}
        THEN [r EXCEPT !.line = SubSeq(r.m_buffer, 1, Min(ends) - 1), !.m_buffer = Drop(@, Min(ends) + 1),
                       !.status = "ok"]
        ELSE IF q.status = "false" THEN q
        ELSE read_line(q)

RECURSIVE read_headers(_)
read_headers(r) ==
    LET q == read_line(r)
    IN  IF q.status = "false" \/ q.line = <<>> THEN q
        ELSE IF q.line[1] = <<"broken">> THEN [q EXCEPT !.status = "false"]
        ELSE read_headers([q EXCEPT !.disposition = IF q.line[1][1] = "part" THEN q.line[1] ELSE @])

\* MultipartTextSink::write and FileSha256Sink::write.
SinkWrite(r, n) ==
    IF Len(r.value) + n > r.limit THEN [r EXCEPT !.limit_exceeded = TRUE, !.status = "false"]
    ELSE [r EXCEPT !.value = @ \o SubSeq(r.m_buffer, 1, n), !.m_buffer = Drop(@, n), !.status = "ok"]

RECURSIVE FillTwo(_)
FillTwo(r) == IF Len(r.m_buffer) < 2 /\ ~r.m_eof THEN FillTwo(fill(r)) ELSE r

\* The final delimiter's CR LF is optional.
FinalPart(r) ==
    LET q == [r EXCEPT !.m_buffer = Drop(@, 2), !.is_final = TRUE]
        s == IF Len(q.m_buffer) < 2 /\ ~q.m_eof THEN fill(q) ELSE q
    IN  [s EXCEPT !.m_buffer = IF FirstTwo(@) = CRLF THEN Drop(@, 2) ELSE @, !.status = "ok"]

consume_delimiter(r) ==
    LET found == Found(r.m_buffer, Delimiter, 0)
        q == SinkWrite(r, Min(found) - 1)
        s == FillTwo([q EXCEPT !.m_buffer = Drop(@, Len(Delimiter))])
        next == FirstTwo(s.m_buffer)
    IN  IF found = {} THEN [r EXCEPT !.status = "none"]
        ELSE IF q.status = "false" THEN q
        ELSE IF next = <<Dash, Dash>> THEN FinalPart(s)
        ELSE IF next = CRLF THEN [s EXCEPT !.m_buffer = Drop(@, 2), !.is_final = FALSE, !.status = "ok"]
        ELSE [s EXCEPT !.status = "false"]

\* A plausible slip: nothing is held back for a delimiter that has begun.
FlushAll(r) == Len(r.m_buffer)

\* What cannot be the beginning of a delimiter.
Flushable(r) == Len(r.m_buffer) - Len(Delimiter)

RECURSIVE read_part_body(_)
read_part_body(r) ==
    LET first == consume_delimiter(r)
        filled == fill(r)
        second == consume_delimiter(filled)
        flushed == SinkWrite(filled, Flushable(filled))
    IN  IF first.status # "none" THEN first
        ELSE IF r.m_eof \/ (filled.status = "false" /\ filled.m_eof) THEN [filled EXCEPT !.status = "false"]
        ELSE IF second.status # "none" THEN second
        ELSE IF Flushable(filled) <= 0 THEN read_part_body(filled)
        ELSE IF flushed.status = "false" THEN flushed
        ELSE read_part_body(flushed)

Failed(status) == [status |-> status, fields |-> {}, file |-> <<>>]

\* The parts from here on; result has what the earlier ones gave.
RECURSIVE ParseParts(_, _)
ParseParts(r, result) ==
    LET head == read_headers([r EXCEPT !.disposition = <<>>])
        name == head.disposition[2]
        isFile == head.disposition[3]
        body == read_part_body([head EXCEPT !.value = <<>>, !.limit_exceeded = FALSE,
                                            !.limit = IF isFile THEN UploadMax ELSE FieldLimit])
        got == IF isFile THEN [result EXCEPT !.file = body.value, !.fields = @ \cup {<<name, Filename>>}]
               ELSE [result EXCEPT !.fields = {f \in @ : f[1] # name} \cup {<<name, body.value>>}]
    IN  IF r.is_final THEN IF result.file = <<>> THEN Failed(400) ELSE result
        ELSE IF head.status = "false" \/ head.disposition = <<>> THEN Failed(400)
        ELSE IF isFile /\ result.file # <<>> THEN Failed(400)
        ELSE IF body.status = "false" THEN Failed(IF body.limit_exceeded THEN 413 ELSE 400)
        ELSE IF isFile /\ body.value = <<>> THEN Failed(400)
        ELSE ParseParts(body, got)

parse_spooled_multipart(spool) ==
    LET r == read_line(Reader(spool))
    IN  IF r.status = "false" \/ r.line # <<Dash, Dash, Boundary>> THEN Failed(400)
        ELSE ParseParts(r, [status |-> 200, fields |-> {}, file |-> <<>>])
=============================================================================
