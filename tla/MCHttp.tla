------------------------------- MODULE MCHttp -------------------------------
(***************************************************************************)
(* Messages for HttpConnection: every framing, heads that are refused,     *)
(* and uploads whose content looks like the beginning of a delimiter.      *)
(***************************************************************************)
EXTENDS HttpConnection

X == <<"x">>
Y == <<"y">>

Message == [version |-> "HTTP/1.1", host |-> "first", linger |-> TRUE, framing |-> "none",
            text |-> <<>>, parts |-> <<>>, chunk |-> 1]

File(value) == [name |-> "file", isFile |-> TRUE, value |-> value]
Field(value) == [name |-> "note", isFile |-> FALSE, value |-> value]

Heads ==
    {[Message EXCEPT !.version = v, !.host = h, !.linger = l] :
        v \in {"HTTP/1.1", "HTTP/1.0", "HTTP/2"}, h \in {"no", "last"}, l \in BOOLEAN}
    \cup {[Message EXCEPT !.framing = "both"]}

Bodies ==
    {[Message EXCEPT !.framing = "length", !.text = t] : t \in {<<X>>, <<X, CR, LF, Y>>}}
    \cup {[Message EXCEPT !.framing = "chunked", !.text = t, !.chunk = n] :
            t \in {<<>>, <<X, CR, LF, Y>>}, n \in {1, 3}}

Contents == {<<>>, <<X>>, <<CR, LF, Dash, Dash>>, <<CR, CR, LF, Y>>, <<X, Y, X, Y, X>>}

Uploads ==
    {[Message EXCEPT !.framing = "length", !.parts = <<File(c)>>] : c \in Contents}
    \cup {[Message EXCEPT !.framing = "length", !.parts = ps] :
            ps \in {<<Field(<<X>>), File(<<Y>>)>>, <<File(<<Y>>), Field(<<CR>>)>>, <<Field(<<X>>)>>,
                    <<Field(<<X, Y, X>>), File(<<Y>>)>>, <<File(<<X>>), File(<<Y>>)>>}}

\* Small enough never to fill the read buffer once its head is parsed.
ChunkedUploads ==
    {[Message EXCEPT !.framing = "chunked", !.version = "HTTP/1.0", !.host = "no",
                     !.parts = <<File(<<X>>)>>, !.chunk = 20]}

MCMessages == Heads \cup Bodies \cup Uploads \cup ChunkedUploads

\* A chunked upload larger than READ_BUFFER_MAX_SIZE, within the upload limit.
MCLargeChunked ==
    {[Message EXCEPT !.framing = "chunked", !.parts = <<Field(<<X>>), File(<<X, Y>>)>>, !.chunk = 9]}
=============================================================================
