------------------------------- MODULE Router -------------------------------
(***************************************************************************)
(* Which controller answers a request: the dispatch of http/router together *)
(* with the checks of the path that the controllers make themselves.       *)
(*                                                                         *)
(* A path is the sequence of its segments.  The router compares whole      *)
(* paths and prefixes, and looks for a substring anywhere behind the       *)
(* prefix; the controllers then parse the rest exactly.  A segment         *)
(* "downloads" stands for one that only begins like a keyword.             *)
(***************************************************************************)
EXTENDS Naturals, Sequences

Methods == {"GET", "POST", "DELETE", "OPTIONS"}
Id == "12"      \* a segment that strtol reads to its end
Word == "x"     \* a segment that is no number
Keywords == {"download", "share", "visibility", "restore", "permanent"}
Segments == Keywords \cup {Id, Word, "downloads"}

\* strstr(path, "/" word): the segments after the first are the ones a slash
\* precedes.
Mentions(rest, word) ==
    \E i \in 2..Len(rest) : rest[i] = word \/ (rest[i] = "downloads" /\ word = "download")

\* strtol(path, &endptr) reads an id and strcmp(endptr, "/" word) is 0.
Exactly(rest, tail) == rest # <<>> /\ rest[1] = Id /\ Tail(rest) = tail

\* A plausible slip: the controllers do not look at the end of the path.
ParsedLoosely(rest, tail, op) == IF rest # <<>> /\ rest[1] = Id THEN op ELSE "BAD_REQUEST"

Parsed(rest, tail, op) == IF Exactly(rest, tail) THEN op ELSE "BAD_REQUEST"

requires_auth(path) == Len(path) > 1 /\ path[1] \in {"private", "drive", "admin"}

handle_api_drive_file_item(method, rest) ==
    IF method = "GET" /\ Mentions(rest, "download")
    THEN Parsed(rest, <<"download">>, "private_file_download")
    ELSE IF method = "POST" /\ Mentions(rest, "share")
    THEN Parsed(rest, <<"share">>, "share_create")
    ELSE IF method = "POST" /\ Mentions(rest, "visibility")
    THEN Parsed(rest, <<"visibility">>, "update_visibility")
    ELSE IF method = "POST" /\ Mentions(rest, "restore")
    THEN Parsed(rest, <<"restore">>, "restore")
    ELSE IF method = "DELETE" /\ Mentions(rest, "permanent")
    THEN Parsed(rest, <<"permanent">>, "remove_permanently")
    ELSE IF method = "DELETE" THEN Parsed(rest, <<>>, "remove")
    ELSE "NOT_IMPLEMENTED"

handle_api_drive_folder_item(method, rest) ==
    IF method = "DELETE" THEN Parsed(rest, <<>>, "drive_folder_delete") ELSE "NOT_IMPLEMENTED"

handle_api_public_file_item(method, rest) ==
    IF method # "GET" THEN "NOT_IMPLEMENTED"
    ELSE IF Mentions(rest, "download") THEN Parsed(rest, <<"download">>, "public_file_download")
    ELSE Parsed(rest, <<>>, "public_file_detail")

\* A share token is one segment of letters and digits.
parse_share_path(rest, download) ==
    IF download THEN Len(rest) = 2 /\ rest[2] = "download" ELSE Len(rest) = 1

handle_api_share_item(method, rest) ==
    LET download == Mentions(rest, "download")
    IN  IF method # "GET" THEN "NOT_IMPLEMENTED"
        ELSE IF ~parse_share_path(rest, download) THEN "BAD_REQUEST"
        ELSE IF download THEN "share_download" ELSE "share_detail"

\* The paths that are compared as a whole: the operation of each method.
WholePath ==
    [login |-> [POST |-> "login"], register |-> [POST |-> "register"], echo |-> [POST |-> "echo"],
     ping |-> [GET |-> "ping"], logout |-> [POST |-> "logout"],
     operations |-> [GET |-> "operation_list", DELETE |-> "operation_clear"],
     public |-> [GET |-> "public_file_list"],
     items |-> [GET |-> "drive_item_list"],
     trash |-> [GET |-> "trash_item_list", DELETE |-> "empty_trash"],
     folders |-> [POST |-> "drive_folder_create"],
     upload |-> [POST |-> "drive_file_upload"], preflight |-> [POST |-> "upload_preflight"]]

Whole(name, method) ==
    IF method \in DOMAIN WholePath[name] THEN WholePath[name][method] ELSE "NOT_IMPLEMENTED"

\* The path after /api/drive/
handle_api_drive_request(method, path) ==
    CASE path \in {<<"items">>, <<"trash">>, <<"folders">>} -> Whole(path[1], method)
      [] path \in {<<"files", "upload">>, <<"files", "preflight">>} -> Whole(path[2], method)
      [] Len(path) > 1 /\ path[1] = "folders" -> handle_api_drive_folder_item(method, Tail(path))
      [] OTHER ->
            IF Len(path) > 1 /\ path[1] = "files"
            THEN handle_api_drive_file_item(method, Tail(path)) ELSE "NOT_IMPLEMENTED"

\* The path after /api/
handle_api_request(method, path) ==
    CASE path \in {<<"login">>, <<"register">>, <<"echo">>} -> Whole(path[1], method)
      [] path \in {<<"private", "ping">>, <<"private", "logout">>, <<"private", "operations">>,
                   <<"files", "public">>} -> Whole(path[2], method)
      [] Len(path) > 2 /\ SubSeq(path, 1, 2) = <<"private", "operations">> ->
            IF method # "DELETE" THEN "NOT_IMPLEMENTED"
            ELSE Parsed(SubSeq(path, 3, Len(path)), <<>>, "operation_remove")
      [] Len(path) > 1 /\ path[1] = "drive" -> handle_api_drive_request(method, Tail(path))
      [] Len(path) > 2 /\ SubSeq(path, 1, 2) = <<"files", "public">> ->
            handle_api_public_file_item(method, SubSeq(path, 3, Len(path)))
      [] Len(path) > 1 /\ path[1] = "share" -> handle_api_share_item(method, Tail(path))
      [] OTHER -> "404"

\* handle_request: OPTIONS first, then authentication, then the dispatch.
handle_request(method, path, authenticated) ==
    IF method = "OPTIONS" THEN "OPTIONS"
    ELSE IF requires_auth(path) /\ ~authenticated THEN "401"
    ELSE handle_api_request(method, path)
-----------------------------------------------------------------------------
\* The endpoints of docs/api.md (and the preflight of docs/file-module.md):
\* method, path after /api/, operation.
Endpoints ==
    {<<"POST", <<"echo">>, "echo">>, <<"POST", <<"register">>, "register">>,
     <<"POST", <<"login">>, "login">>, <<"POST", <<"private", "logout">>, "logout">>,
     <<"GET", <<"private", "ping">>, "ping">>,
     <<"GET", <<"private", "operations">>, "operation_list">>,
     <<"DELETE", <<"private", "operations", Id>>, "operation_remove">>,
     <<"DELETE", <<"private", "operations">>, "operation_clear">>,
     <<"GET", <<"drive", "items">>, "drive_item_list">>,
     <<"POST", <<"drive", "folders">>, "drive_folder_create">>,
     <<"DELETE", <<"drive", "folders", Id>>, "drive_folder_delete">>,
     <<"POST", <<"drive", "files", "upload">>, "drive_file_upload">>,
     <<"POST", <<"drive", "files", "preflight">>, "upload_preflight">>,
     <<"GET", <<"drive", "files", Id, "download">>, "private_file_download">>,
     <<"DELETE", <<"drive", "files", Id>>, "remove">>,
     <<"GET", <<"drive", "trash">>, "trash_item_list">>,
     <<"DELETE", <<"drive", "trash">>, "empty_trash">>,
     <<"POST", <<"drive", "files", Id, "restore">>, "restore">>,
     <<"DELETE", <<"drive", "files", Id, "permanent">>, "remove_permanently">>,
     <<"POST", <<"drive", "files", Id, "visibility">>, "update_visibility">>,
     <<"POST", <<"drive", "files", Id, "share">>, "share_create">>,
     <<"GET", <<"files", "public">>, "public_file_list">>,
     <<"GET", <<"files", "public", Id>>, "public_file_detail">>,
     <<"GET", <<"files", "public", Id, "download">>, "public_file_download">>}
    \cup {<<"GET", <<"share", t>>, "share_detail">> : t \in Segments}
    \cup {<<"GET", <<"share", t, "download">>, "share_download">> : t \in Segments}

Stems == {<<"drive", "files">>, <<"drive", "folders">>, <<"drive">>, <<"files", "public">>,
          <<"share">>, <<"private", "operations">>, <<"private">>, <<"files">>}

\* Bound: two segments behind a prefix, and the whole paths.
Paths ==
    {p \o r : p \in Stems, r \in UNION {[1..n -> Segments] : n \in 0..2}}
    \cup {e[2] : e \in Endpoints}

Refusals == {"BAD_REQUEST", "NOT_IMPLEMENTED", "404", "401", "OPTIONS"}

\* A request reaches an operation exactly when its method and its path are those
\* of an endpoint, and without a session only when the endpoint is not private.
DispatchMatchesEndpoints ==
    \A m \in Methods, p \in Paths, a \in BOOLEAN :
        LET answer == handle_request(m, p, a)
            endpoint == {e[3] : e \in {x \in Endpoints : x[1] = m /\ x[2] = p}}
        IN  IF endpoint # {} /\ (a \/ ~requires_auth(p)) THEN answer \in endpoint
            ELSE answer \in Refusals
=============================================================================
