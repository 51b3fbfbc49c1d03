------------------------------ MODULE HttpNames -----------------------------
(***************************************************************************)
(* The calls of the HTTP plugin outside copies and staging                 *)
(* (src/plugins/http: gfal_http_plugin_metadata.cpp, _io.cpp, _qos.cpp,    *)
(* the credentials of a third-party copy and the discovery of the tape     *)
(* endpoint): the operation under which each asks for its token, the       *)
(* requests it sends, and what they change.                                *)
(***************************************************************************)
EXTENDS HttpTokens

CONSTANTS
    Slash,         \* of a directory: its URL with the slash
    Reserved,      \* of a directory: <url>/gfal2_mkdir.reserved
    BaseOf,        \* of a path that is renamed: the common base directory
    Moves,         \* <<from, to>>
    HttpMenus,     \* the <<call, path>> made, and where tokens are set; one is picked
    MaxHttpCalls,  \* bound: calls
    MaxSets        \* bound: changes of the credentials by the user

VARIABLES
    todo,   \* menu of this run: [calls, sets]
    http,   \* the call that is running
    made,   \* calls made
    sets,   \* changes of the credentials made by the user
    fd,     \* the open file: its parameters hold the token of the open
    tape    \* tape_endpoint_map: the version found for the storage

httpCalls == <<todo, http, made, sets, fd, tape>>

NoFd == [open |-> FALSE]
Quiet == [at |-> "idle", call |-> "none", path |-> Root, requests |-> <<>>, sent |-> {}]

HttpInit ==
    /\ todo \in PickFor("http", HttpMenus)
    /\ http = Quiet
    /\ made = 0 /\ sets = 0
    /\ fd = NoFd
    /\ tape = -2

-----------------------------------------------------------------------------
(* The requests of a call.                                                 *)

Request(op, u) == [op |-> op, url |-> u]

\* gfal_http_stat: over WebDAV, then over HTTP, with the same parameters
HttpStat(p) == <<Request("HEAD", p)>>
\* gfal_http_access
HttpAccess(p) == HttpStat(p)
\* gfal_http_mkdirpG
HttpMkdirp(p) == <<Request("MKCOL", p)>>
\* gfal_http_unlinkG
HttpUnlink(p) == <<Request("WRITE", p)>>
\* gfal_http_rmdirG
HttpRmdir(p) == HttpStat(p) \o <<Request("WRITE", Slash[p])>>
\* gfal_http_rename
HttpRename(p) == <<Request("WRITE", IF setting.retrieves THEN BaseOf[p] ELSE p)>>
\* gfal_http_opendir
HttpOpendir(p) == <<Request("READ", p)>>
\* gfal_http_checksum
HttpChecksum(p) == <<Request("READ", p)>>
\* gfal_http_fopen: O_RDWR ("update") is not O_WRONLY.
HttpFopen(p, mode) == <<Request(IF mode = "write" THEN "WRITE" ELSE "READ", p)>>
\* gfal_http_check_classes
QosClasses(p) == <<Request("READ", p)>>
\* gfal_http_check_file_qos
QosOfFile(p) == <<Request("READ", p)>>
\* gfal_http_check_qos_available_transitions
QosTransitions(p) == <<Request("READ", p)>>
\* gfal_http_check_target_qos
QosTarget(p) == <<Request("READ", p)>>
\* gfal_http_change_object_qos: a PUT, with what suffices to read.
QosChange(p) == <<Request("READ", p)>>
\* The path p is moved or copied to
MovedTo(p) == (CHOOSE m \in Moves : m[1] = p)[2]

\* get_tpc_params: from p, of the storage, to the other path of Moves or back
TpcParams(p, mode) ==
    LET q == MovedTo(p) IN
    IF mode = "push" THEN <<Request("READ", p), Request("WRITE_PASV", q)>>
    ELSE <<Request("READ_PASV", p), Request("WRITE", q)>>
\* gfal_http_discover_tape_endpoint: asked once per storage.
TapeDiscovery == IF tape = -2 THEN <<Request("TAPE", Root)>> ELSE <<>>

RequestsOf(c, p) ==
    CASE c = "stat"     -> HttpStat(p)
      [] c = "access"   -> HttpAccess(p)
      [] c = "mkdir"    -> HttpMkdirp(p)
      [] c = "unlink"   -> HttpUnlink(p)
      [] c = "rmdir"    -> HttpRmdir(p)
      [] c = "rename"   -> HttpRename(p)
      [] c = "opendir"  -> HttpOpendir(p)
      [] c = "checksum" -> HttpChecksum(p)
      [] c \in {"read", "write", "update"} -> HttpFopen(p, c)
      [] c = "classes"  -> QosClasses(p)
      [] c = "qos"      -> QosOfFile(p)
      [] c = "transitions" -> QosTransitions(p)
      [] c = "target"   -> QosTarget(p)
      [] c = "change"   -> QosChange(p)
      [] c \in {"push", "pull"} -> TpcParams(p, c)
      [] c = "tape"     -> TapeDiscovery

Tpc(c) == c \in {"push", "pull"}

\* Every URL a call may ask about is one a token may be filed under.
ASSUME HttpMenusOK ==
    /\ \A m \in Moves : m[2] \in FiledUnder \ {m[1]}
    /\ \A choice \in HttpMenus : \A c \in choice.calls :
        /\ c[1] \in {"stat", "access", "mkdir", "unlink", "rmdir", "rename", "opendir", "checksum",
                     "read", "write", "update", "classes", "qos", "transitions", "target",
                     "change", "push", "pull", "tape"}
        /\ c[2] \in FiledUnder
        /\ c[1] = "mkdir" => Reserved[c[2]] \in FiledUnder
        /\ c[1] = "rmdir" => Slash[c[2]] \in FiledUnder
        /\ c[1] = "rename" => BaseOf[c[2]] \in FiledUnder
        /\ Tpc(c[1]) => \E m \in Moves : m[1] = c[2]

-----------------------------------------------------------------------------
(* A call.                                                                 *)

HttpCall(c, p) ==
    LET requests == RequestsOf(c, p) IN
    /\ http.at = "idle"
    /\ <<c, p>> \in todo.calls
    /\ made < MaxHttpCalls
    /\ c \in {"read", "write", "update"} => ~fd.open
    /\ made' = made + 1
    /\ http' = IF requests = <<>> THEN Quiet
               ELSE [at |-> IF c \in {"mkdir", "rename"} /\ setting.retrieves
                            THEN "reserve" ELSE "params",
                     call |-> c, path |-> p, requests |-> requests, sent |-> {}]
    /\ UNCHANGED <<tokens, todo, sets, fd, tape, server>>

\* Before a directory is made, a token for a file in it is got, and before a
\* rename one for the directory that holds both names, unless there is one.
Reserve ==
    LET r == Head(http.requests)
        u == IF http.call = "mkdir" THEN Reserved[http.path] ELSE r.url
    IN
    /\ http.at = "reserve"
    /\ \E o \in IF FindSeToken(r.url, r.op) # NoToken
                THEN {Outcome(NoToken, creds, tokenMap)} ELSE RetrieveAndStore(u, r.op) :
        creds' = o.creds /\ tokenMap' = o.map
    /\ http' = [http EXCEPT !.at = "params"]
    /\ UNCHANGED <<setting, issued, todo, made, sets, fd, tape, server>>

\* get_params; both sides of a third-party copy are in the one request.
GetParams ==
    LET r == Head(http.requests) IN
    /\ http.at = "params"
    /\ \E o \in GetCredentials(r.url, r.op) :
        /\ creds' = o.creds /\ tokenMap' = o.map
        /\ LET one == [header |-> HeaderOf(r.op), request |-> r, token |-> o.token]
               both == Tpc(http.call) /\ Len(http.requests) = 2
           IN  http' = [http EXCEPT
                    !.sent = IF Tpc(http.call) THEN @ \cup {one} ELSE {one},
                    !.requests = Tail(@),
                    !.at = IF both THEN "params" ELSE "send"]
    /\ UNCHANGED <<setting, issued, todo, made, sets, fd, tape, server>>

\* What the request does to the tree; what reads leaves it alone, and the
\* effect of a third-party copy is in HttpCopy.
HttpEffects(c, p) ==
    LET trees(code, after) == {a.tree : a \in Answers(code, after)} IN
    CASE c = "mkdir"  -> trees(MkdirCode(p), With(p, "dir"))
      [] c = "unlink" -> trees(RmCode(p), Without(p))
      [] c = "rmdir"  -> trees(RmdirCode(p), Without(p))
      [] c = "rename" -> UNION {trees(RenameCode(p, m[2]), Renamed(p, m[2])) :
                                m \in {n \in Moves : n[1] = p}}
      [] OTHER -> {tree}

\* rmdir goes on after the stat only for a directory.
StatOfRmdir ==
    /\ http.at = "send" /\ http.requests # <<>>
    /\ \E ok \in BOOLEAN :
        http' = IF ok /\ IsDir(http.path) THEN [http EXCEPT !.at = "params"] ELSE Quiet
    /\ UNCHANGED <<tokens, todo, made, sets, fd, tape, server>>

\* parseVersion
ParseVersion(v) ==
    CASE v = "v0" -> 0 [] v = "v1" -> 1 [] v = "v2" -> 2 [] v = "" -> 0 [] OTHER -> -1

\* retrieve_and_store_tape_endpoint: the highest version that is known here.
\* -2: none was found.
TapeVersion(versions) ==
    FoldLeft(LAMBDA best, v : IF ParseVersion(v) >= Max({0, best}) /\ ParseVersion(v) <= 1
                              THEN ParseVersion(v) ELSE best, -2, versions)

\* The last request of a call.
Send ==
    LET c == http.call  p == http.path IN
    /\ http.at = "send" /\ http.requests = <<>>
    /\ tree' \in HttpEffects(c, p)
    /\ http' = Quiet
    /\ \/ UNCHANGED <<fd, tape>>
       \/ /\ (c \in {"read", "update"} /\ IsFile(p)) \/ c = "write"
          /\ fd' = [open |-> TRUE, path |-> p, mode |-> c, sent |-> http.sent]
          /\ UNCHANGED tape
       \/ /\ c = "tape"
          /\ tape' = TapeVersion(setting.tape)
          /\ UNCHANGED fd
    /\ UNCHANGED <<tokens, todo, made, sets, meddling>>

\* gfal_http_fclose: what was written is there; the handle goes anyhow.
HttpFclose ==
    LET p == fd.path IN
    /\ http.at = "idle"
    /\ fd.open
    /\ tree' \in IF fd.mode = "read" \/ ~IsDir(Parent[p]) \/ IsDir(p) THEN {tree}
                 ELSE {tree, With(p, "file")}
    /\ fd' = NoFd
    /\ UNCHANGED <<tokens, todo, http, made, sets, tape, meddling>>

\* The user, between two calls
UserStep ==
    /\ http.at = "idle"
    /\ sets < MaxSets
    /\ sets' = sets + 1
    /\ \/ \E n \in todo.sets : SetCredential(n)
       \/ \E n \in todo.sets, issuer \in {"none", "issuer"}, write \in BOOLEAN :
            TokenRetrieve(n, issuer, write)
       \/ (\E n \in FiledUnder : creds[n] # NoToken) /\ CleanCredentials
    /\ UNCHANGED <<todo, http, made, fd, tape, server>>

HttpMeddle(p) == Meddle(p) /\ UNCHANGED <<tokens, httpCalls>>

HttpNext ==
    \/ \E m \in todo.calls : HttpCall(m[1], m[2])
    \/ Reserve \/ GetParams \/ StatOfRmdir \/ Send \/ HttpFclose \/ UserStep
    \/ \E p \in Contested["http"] : HttpMeddle(p)

-----------------------------------------------------------------------------
(* Properties.                                                             *)

\* The calls that change what is on the storage; an update and a change of
\* the quality of service are asked for as reads.
Changing(c, r) ==
    \/ c \in {"mkdir", "unlink", "rename", "write"}
    \/ c = "rmdir" /\ r.op # "HEAD"
    \/ c = "push" /\ r.op = "WRITE_PASV"
    \/ c = "pull" /\ r.op = "WRITE"

\* A token that is sent fits its request: a token the plugin got itself was
\* got for the URL, for something that contains it or, to make or look at a
\* directory, for something in it, and it allows to write if the call does; the
\* token for the passive side of a copy goes into the header for that side; and
\* a request is sent without a token only if the user set none for its URL.
TokenFits ==
    http.at = "send" => \A s \in http.sent :
        LET t == s.token  r == s.request IN
        /\ t.by = "server" =>
            /\ r.url \in Containing[t.at] \/ t.at \in Containing[r.url]
            /\ t.at \notin Containing[r.url] => r.op \in {"MKCOL", "HEAD"}
            /\ Changing(http.call, r) => {"UPLOAD", "DELETE"} \subseteq t.can
        /\ Tpc(http.call) =>
            (s.header = "Authorization" <=>
                r.url = IF http.call = "push" THEN http.path
                        ELSE MovedTo(http.path))
        /\ t = NoToken /\ setting.scheme \in {"https", "http"} =>
            \A n \in Containing[r.url] : creds[n].by # "user"

-----------------------------------------------------------------------------
(* The inductive invariant of TokenFits.                                   *)

\* What a request of the call c on p is, and which side of a copy it is for
ProperRequests(c, p) ==
    {r \in [op : {"HEAD", "MKCOL", "WRITE", "READ", "WRITE_PASV", "READ_PASV", "TAPE"},
            url : FiledUnder] :
        /\ Changing(c, r) => Writes(r.op)
        /\ Tpc(c) => (HeaderOf(r.op) = "Authorization" <=>
                        r.url = IF c = "push" THEN p ELSE MovedTo(p))}

\* The token t may go with the request r of the call c.
Suits(c, t, r) ==
    /\ t.by = "server" =>
        /\ r.url \in Containing[t.at] \/ t.at \in Containing[r.url]
        /\ t.at \notin Containing[r.url] => r.op \in {"MKCOL", "HEAD"}
        /\ Changing(c, r) => {"UPLOAD", "DELETE"} \subseteq t.can
    /\ t = NoToken /\ setting.scheme \in {"https", "http"} =>
        \A n \in Containing[r.url] : creds[n].by # "user"

\* A token the plugin got is filed under what it was got for, and the map of
\* the plugin has it; all in the map are of this kind, and those said to allow
\* to write do.
FiledRight(c, m) ==
    /\ DOMAIN c = FiledUnder
    /\ \A n \in FiledUnder : c[n].by = "server" => c[n].at = n /\ c[n] \in DOMAIN m
    /\ \A t \in DOMAIN m :
        /\ t.by = "server"
        /\ m[t] \in BOOLEAN
        /\ m[t] = TRUE => {"UPLOAD", "DELETE"} \subseteq t.can

TokensFiled == FiledRight(creds, tokenMap)

HttpTypeOK ==
    /\ todo \in HttpMenus
    /\ setting.fallback \in {NoToken, UserToken}
    /\ DOMAIN issued = {"by", "at", "can"}
    /\ http = [at |-> http.at, call |-> http.call, path |-> http.path,
               requests |-> http.requests, sent |-> http.sent]
    /\ http.at \in {"idle", "reserve", "params", "send"}
    /\ http.at = "idle" => http.sent = {}
    /\ http.at \in {"reserve", "params"} => http.requests # <<>>
    /\ http.at # "idle" => <<http.call, http.path>> \in todo.calls
    /\ http.requests \in Seq(ProperRequests(http.call, http.path))

SentSuit ==
    \A s \in http.sent :
        /\ s.header = HeaderOf(s.request.op)
        /\ s.request \in ProperRequests(http.call, http.path)
        /\ Suits(http.call, s.token, s.request)

HttpInv ==
    /\ plugin # "http" => http.at = "idle"
    /\ plugin = "http" => HttpTypeOK /\ TokensFiled /\ SentSuit
=============================================================================
