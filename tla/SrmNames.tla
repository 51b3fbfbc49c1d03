------------------------------ MODULE SrmNames ------------------------------
(***************************************************************************)
(* The name space calls of the SRM plugin: gfal_srm_stat.c, _access.c,     *)
(* _chmod.c, _rm.c, _rename.c, _rmdir.c, _mkdir.c, _internal_ls.c,         *)
(* _opendir.c, _readdir.c, _getxattr*.c, _space.c and _checksum.c, each    *)
(* over the sections of SrmSession.  The application's threads call them   *)
(* in any order; a thread has at most one directory open.                  *)
(***************************************************************************)
EXTENDS SrmSession

CONSTANTS
    Order,        \* in which a server lists what there is
    ServerLimit,  \* a longer answer to srm_ls is refused with EFBIG
    ChunkSize,    \* entries of a chunk: 1000 in gfal_srm_readdirppG
    Windows,      \* <<offset, count>> asked for with ";offset=;count="
    Renames       \* <<from, to>>: paths of one server

\* The server lists names that the application may use.  A window has a count,
\* unless the whole directory is asked for.
ASSUME SrmNamesAssumption ==
    /\ Root \notin Paths
    /\ FirstTree["srm"] \subseteq [Paths -> Kinds]
    /\ Contested["srm"] \subseteq Paths
    /\ \A u \in Urls : PathOf[u] \in Paths \cap Urls
    /\ Len(Order) \in Nat /\ DOMAIN Order = 1 .. Len(Order)
    /\ \A i \in DOMAIN Order : Order[i] \in Urls /\ PathOf[Order[i]] = Order[i]
    /\ \A m \in Menus : \A t \in Threads : \A e \in m[t] : e[2] \in Urls
    /\ \A w \in Windows : w = <<0, 0>> \/ (w[1] \in Nat /\ w[2] \in Nat \ {0})
    /\ ChunkSize \in Nat \ {0}

-----------------------------------------------------------------------------
(* The calls.                                                              *)

\* gfal_srm_geturl_getxattrG (user.replicas): the status is looked at first if
\* XATTR_FAIL_NEARLINE says so.
GeturlSections == {<<"get">>, <<"status", "get">>}

\* gfal_srm_checksumG: a checksum SRM does not have is asked of the TURL.
ChecksumSections == {<<"sum">>, <<"sum", "get">>}

\* gfal_srm_openG
OpenSections(op) ==
    {IF op = "read" THEN <<"castor", "get", "open get">> ELSE <<"castor", "put", "open put">>}

\* What a call goes through
SectionsOf(op) ==
    CASE op = "geturl"   -> GeturlSections
      [] op = "checksum" -> ChecksumSections
      [] op \in {"read", "write"} -> OpenSections(op)
      [] OTHER           -> {<<op>>}

Call(t, op, u) ==
    /\ <<op, u>> \in menu[t]
    /\ call[t].at = "idle"
    /\ calls[t] < MaxCalls[t]
    /\ op = "opendir" => ~listing[t].open
    /\ calls' = [calls EXCEPT ![t] = @ + 1]
    /\ IF op = "stat" /\ Cached(u)
       THEN CacheTake(u) /\ UNCHANGED call
       ELSE /\ \E s \in SectionsOf(op) :
                call' = [call EXCEPT ![t] = [at |-> "context", section |-> Head(s),
                                             rest |-> Tail(s), url |-> u, ep |-> ""]]
            /\ UNCHANGED <<cache, excused>>
    /\ UNCHANGED <<menu, lock, ctx, mark, leaked, listing, server>>

\* gfal_statG_srmv2__generic_internal: srm_ls of one path, which may be lost.
LsAnswers(p) == {"ECOMM", IF Exists(p) THEN tree[p] ELSE "ENOENT"}
Failed(a) == a \in {"ECOMM", "ENOENT"}

\* gfal_srm_opendir_internal; parameters of the URL say which window.
OpenListing(u, w) ==
    [open |-> TRUE, live |-> TRUE, exposed |-> FALSE, path |-> PathOf[u], ep |-> ctx,
     offset |-> w[1], chunk |-> w[2], chunked |-> w # <<0, 0>>,
     loaded |-> FALSE, page |-> <<>>, index |-> 0,
     start |-> w[1], given |-> <<>>, ended |-> FALSE]

\* gfal_srm_statG: the answer is kept.
LsStat(t) ==
    LET u == call[t].url IN
    /\ call[t].at = "ls" /\ call[t].section = "stat"
    /\ \E a \in LsAnswers(PathOf[u]) :
        IF Failed(a) THEN UNCHANGED <<cache, excused>> ELSE CacheAdd(u, a)
    /\ Release(t, call[t].rest)
    /\ UNCHANGED <<menu, calls, listing, server>>

\* gfal_srm_status_internal: from the cache, under the short name, if it is
\* there.  A file that is not online ends gfal_srm_geturl_getxattrG.
LsStatus(t) ==
    LET p == PathOf[call[t].url] IN
    /\ call[t].at = "ls" /\ call[t].section = "status"
    /\ \/ /\ Cached(p)
          /\ CacheTake(p)
          /\ \E nearline \in BOOLEAN : Release(t, IF nearline THEN <<>> ELSE call[t].rest)
       \/ /\ ~Cached(p)
          /\ \E a \in LsAnswers(p), nearline \in BOOLEAN :
                Release(t, IF Failed(a) \/ nearline THEN <<>> ELSE call[t].rest)
          /\ UNCHANGED <<cache, excused>>
    /\ UNCHANGED <<menu, calls, listing, server>>

\* gfal_srm_cheksumG_internal: without an error, but with no checksum of the
\* right type, the fall back is taken.
LsSum(t) ==
    /\ call[t].at = "ls" /\ call[t].section = "sum"
    /\ \E a \in LsAnswers(PathOf[call[t].url]) :
        Release(t, IF Failed(a) THEN <<>> ELSE call[t].rest)
    /\ UNCHANGED <<menu, calls, listing, cache, excused, server>>

\* gfal_srm_rmdirG: only a directory is removed.
LsRmdir(t) ==
    LET u == call[t].url IN
    /\ call[t].at = "ls" /\ call[t].section = "rmdir"
    /\ \E a \in LsAnswers(PathOf[u]) :
        IF a = "dir"
        THEN /\ call' = [call EXCEPT ![t].at = "change"]
             /\ cache' = Purge(u)
             /\ excused' = excused \ {u}
             /\ UNCHANGED <<lock, ctx, mark, leaked>>
        ELSE Release(t, <<>>) /\ UNCHANGED <<cache, excused>>
    /\ UNCHANGED <<menu, calls, listing, server>>

\* gfal_srm_mkdirG, gfal_srm_mkdir_recG: what srm_ls does not find is made,
\* also when the answer was lost.
LsMkdir(t) ==
    /\ call[t].at = "ls" /\ call[t].section \in {"mkdir", "mkdirp"}
    /\ \E a \in LsAnswers(PathOf[call[t].url]) :
        IF Failed(a)
        THEN call' = [call EXCEPT ![t].at = "change"] /\ UNCHANGED <<lock, ctx, mark, leaked>>
        ELSE Release(t, <<>>)
    /\ UNCHANGED <<menu, calls, listing, cache, excused, server>>

\* gfal_srm_opendirG: the open directory keeps the context; a failure keeps
\* the lock as well.
LsOpendir(t) ==
    LET u == call[t].url IN
    /\ call[t].at = "ls" /\ call[t].section = "opendir"
    /\ \E a \in LsAnswers(PathOf[u]), w \in Windows :
        IF a = "dir"
        THEN /\ listing' = [listing EXCEPT ![t] = OpenListing(u, w)]
             /\ call' = [call EXCEPT ![t] = Idle]
             /\ UNCHANGED <<lock, ctx, mark, leaked>>
        ELSE Leak(t) /\ UNCHANGED listing
    /\ UNCHANGED <<menu, calls, cache, excused, server>>

\* Requests that change nothing; what follows if they succeed or fail.
Asked(t, section) == call[t].at = "ask" /\ call[t].section = section
Answered(t, ok) ==
    /\ Release(t, IF ok THEN call[t].rest ELSE <<>>)
    /\ UNCHANGED <<menu, calls, listing, cache, excused, server>>

\* Mutant: a refusal is returned at once.
AccessReturnsEarly(t) ==
    /\ Asked(t, "access")
    /\ \/ Answered(t, TRUE)
       \/ /\ call' = [call EXCEPT ![t] = Idle]
          /\ UNCHANGED <<lock, ctx, mark, leaked, menu, calls, listing, cache, excused, server>>

\* gfal_srm_accessG: srm_check_permission
Access(t) == Asked(t, "access") /\ \E ok \in BOOLEAN : Answered(t, ok)

\* gfal_srm_space_property: the list of tokens, one token, or the token of a
\* description, which takes two requests.
SpaceProperty ==
    LET requests == [list |-> 1, token |-> 1, description |-> 2]
    IN  {\A i \in DOMAIN a : a[i] : a \in UNION {[1..requests[k] -> BOOLEAN] : k \in DOMAIN requests}}

\* gfal_srm_space_getxattrG
Space(t) == Asked(t, "space") /\ \E ok \in SpaceProperty : Answered(t, ok)

\* gfal_srm_get_endpoint_type_xattrG: srm_xping; a failure does not give the
\* context back.
EndpointType(t) ==
    /\ Asked(t, "type")
    /\ \/ Answered(t, TRUE)
       \/ Leak(t) /\ UNCHANGED <<menu, calls, listing, cache, excused, server>>

\* is_castor_endpoint: whatever it finds, the call goes on.
IsCastor(t) == Asked(t, "castor") /\ Answered(t, TRUE)

-----------------------------------------------------------------------------
(* The changes.                                                            *)

\* After a change of p under the name u: what is kept under another name of p
\* or of something that went with p is out of date.
Outdated(u, after) ==
    {v \in Urls : Cached(v) /\ v # u /\ tree[PathOf[v]] # after[PathOf[v]]}

\* gfal_srmv2_chmod_internal: the mode of a file is changed.
Chmod(t) ==
    LET p == PathOf[call[t].url] IN
    {a.tree : a \in Answers(IF IsFile(p) THEN "OK" ELSE "EINVAL", With(p, "private"))}

\* gfal_srm_rm_srmv2_internal, and srm_ls after an EINVAL, to find a directory
Unlink(t) ==
    LET p == PathOf[call[t].url] IN {a.tree : a \in Answers(RmCode(p), Without(p))}

\* gfal_srm_rename_internal_srmv2
Rename(t) ==
    LET p == PathOf[call[t].url] IN
    UNION {{a.tree : a \in Answers(RenameCode(p, q), Renamed(p, q))} :
           q \in {r \in Paths : <<p, r>> \in Renames}}

\* gfal_srmv2_rmdir_internal
Rmdir(t) ==
    LET p == PathOf[call[t].url] IN {a.tree : a \in Answers(RmdirCode(p), Without(p))}

\* gfal_mkdir_srmv2_internal
Mkdir(t) ==
    LET p == PathOf[call[t].url] IN {a.tree : a \in Answers(MkdirCode(p), With(p, "dir"))}

\* Mutant: the cache is told of the change only by chmod and unlink.
PurgesLittle(section) == section \in {"chmod", "unlink"}

\* gfal_srm_chmodG, gfal_srm_unlink_listG, gfal_srm_renameG forget what they
\* are about to change; gfal_srm_rmdirG has done so.
Purges(section) == section \in {"chmod", "unlink", "rename"}

Change(t) ==
    LET u == call[t].url
        section == call[t].section
    IN
    /\ call[t].at = "change"
    /\ tree' \in CASE section = "chmod"  -> Chmod(t)
                   [] section = "unlink" -> Unlink(t)
                   [] section = "rename" -> Rename(t)
                   [] section = "rmdir"  -> Rmdir(t)
                   [] section \in {"mkdir", "mkdirp"} -> Mkdir(t)
                   [] OTHER -> {}
    /\ cache' = IF Purges(section) THEN Purge(u) ELSE cache
    /\ excused' = (excused \cup Outdated(u, tree'))
                     \ (IF Purges(section) THEN {u} ELSE {})
    /\ Release(t, call[t].rest)
    /\ UNCHANGED <<menu, calls, listing, meddling>>

-----------------------------------------------------------------------------
(* Directories.                                                            *)

\* The names of S, in the order of the server
InOrder(S) ==
    LET upto[i \in 0 .. Len(Order)] ==
            IF i = 0 THEN <<>>
            ELSE IF Order[i] \in S THEN Append(upto[i - 1], Order[i]) ELSE upto[i - 1]
    IN  upto[Len(Order)]

\* What srm_ls with numlevels 1 answers: entries with what is known of them.
Entries(p) ==
    LET there == InOrder(Content(p))
    IN  [i \in DOMAIN there |-> [path |-> there[i], kind |-> tree[there[i]]]]

\* gfal_srm_readdir_internal
PageOf(l) ==
    LET all == Entries(l.path)
        rest == SubSeq(all, l.offset + 1, Len(all))
    IN  IF l.chunked THEN SubSeq(rest, 1, Min({l.chunk, Len(rest)})) ELSE rest

Pages(l) ==
    {[code |-> "ECOMM", page |-> <<>>],
     [code |-> IF ~IsDir(l.path) THEN "ENOENT"
               ELSE IF Len(PageOf(l)) > ServerLimit THEN "EFBIG" ELSE "OK", page |-> PageOf(l)]}

Loaded(l, page) == [l EXCEPT !.loaded = TRUE, !.page = page, !.index = 0]

Chunked(l) == [l EXCEPT !.chunked = TRUE, !.offset = 0, !.chunk = ChunkSize, !.index = 0]

\* Mutant: a chunk is used up only after one entry more.
PastChunkLate(l) == l.chunked /\ l.index > l.chunk

\* The page is used up: gfal_srm_readdir_pipeline prepares the next chunk.
PastChunk(l) == l.chunked /\ l.index >= l.chunk

\* gfal_srm_readdir_pipeline with a page at hand
Deliver(t, l) ==
    IF l.index >= Len(l.page)
    THEN /\ listing' = [listing EXCEPT ![t] = [l EXCEPT !.ended = TRUE]]
         /\ UNCHANGED <<cache, excused>>
    ELSE LET entry == l.page[l.index + 1]
             next == [l EXCEPT !.index = @ + 1, !.given = Append(@, entry.path)]
         IN  /\ listing' = [listing EXCEPT ![t] =
                    IF PastChunk(next)
                    THEN [next EXCEPT !.offset = @ + next.chunk,
                                 !.loaded = FALSE, !.page = <<>>]
                    ELSE next]
             /\ CacheAdd(entry.path, entry.kind)

\* gfal_srm_readdirppG: no lock is taken, the one of opendir is relied on;
\* what a request on a freed context does is undefined and left out.
\* EFBIG for the whole directory makes it try again in chunks.
Readdir(t) ==
    LET l == listing[t] IN
    /\ call[t].at = "idle"
    /\ l.open /\ l.live /\ ~l.ended
    /\ IF l.loaded THEN Deliver(t, l)
       ELSE \E a \in Pages(l) :
            CASE a.code = "OK" -> Deliver(t, Loaded(l, a.page))
              [] a.code = "EFBIG" /\ ~l.chunked ->
                    \E b \in Pages(Chunked(l)) :
                        IF b.code = "OK" THEN Deliver(t, Loaded(Chunked(l), b.page))
                        ELSE /\ listing' = [listing EXCEPT ![t] = Chunked(l)]
                             /\ UNCHANGED <<cache, excused>>
              [] OTHER -> UNCHANGED <<listing, cache, excused>>
    /\ UNCHANGED <<menu, session, calls, server>>

\* gfal_srm_closedirG
Closedir(t) ==
    /\ call[t].at = "idle"
    /\ listing[t].open
    /\ lock' = Unlocked(t)
    /\ listing' = [listing EXCEPT ![t] = NoListing]
    /\ UNCHANGED <<menu, ctx, mark, call, leaked, calls, cache, excused, server>>
=============================================================================
