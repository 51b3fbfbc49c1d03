------------------------------ MODULE SrmFiles ------------------------------
(***************************************************************************)
(* Opened files of the SRM plugin (src/plugins/srm/gfal_srm_open.c and     *)
(* gfal_srm_getput.c): a GET or PUT request gives a TURL, another plugin   *)
(* opens it, and closing releases the GET or declares the PUT done, which  *)
(* makes the file visible.  A thread has at most one file open.            *)
(***************************************************************************)
EXTENDS SrmNames

CONSTANTS
    Protocols,  \* TURL_PROTOCOLS
    Served      \* protocols of the TURLs a server may give

VARIABLE file  \* of a thread: gfal_srm_handle_open

NoFile == [open |-> FALSE]

FilesInit == file = [t \in Threads |-> NoFile]

\* gfal_srm_openG, after the file of the thread is closed
Open(t, op, u) ==
    /\ op \in {"read", "write"}
    /\ ~file[t].open
    /\ Call(t, op, u)
    /\ UNCHANGED file

\* validate_turls: the protocol must be one of those asked for.
ValidTurl(a) == a \in Protocols

\* gfal_srmv2_get_global
GetGlobal == {"lost", "error"} \cup Served

\* gfal_srmv2_put_global: a server refuses to PUT over what is there.
PutGlobal(p) == {"lost", "error"} \cup (IF Exists(p) THEN {} ELSE Served)

\* gfal_srm_getTURLS_plugin, gfal_srm_getTURL_checksum
GetTurl(t) ==
    /\ Asked(t, "get")
    /\ \E a \in GetGlobal : Answered(t, ValidTurl(a))
    /\ UNCHANGED file

\* gfal_srm_putTURLS_plugin
PutTurl(t) ==
    /\ call[t].at = "change" /\ call[t].section = "put"
    /\ \E a \in PutGlobal(PathOf[call[t].url]) : Answered(t, ValidTurl(a))
    /\ UNCHANGED file

\* gfal_plugin_openG of the TURL; if it fails the request stays open.
InnerOpen(t) ==
    /\ call[t].at = "inner" /\ call[t].section \in {"open get", "open put"}
    /\ call' = [call EXCEPT ![t] = Idle]
    /\ \/ UNCHANGED file
       \/ file' = [file EXCEPT ![t] = [open |-> TRUE, url |-> call[t].url,
                                       put |-> call[t].section = "open put"]]
    /\ UNCHANGED <<menu, lock, ctx, mark, leaked, calls, listing, cache, excused, server>>

\* gfal_srm_closeG: first the inner handle.
Close(t) ==
    /\ call[t].at = "idle"
    /\ file[t].open
    /\ call' = [call EXCEPT ![t] =
                    [at |-> "inner", section |-> "inner close", url |-> file[t].url, ep |-> "",
                     rest |-> <<IF file[t].put THEN "putdone" ELSE "release">>]]
    /\ UNCHANGED <<menu, lock, ctx, mark, leaked, calls, listing, cache, excused, server, file>>

\* If that fails the handle stays, and may be closed again.
InnerClose(t) ==
    /\ call[t].at = "inner" /\ call[t].section = "inner close"
    /\ \E ok \in BOOLEAN :
        call' = [call EXCEPT ![t] = IF ok THEN Follow(t, call[t].rest) ELSE Idle]
    /\ UNCHANGED <<menu, lock, ctx, mark, leaked, calls, listing, cache, excused, server, file>>

\* gfal_srm_putdone: the file appears.  The handle is freed whatever the
\* answer.
PutDone(t) ==
    LET p == PathOf[call[t].url] IN
    /\ call[t].at = "change" /\ call[t].section = "putdone"
    /\ tree' \in {a.tree : a \in Answers(IF MkdirCode(p) = "OK" THEN "OK" ELSE "EINVAL",
                                         With(p, "file"))}
    /\ Release(t, <<>>)
    /\ file' = [file EXCEPT ![t] = NoFile]
    /\ UNCHANGED <<menu, calls, listing, cache, excused, meddling>>

\* gfal_srmv2_release_fileG
ReleaseFile(t) ==
    /\ call[t].at = "ask" /\ call[t].section = "release"
    /\ Release(t, <<>>)
    /\ file' = [file EXCEPT ![t] = NoFile]
    /\ UNCHANGED <<menu, calls, listing, cache, excused, server>>

\* Another process changes the tree; the cache is not told.
SrmMeddle(p) ==
    /\ Meddle(p)
    /\ excused' = excused \cup {u \in Urls : Cached(u) /\ tree'[PathOf[u]] # tree[PathOf[u]]}
    /\ UNCHANGED <<menu, session, calls, listing, cache, file>>

SrmOf(t) ==
    \/ \E m \in menu[t] : m[1] \notin {"read", "write"} /\ Call(t, m[1], m[2]) /\ UNCHANGED file
    \/ \E m \in menu[t] : Open(t, m[1], m[2])
    \/ (GetContext(t) \/ EndpointFails(t)) /\ UNCHANGED <<server, file>>
    \/ LsStat(t) /\ UNCHANGED file
    \/ LsStatus(t) /\ UNCHANGED file
    \/ LsSum(t) /\ UNCHANGED file
    \/ LsRmdir(t) /\ UNCHANGED file
    \/ LsMkdir(t) /\ UNCHANGED file
    \/ LsOpendir(t) /\ UNCHANGED file
    \/ (Access(t) \/ Space(t) \/ EndpointType(t) \/ IsCastor(t)) /\ UNCHANGED file
    \/ call[t].at = "change" /\ call[t].section \notin {"put", "putdone"}
       /\ Change(t) /\ UNCHANGED file
    \/ Readdir(t) /\ UNCHANGED file
    \/ Closedir(t) /\ UNCHANGED file
    \/ GetTurl(t) \/ PutTurl(t) \/ InnerOpen(t) \/ Close(t) \/ InnerClose(t)
    \/ PutDone(t) \/ ReleaseFile(t)

\* Directories that stay open while a name appears or goes away in them
Changed ==
    {t \in Threads : /\ listing[t].open /\ listing'[t].open
                     /\ t \in changed \/ Content(listing[t].path)' # Content(listing[t].path)}

SrmNext ==
    /\ (\E t \in Threads : SrmOf(t)) \/ (\E p \in Contested["srm"] : SrmMeddle(p))
    /\ changed' = Changed

-----------------------------------------------------------------------------
(* Properties.                                                             *)

InSection(t) == call[t].at \in {"ls", "ask", "change"}
Count(b) == IF b THEN 1 ELSE 0

\* The SRM context is shared by all threads and all URLs: a request is sent
\* only by the thread that has the lock, on the context for the endpoint that
\* was determined for it and with the credential of its URL.  An open
\* directory keeps the lock and its context, unless a call of the thread that
\* opened it failed to get a context or got another one.
ContextOfCall ==
    \A t \in Threads :
        /\ InSection(t) =>
            /\ lock.owner = t
            /\ ctx = [ep |-> call[t].ep, cred |-> CredOf(call[t].url)]
        /\ listing[t].open /\ ~listing[t].exposed =>
            lock.owner = t /\ listing[t].live /\ ctx = listing[t].ep

\* Whoever has the lock is in a section, has a directory open, or came out of
\* one of the two sections that return without a release; and never more often
\* than that: all the other paths through the handlers give it back.
LockAccounted ==
    \A t \in Threads : lock.owner = t =>
        lock.depth <= Count(InSection(t)) + Count(listing[t].open) + leaked[t]

\* What the cache has is what stat would find, unless another process changed
\* it, the change was made under another name or to a directory above, or the
\* entry came from a directory read before the change, or while a thread that
\* has forgotten the entry was about to make it.
NoStaleEntry ==
    \A u \in Urls : Cached(u) /\ u \notin excused => cache[u].kind = tree[PathOf[u]]

\* A directory whose content did not change from opendir to its end is listed
\* completely, from the offset asked for, each entry once and in the order of
\* the server, in one piece or in chunks.
ListedOnce ==
    \A t \in Threads :
        LET l == listing[t]
            all == InOrder(Content(l.path))
        IN  l.open /\ l.ended /\ t \notin changed =>
                l.given = SubSeq(all, l.start + 1, Len(all))

-----------------------------------------------------------------------------
(* The inductive invariant of ContextOfCall and LockAccounted.             *)

ASSUME SrmAssumption == Nobody \notin Threads /\ "" \notin Mapped

\* Sections that come after another one of the same call
Following == {"get", "put", "open get", "open put", "putdone", "release"}

SrmTypeOK ==
    /\ lock \in [owner : Threads \cup {Nobody}, depth : Nat]
    /\ ctx = [ep |-> ctx.ep, cred |-> ctx.cred]
    /\ leaked \in [Threads -> Nat]
    /\ DOMAIN call = Threads
    /\ \A t \in Threads :
        /\ call[t].at \in {"idle", "context", "inner", "ls", "ask", "change"}
        /\ call[t].at # "idle" =>
            /\ DOMAIN call[t] = {"at", "section", "rest", "url", "ep"}
            /\ call[t].rest \in Seq(Following)
    /\ DOMAIN listing = Threads
    /\ \A t \in Threads :
        /\ "open" \in DOMAIN listing[t] /\ listing[t].open \in BOOLEAN
        /\ listing[t].open =>
            /\ {"live", "exposed", "ep"} \subseteq DOMAIN listing[t]
            /\ listing[t].exposed \in BOOLEAN

LockFree == lock.owner = Nobody <=> lock.depth = 0

OneDirectory ==
    \A t \in Threads : call[t].at # "idle" /\ call[t].section = "opendir" => ~listing[t].open

\* A section and an open directory of one thread both count.
Relied(t) == listing[t].open /\ ~listing[t].exposed
DepthEnough ==
    \A t \in Threads : InSection(t) /\ Relied(t) => lock.depth >= 2

\* What the context was made with; only a credential that is not set leaves the
\* mark of an earlier one.
ContextMarked ==
    /\ ctx.ep = mark.ep
    /\ ctx.cred = mark.cred \/ (ctx.cred = "" /\ DefaultCred = "")

SrmInv ==
    /\ SrmTypeOK /\ LockFree /\ OneDirectory /\ DepthEnough /\ ContextMarked
    /\ ContextOfCall /\ LockAccounted

-----------------------------------------------------------------------------
(* The inductive invariant of NoStaleEntry and ListedOnce.                 *)

\* What the server may list, and what it says of an entry
Names == {Order[i] : i \in DOMAIN Order}
PageEntries == [path : Names, kind : Kinds \ {"absent"}]

UrlsUsed ==
    /\ menu \in Menus
    /\ \A t \in Threads : call[t].at # "idle" => call[t].url \in Urls
    /\ DOMAIN file = Threads
    /\ \A t \in Threads : file[t].open => file[t].url \in Urls

CacheTypeOK ==
    /\ tree \in [Paths -> Kinds]
    /\ cache \in [Urls -> [kind : Kinds \cup {"none"}, uses : Nat]]

\* Only what is there is ever kept.
CachedThere == \A u \in Urls : Cached(u) => cache[u].kind # "absent"

\* What gfal_srm_rmdirG has forgotten comes back only from a directory.
ForgottenFirst == \A u \in Urls : Removing(u) /\ Cached(u) => u \in excused

ListingTypeOK(l) ==
    /\ DOMAIN l = {"open", "live", "exposed", "path", "ep", "offset", "chunk", "chunked",
                   "loaded", "page", "index", "start", "given", "ended"}
    /\ l.offset \in Nat /\ l.chunk \in Nat /\ l.index \in Nat /\ l.start \in Nat
    /\ l.page \in Seq(PageEntries)
    /\ l.given \in Seq(Names)

\* The page is the part of the directory from the offset on, in chunks or to
\* the end, and what was given is what comes before the place in the page.
Slice(l, all) ==
    LET left == IF Len(all) > l.offset THEN Len(all) - l.offset ELSE 0
    IN  /\ Len(l.page) = IF l.chunked /\ l.chunk < left THEN l.chunk ELSE left
        /\ \A i \in 1 .. Len(l.page) : l.page[i].path = all[l.offset + i]
        /\ l.index <= Len(l.page)
        /\ l.chunked => l.index < l.chunk

GivenSoFar(l, all) ==
    /\ Len(l.given) = (IF l.loaded THEN l.offset + l.index ELSE l.offset) - l.start
    /\ \A i \in 1 .. Len(l.given) : l.given[i] = all[l.start + i]

InStep(l, all) ==
    /\ l.offset = l.start \/ (l.start < l.offset /\ l.offset <= Len(all))
    /\ IF l.chunked THEN l.chunk >= 1 ELSE l.offset = 0 /\ l.start = 0
    /\ l.loaded => Slice(l, all)
    /\ GivenSoFar(l, all)
    /\ l.ended => l.loaded /\ l.index = Len(l.page)

ListingsRight ==
    \A t \in Threads : listing[t].open =>
        /\ ListingTypeOK(listing[t])
        /\ t \notin changed => InStep(listing[t], InOrder(Content(listing[t].path)))

EntriesInv ==
    /\ plugin = "srm" =>
        /\ UrlsUsed /\ ListingsRight
        /\ CacheTypeOK /\ CachedThere /\ ForgottenFirst /\ NoStaleEntry
    /\ plugin # "srm" => /\ \A u \in Urls : ~Cached(u)
                         /\ \A t \in Threads : ~listing[t].open
=============================================================================
